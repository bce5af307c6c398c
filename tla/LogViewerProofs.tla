---------------------------- MODULE LogViewerProofs ----------------------------
(*****************************************************************************)
(* The log viewer: whatever the log file contains, however it is written,    *)
(* rotated and read in pieces, and whatever the page's user does while       *)
(* connections are lost, the page shows what its filter says, and follows    *)
(* only on demand.                                                           *)
(* The lines of a message are added one by one, by a fold; that a right view *)
(* stays right line by line makes it right message by message (FoldFacts).   *)
(* That the entries are whole is shown in the same way, for the lines of a   *)
(* text and what is shown of them: each node is assigned the line with which *)
(* its entry begins (Aligned).                                               *)
(*****************************************************************************)
EXTENDS LogViewer, FiniteSetTheorems, SequenceTheorems, TLAPS

(* Both of add's loops are folds: over the lines of a text, and over the   *)
(* tokens that are split into lines.                                       *)
OverLines == INSTANCE FoldFacts WITH op <- addLine
OverTokens == INSTANCE FoldFacts WITH op <- withToken

(* What the state is made of.  A Tail knows its channel once it has opened *)
(* it, and the connections a page has lost are those before its last one.  *)
Job(n) ==
    {job \in [mode : {TAIL, FOLLOW}, bytesToTail : Amounts, stopped : BOOLEAN,
              pc : {"open", "locate", "check", "exists", "length", "read"},
              channel : 0..n, position : Nat, totalBytesRead : Nat] :
        job.pc # "open" => job.channel # 0}

Message ==
    [type : {"bytes"}, data : Seq(Tokens)]
        \cup [type : {"string"}, data : {<<"file rotated">>, <<"file not found">>}]

(* The log's files, the Tails of each connection and what was sent over it. *)
ServerInv ==
    /\ files \in Seq(Seq(Tokens)) /\ exists \in BOOLEAN /\ files # <<>>
    /\ jobs \in [Connections -> Seq(Job(Len(files)))]
    /\ down \in [Connections -> Seq(Message)]

(* A page has one connection after the other; commands need an open one. *)
ConnectionInv ==
    /\ connection \in Connections /\ socket \in {"connecting", "open", "lost"}
    /\ closed \subseteq lost /\ lost \subseteq 1..connection
    /\ 1..(connection - 1) \subseteq lost
    /\ connection \in lost <=> socket = "lost"
    /\ socket = "lost" => connection + 1 \in Connections
    /\ up \in Seq(Command) /\ amount \in Amounts
    /\ socket # "open" => up = <<>>

(* At most the last Tail of a connection has not been stopped, none of a   *)
(* connection that was closed, and none where nothing has been asked for.  *)
JobsInv ==
    /\ \A c \in Connections : \A i \in 1..(Len(jobs[c]) - 1) : jobs[c][i].stopped
    /\ \A c \in closed : \A i \in DOMAIN jobs[c] : jobs[c][i].stopped
    /\ \A c \in Connections :
          c > connection \/ (c = connection /\ socket = "connecting") => jobs[c] = <<>>

(* Behind every wish to follow there is the page in follow mode, or a stop. *)
DemandInv ==
    tail.followMode \/
    /\ \A i \in DOMAIN up :
          up[i].mode = FOLLOW => \E j \in DOMAIN up : j > i /\ up[j] = stopFollowing
    /\ socket = "open" =>
          \A i \in DOMAIN jobs[connection] :
              jobs[connection][i].mode = FOLLOW /\ ~jobs[connection][i].stopped =>
                  \E j \in DOMAIN up : up[j] = stopFollowing

(* The page's tail as the filter's field says it should be.  "(" stands   *)
(* for a wish that demands nothing: an invalid expression, or a field that *)
(* is being edited.                                                        *)
Line == Seq(Tokens \ {Newline})

(* The object Tail of the page. An expression in use is neither empty nor  *)
(* invalid.                                                                *)
TailObject ==
    [filterExpression : ({undefined} \cup GrepTexts) \ {"", "("},
     scrollBackBuffer : Nat \ {0}, logType : {undefined, ERROR_LOG, REQUEST_LOG},
     buffer : Line, currentSection : BOOLEAN, followMode : BOOLEAN,
     nodes : Seq(NodeType)]

(* Nodes that are no lines of the log. *)
Remark(node) == node.kind \in {"info", "br"}

(* What the filter's field asks of a node: a section may have grown since  *)
(* it was matched, so a prefix of its lines may be what matches.           *)
NodeRight(wish, node) ==
    /\ node.kind = "info" => node.shown
    /\ ~Remark(node) => node.lines # <<>>
    /\ wish = "" => node.shown
    /\ wish \notin {"", "("} /\ ~Remark(node) =>
          /\ Matches(wish, node.lines) => node.shown
          /\ node.shown => \E n \in DOMAIN node.lines :
                              Matches(wish, SubSeq(node.lines, 1, n))

Views(wish) ==
    {t \in TailObject :
        /\ t.currentSection => \E i \in DOMAIN t.nodes : t.nodes[i].kind = "section"
        /\ wish = "" => t.filterExpression = undefined
        /\ wish \notin {"", "("} => t.filterExpression = wish
        /\ \A i \in DOMAIN t.nodes : NodeRight(wish, t.nodes[i])}

(* What the field says, unless it is not in use yet or is being edited. *)
Wish == IF controls = "bound" /\ ~timer THEN grep ELSE "("

PageInv ==
    /\ tail \in Views(Wish)
    /\ grep \in GrepTexts /\ timer \in BOOLEAN
    /\ controls \in {"pending", "bound", "never"}
-----------------------------------------------------------------------------
(* The connections are numbered from one on. *)
LEMMA Numbered == \E n \in Nat \ {0} : Connections = 1..n
<1>1. Cardinality(Connections) \in Nat
  BY LogViewerAssumption, FS_CardinalityType
<1>2. Connections = 1..Cardinality(Connections) /\ Connections # {}
  BY LogViewerAssumption
<1> QED
  BY <1>1, <1>2

-----------------------------------------------------------------------------
(* The server *)

(* What a Tail becomes by a step of its own: it remains what it was asked for. *)
Progress(n, job, new) ==
    \/ \E channel \in 1..n : new = [job EXCEPT !.pc = "locate", !.channel = channel]
    \/ /\ job.pc # "open"
       /\ \/ \E position \in Nat :
                new = [job EXCEPT !.pc = "check", !.position = position]
          \/ \E pc \in {"check", "exists", "length", "read"} : new = [job EXCEPT !.pc = pc]
          \/ \E channel \in 1..n :
                new = [job EXCEPT !.pc = "read", !.position = 0, !.channel = channel]
          \/ \E position \in Nat, total \in Nat :
                new = [job EXCEPT !.pc = "check", !.position = position,
                                  !.totalBytesRead = total]

(* Progress keeps a Tail's mode and stop. *)
LEMMA JobResumed ==
    ASSUME NEW n \in Nat, NEW job \in Job(n), NEW new, Progress(n, job, new)
    PROVE  new \in Job(n) /\ new.mode = job.mode /\ new.stopped = job.stopped
<1>1. ASSUME NEW channel \in 1..n, new = [job EXCEPT !.pc = "locate", !.channel = channel]
      PROVE  new \in Job(n) /\ new.mode = job.mode /\ new.stopped = job.stopped
  <2>1. channel \in 0..n /\ channel # 0
    OBVIOUS
  <2> QED BY ONLY <1>1, <2>1, job \in Job(n) DEF Job
<1>2. ASSUME NEW position \in Nat, job.pc # "open",
             new = [job EXCEPT !.pc = "check", !.position = position]
      PROVE  new \in Job(n) /\ new.mode = job.mode /\ new.stopped = job.stopped
  BY <1>2 DEF Job
<1>3. ASSUME NEW pc \in {"check", "exists", "length", "read"}, job.pc # "open",
             new = [job EXCEPT !.pc = pc]
      PROVE  new \in Job(n) /\ new.mode = job.mode /\ new.stopped = job.stopped
  BY <1>3 DEF Job
<1>4. ASSUME NEW channel \in 1..n, job.pc # "open",
             new = [job EXCEPT !.pc = "read", !.position = 0, !.channel = channel]
      PROVE  new \in Job(n) /\ new.mode = job.mode /\ new.stopped = job.stopped
  <2>1. channel \in 0..n /\ channel # 0 /\ 0 \in Nat
    OBVIOUS
  <2> QED BY ONLY <1>4, <2>1, job \in Job(n) DEF Job
<1>5. ASSUME NEW position \in Nat, NEW total \in Nat, job.pc # "open",
             new = [job EXCEPT !.pc = "check", !.position = position, !.totalBytesRead = total]
      PROVE  new \in Job(n) /\ new.mode = job.mode /\ new.stopped = job.stopped
  BY <1>5 DEF Job
<1> HIDE DEF Job
<1> QED
  BY <1>1, <1>2, <1>3, <1>4, <1>5 DEF Progress

(* A Tail of a few files is one of more. *)
LEMMA JobsMoreFiles ==
    ASSUME NEW m \in Nat, NEW n \in Nat, m <= n
    PROVE  Job(m) \subseteq Job(n) /\ Seq(Job(m)) \subseteq Seq(Job(n))
<1>1. Job(m) \subseteq Job(n)
  BY DEF Job
<1> QED
  <2> HIDE DEF Job
  <2> QED BY <1>1

(* The first Tail of a connection is taken away or makes progress. *)
Took(c) ==
    \/ End(c)
    \/ \E job \in Job(Len(files)) :
          /\ job.mode = Head(jobs[c]).mode /\ job.stopped = Head(jobs[c]).stopped
          /\ Resume(c, job)

(* Resuming the first Tail with what is like it is such a step. *)
LEMMA JobResumes ==
    ASSUME ServerInv, NEW c \in Connections, jobs[c] # <<>>, NEW new, Resume(c, new),
           new \in Job(Len(files)) /\ new.mode = Head(jobs[c]).mode
               /\ new.stopped = Head(jobs[c]).stopped
    PROVE  Took(c)
<1> QED BY DEF Took

(* The first Tail of a connection is one of its Tails. *)
LEMMA FirstJob ==
    ASSUME ServerInv, NEW c \in Connections, jobs[c] # <<>>
    PROVE  Head(jobs[c]) \in Job(Len(files)) /\ Len(files) \in Nat
<1>1. jobs[c] \in Seq(Job(Len(files)))
  BY DEF ServerInv
<1>2. Len(files) \in Nat
  BY DEF ServerInv
<1> HIDE DEF Job
<1> QED
  BY <1>1, <1>2

(* What is sent joins the messages. *)
LEMMA Sends ==
    ASSUME ServerInv, NEW c \in Connections, NEW message \in Message, Send(c, message)
    PROVE  down' \in [Connections -> Seq(Message)]
<1>1. down \in [Connections -> Seq(Message)]
  BY DEF ServerInv
<1> HIDE DEF Message
<1>2. Append(down[c], message) \in Seq(Message)
  BY <1>1
<1> QED
  BY <1>1, <1>2 DEF Send

(* The length of a file is a number. *)
LEMMA LengthType == ASSUME ServerInv PROVE length \in Nat
<1>1. Last(files) \in Seq(Tokens)
  BY DEF ServerInv, Last
<1> HIDE DEF Tokens
<1>2. Len(Last(files)) \in Nat
  BY <1>1
<1> QED
  BY <1>2 DEF length

(* A step of a Tail (Tail.run) takes the first one and sends messages. *)
LEMMA StepFrame ==
    ASSUME ServerInv, NEW c \in Connections, Step(c)
    PROVE  /\ jobs[c] # <<>> /\ Took(c)
           /\ down' \in [Connections -> Seq(Message)]
           /\ UNCHANGED <<files, exists, lost, closed>>
<1> DEFINE n == Len(files)
           job == Head(jobs[c])
<1> USE DEF Running
<1>0. down \in [Connections -> Seq(Message)] /\ exists \in BOOLEAN
  BY DEF ServerInv
<1>a. jobs[c] # <<>>
  BY DEF Step, OpenChannel, Locate, CheckStopped, CheckExists, CheckLength, Read, Interrupt
<1>b. job \in Job(n) /\ n \in Nat
  BY <1>a, FirstJob
<1>c. length \in Nat /\ job.bytesToTail \in Nat /\ job.position \in Nat
      /\ job.totalBytesRead \in Nat
  BY <1>b, LengthType, LogViewerAssumption DEF Job
<1>d. n \in 1..n
  BY DEF ServerInv
<1> HIDE DEF Job, Message, n, job
<1>1. CASE OpenChannel(c)
  <2>1. UNCHANGED <<files, exists, lost, closed, down>>
    BY <1>1 DEF OpenChannel
  <2>2. CASE exists
    <3> DEFINE new == [job EXCEPT !.pc = "locate", !.channel = n]
    <3>1. Resume(c, new)
      BY <1>1, <2>2 DEF OpenChannel, n, job
    <3> HIDE DEF new
    <3>2. Progress(n, job, new)
      BY <1>d DEF new, Progress
    <3>3. new \in Job(n) /\ new.mode = job.mode /\ new.stopped = job.stopped
      BY <1>b, <3>2, JobResumed
    <3>4. Took(c)
      BY <1>a, <3>1, <3>3, JobResumes DEF n, job
    <3> QED BY <1>a, <1>0, <2>1, <3>4
  <2>3. CASE ~exists
    BY <1>1, <1>a, <1>0, <2>1, <2>3 DEF OpenChannel, Took
  <2> QED BY <2>2, <2>3
<1>2. CASE Locate(c)
  <2> DEFINE start == IF length > job.bytesToTail THEN length - job.bytesToTail ELSE 0
             new == [job EXCEPT !.pc = "check", !.position = start]
  <2>1. job.pc = "locate" /\ Resume(c, new) /\ UNCHANGED <<files, exists, lost, closed, down>>
    BY <1>2 DEF Locate, job
  <2>2. start \in Nat
    BY <1>c
  <2>3. Progress(n, job, new)
    BY <2>1, <2>2 DEF Progress
  <2> HIDE DEF new
  <2>4. new \in Job(n) /\ new.mode = job.mode /\ new.stopped = job.stopped
    BY <1>b, <2>3, JobResumed
  <2>5. Took(c)
    BY <1>a, <2>1, <2>4, JobResumes DEF n, job
  <2> QED BY <1>a, <1>0, <2>1, <2>5
<1>3. CASE CheckStopped(c)
  <2>1. job.pc = "check" /\ UNCHANGED <<files, exists, lost, closed, down>>
    BY <1>3 DEF CheckStopped, job
  <2>2. CASE job.stopped
    BY <1>3, <1>a, <1>0, <2>1, <2>2 DEF CheckStopped, Took, job
  <2>3. CASE ~job.stopped
    <3> DEFINE new == [job EXCEPT !.pc = "exists"]
    <3>1. Resume(c, new)
      BY <1>3, <2>3 DEF CheckStopped, job
    <3>2. Progress(n, job, new)
      BY <2>1 DEF Progress
    <3> HIDE DEF new
    <3>3. new \in Job(n) /\ new.mode = job.mode /\ new.stopped = job.stopped
      BY <1>b, <3>2, JobResumed
    <3>4. Took(c)
      BY <1>a, <3>1, <3>3, JobResumes DEF n, job
    <3> QED BY <1>a, <1>0, <2>1, <3>4
  <2> QED BY <2>2, <2>3
<1>4. CASE CheckExists(c)
  <2>1. job.pc = "exists" /\ UNCHANGED <<files, exists, lost, closed>>
    BY <1>4 DEF CheckExists, job
  <2>2. CASE ~exists
    <3>1. End(c) /\ Send(c, String("file not found"))
      BY <1>4, <2>2 DEF CheckExists
    <3>2. String("file not found") \in Message
      BY DEF String, Message
    <3>3. down' \in [Connections -> Seq(Message)]
      BY <3>1, <3>2, Sends
    <3> QED BY <1>a, <2>1, <3>1, <3>3 DEF Took
  <2>3. CASE exists
    <3> DEFINE new == [job EXCEPT !.pc = "length"]
    <3>1. Resume(c, new) /\ UNCHANGED down
      BY <1>4, <2>3 DEF CheckExists, job
    <3>2. Progress(n, job, new)
      BY <2>1 DEF Progress
    <3> HIDE DEF new
    <3>3. new \in Job(n) /\ new.mode = job.mode /\ new.stopped = job.stopped
      BY <1>b, <3>2, JobResumed
    <3>4. Took(c)
      BY <1>a, <3>1, <3>3, JobResumes DEF n, job
    <3> QED BY <1>a, <1>0, <2>1, <3>1, <3>4
  <2> QED BY <1>0, <2>2, <2>3
<1>5. CASE CheckLength(c)
  <2>1. job.pc = "length" /\ UNCHANGED <<files, exists, lost, closed>>
    BY <1>5 DEF CheckLength, job
  <2>2. CASE job.position > length
    <3>1. Send(c, String("file rotated"))
      BY <1>5, <2>2 DEF CheckLength, job
    <3>2. String("file rotated") \in Message
      BY DEF String, Message
    <3>3. down' \in [Connections -> Seq(Message)]
      BY <3>1, <3>2, Sends
    <3>4. CASE exists
      <4> DEFINE new == [job EXCEPT !.pc = "read", !.position = 0, !.channel = n]
      <4>1. Resume(c, new)
        BY <1>5, <2>2, <3>4 DEF CheckLength, job, n
      <4>2. Progress(n, job, new)
        BY <1>d, <2>1 DEF Progress
      <4> HIDE DEF new
      <4>3. new \in Job(n) /\ new.mode = job.mode /\ new.stopped = job.stopped
        BY <1>b, <4>2, JobResumed
      <4>4. Took(c)
        BY <1>a, <4>1, <4>3, JobResumes DEF n, job
      <4> QED BY <1>a, <2>1, <3>3, <4>4
    <3>5. CASE ~exists
      <4>1. End(c)
        BY <1>5, <2>2, <3>5 DEF CheckLength, job
      <4> QED BY <1>a, <2>1, <3>3, <4>1 DEF Took
    <3> QED BY <1>0, <3>4, <3>5
  <2>3. CASE ~(job.position > length)
    <3> DEFINE new == [job EXCEPT !.pc = "read"]
    <3>1. Resume(c, new) /\ UNCHANGED down
      BY <1>5, <2>3 DEF CheckLength, job
    <3>2. Progress(n, job, new)
      BY <2>1 DEF Progress
    <3> HIDE DEF new
    <3>3. new \in Job(n) /\ new.mode = job.mode /\ new.stopped = job.stopped
      BY <1>b, <3>2, JobResumed
    <3>4. Took(c)
      BY <1>a, <3>1, <3>3, JobResumes DEF n, job
    <3> QED BY <1>a, <1>0, <2>1, <3>1, <3>4
  <2> QED BY <2>2, <2>3
<1>6. CASE Read(c)
  <2> DEFINE content == files[job.channel]
             available == Len(content) - job.position
             read == IF available > Chunk THEN Chunk ELSE available
             total == job.totalBytesRead + read
             position == job.position + read
  <2>1. job.pc = "read" /\ UNCHANGED <<files, exists, lost, closed>>
    BY <1>6 DEF Read, job
  <2>2. content \in Seq(Tokens)
    <3>1. job.channel \in 1..n
      BY <1>b, <2>1 DEF Job
    <3>2. files \in Seq(Seq(Tokens))
      BY DEF ServerInv
    <3> HIDE DEF Tokens
    <3> QED BY <3>1, <3>2 DEF n
  <2>3. available \in Int /\ Chunk \in Nat
    <3> HIDE DEF Tokens, content
    <3> QED BY <2>2, <1>c, ChunkAssumption
  <2>4. CASE available <= 0
    <3>1. UNCHANGED down /\ (IF job.mode = TAIL THEN End(c)
                             ELSE Resume(c, [job EXCEPT !.pc = "check"]))
      BY <1>6, <2>4 DEF Read, job
    <3>2. CASE job.mode = TAIL
      BY <1>a, <1>0, <2>1, <3>1, <3>2 DEF Took
    <3>3. CASE job.mode # TAIL
      <4> DEFINE new == [job EXCEPT !.pc = "check"]
      <4>1. Resume(c, new)
        BY <3>1, <3>3
      <4>2. Progress(n, job, new)
        BY <2>1 DEF Progress
      <4> HIDE DEF new
      <4>3. new \in Job(n) /\ new.mode = job.mode /\ new.stopped = job.stopped
        BY <1>b, <4>2, JobResumed
      <4>4. Took(c)
        BY <1>a, <4>1, <4>3, JobResumes DEF n, job
      <4> QED BY <1>a, <1>0, <2>1, <3>1, <4>4
    <3> QED BY <3>2, <3>3
  <2>5. CASE available > 0
    <3> DEFINE sent == SubSeq(content, job.position + 1, position)
               new == [job EXCEPT !.pc = "check", !.position = position,
                                  !.totalBytesRead = total]
               done == job.mode = TAIL /\ total >= job.bytesToTail
    <3>1. Send(c, Bytes(sent)) /\ IF done THEN End(c) ELSE Resume(c, new)
      BY <1>6, <2>3, <2>5 DEF Read, job
    <3>2. position \in Nat /\ total \in Nat /\ position <= Len(content)
      <4> HIDE DEF content
      <4> QED BY <2>3, <2>5, <1>c
    <3>3. sent \in Seq(Tokens)
      <4> HIDE DEF Tokens, content, position
      <4> QED BY <2>2, <3>2, <1>c
    <3>4. Bytes(sent) \in Message
      <4> HIDE DEF sent, Tokens
      <4> QED BY <3>3 DEF Bytes, Message
    <3>5. down' \in [Connections -> Seq(Message)]
      <4> HIDE DEF sent
      <4> QED BY <3>1, <3>4, Sends
    <3>6. Progress(n, job, new)
      BY <2>1, <3>2 DEF Progress
    <3> HIDE DEF new, done
    <3>7. new \in Job(n) /\ new.mode = job.mode /\ new.stopped = job.stopped
      <4> HIDE DEF available, read, total, position, content
      <4> QED BY <1>b, <3>6, JobResumed
    <3>8. CASE done
      BY <1>a, <2>1, <3>1, <3>5, <3>8 DEF Took
    <3>9. CASE ~done
      <4>1. Took(c)
        BY <1>a, <3>1, <3>7, <3>9, JobResumes DEF n, job
      <4> QED BY <1>a, <2>1, <3>5, <4>1
    <3> QED BY <3>8, <3>9
  <2> QED BY <2>3, <2>4, <2>5
<1>7. CASE Interrupt(c)
  BY <1>7, <1>a, <1>0 DEF Interrupt, Took
<1> QED
  BY <1>1, <1>2, <1>3, <1>4, <1>5, <1>6, <1>7 DEF Step

(* A step of a Tail leaves it or takes it away, and the others behind it. *)
LEMMA TookJobs ==
    ASSUME ServerInv, NEW c \in Connections, jobs[c] # <<>>, Took(c)
    PROVE  /\ jobs' \in [Connections -> Seq(Job(Len(files)))]
           /\ \A d \in Connections \ {c} : jobs'[d] = jobs[d]
           /\ \E gone \in Nat :
                 /\ Len(jobs[c]) = Len(jobs'[c]) + gone
                 /\ \A i \in DOMAIN jobs'[c] :
                       /\ jobs'[c][i].mode = jobs[c][i + gone].mode
                       /\ jobs'[c][i].stopped = jobs[c][i + gone].stopped
<1> DEFINE J == Job(Len(files))
           q == jobs[c]
<1>1. jobs \in [Connections -> Seq(J)]
  BY DEF ServerInv
<1> HIDE DEF J
<1>2. q \in Seq(J) /\ q # <<>>
  BY <1>1
<1> HIDE DEF q
<1>3. /\ Head(q) = q[1] /\ Tail(q) \in Seq(J) /\ Len(Tail(q)) = Len(q) - 1
      /\ Len(q) \in Nat /\ Len(q) >= 1
      /\ \A i \in 1..(Len(q) - 1) : Tail(q)[i] = q[i + 1]
  BY <1>2
<1>4. CASE End(c)
  <2>1. jobs' = [jobs EXCEPT ![c] = Tail(q)]
    BY <1>4 DEF End, q
  <2>2. /\ jobs' \in [Connections -> Seq(J)] /\ jobs'[c] = Tail(q)
        /\ \A d \in Connections \ {c} : jobs'[d] = jobs[d]
    BY <1>1, <1>3, <2>1
  <2>3. /\ Len(q) = Len(jobs'[c]) + 1
        /\ \A i \in DOMAIN jobs'[c] : jobs'[c][i] = q[i + 1]
    BY <1>3, <2>2
  <2> QED BY <2>2, <2>3 DEF q, J
<1>5. CASE \E job \in J : /\ job.mode = Head(q).mode /\ job.stopped = Head(q).stopped
                          /\ Resume(c, job)
  <2>1. PICK job \in J : /\ job.mode = q[1].mode /\ job.stopped = q[1].stopped
                         /\ jobs' = [jobs EXCEPT ![c] = <<job>> \o Tail(q)]
    BY <1>5, <1>3 DEF Resume, q
  <2> DEFINE r == <<job>> \o Tail(q)
  <2>2. /\ r \in Seq(J) /\ Len(r) = Len(q) /\ r[1] = job
        /\ \A i \in 2..Len(q) : r[i] = q[i]
    BY <1>3
  <2> HIDE DEF r
  <2>3. /\ jobs' \in [Connections -> Seq(J)] /\ jobs'[c] = r
        /\ \A d \in Connections \ {c} : jobs'[d] = jobs[d]
    BY <1>1, <2>1, <2>2 DEF r
  <2>4. /\ Len(q) = Len(jobs'[c]) + 0
        /\ \A i \in DOMAIN jobs'[c] : /\ jobs'[c][i].mode = q[i + 0].mode
                                      /\ jobs'[c][i].stopped = q[i + 0].stopped
    BY <1>3, <2>1, <2>2, <2>3
  <2> QED BY <2>3, <2>4 DEF q, J
<1> QED
  BY <1>4, <1>5 DEF Took, q, J

(* Stopping stops the last Tail and leaves the number of Tails. *)
LEMMA StopTail ==
    ASSUME NEW n \in Nat, NEW q \in Seq(Job(n))
    PROVE  /\ stopTail(q) \in Seq(Job(n)) /\ Len(stopTail(q)) = Len(q)
           /\ \A i \in 1..Len(q) :
                 i = Len(q) \/ q[i].stopped => stopTail(q)[i].stopped
<1>1. CASE q = <<>>
  BY <1>1 DEF stopTail
<1>2. CASE q # <<>>
  <2> DEFINE last == q[Len(q)]
             stopped == [last EXCEPT !.stopped = TRUE]
  <2>1. last \in Job(n) /\ Len(q) \in 1..Len(q)
    <3> HIDE DEF Job
    <3> QED BY <1>2
  <2>2. stopped \in Job(n) /\ stopped.stopped
    <3> HIDE DEF last
    <3> QED BY <2>1 DEF Job
  <2>3. stopTail(q) = [q EXCEPT ![Len(q)] = stopped]
    BY <1>2 DEF stopTail
  <2> HIDE DEF Job, stopped, last
  <2>4. [q EXCEPT ![Len(q)] = stopped] \in Seq(Job(n))
    BY <2>1, <2>2, ExceptSeq
  <2>5. /\ Len(stopTail(q)) = Len(q) /\ stopTail(q)[Len(q)] = stopped
        /\ \A i \in 1..Len(q) : i # Len(q) => stopTail(q)[i] = q[i]
    BY <2>1, <2>3
  <2> QED BY <2>2, <2>3, <2>4, <2>5
<1> QED
  BY <1>1, <1>2

-----------------------------------------------------------------------------
(* The connections *)

SystemInv == ServerInv /\ ConnectionInv

(* What the page does alone leaves the server. *)
LEMMA ServerUnchanged ==
    ASSUME ServerInv, UNCHANGED <<files, exists, jobs, down>> PROVE ServerInv'
<1> QED BY DEF ServerInv

(* A page begins with its first connection and no Tails. *)
LEMMA SystemInit == Init => SystemInv
<1> SUFFICES ASSUME Init PROVE SystemInv
  OBVIOUS
<1>1. PICK s \in Scenarios : /\ \E content \in s.contents : files = <<content>>
                             /\ amount \in s.amounts
  BY DEF Init
<1>2. s.contents \subseteq Seq(Tokens) /\ s.amounts \subseteq Amounts
  BY LogViewerAssumption
<1>3. files \in Seq(Seq(Tokens)) /\ files # <<>>
  <2> HIDE DEF Tokens
  <2> QED BY <1>1, <1>2
<1>4. ServerInv
  <2> HIDE DEF Job, Message, Tokens
  <2> QED BY <1>3 DEF Init, ServerInv
<1>5. ConnectionInv
  <2>1. 1 \in Connections
    BY Numbered
  <2>2. /\ lost = {} /\ closed = {} /\ socket = "connecting" /\ connection = 1 /\ up = <<>>
        /\ amount \in Amounts
    BY <1>1, <1>2 DEF Init
  <2> HIDE DEF Command
  <2> QED BY <2>1, <2>2 DEF ConnectionInv
<1> QED
  BY <1>4, <1>5 DEF SystemInv

(* The commands of the page are commands. *)
LEMMA CommandTypes ==
    ASSUME ConnectionInv
    PROVE  /\ tailSelectedLogFile \in Command /\ followSelectedLogFile \in Command
           /\ stopFollowing \in Command
           /\ \A command \in Command : Sent(command) \in Seq(Command)
<1>1. /\ tailSelectedLogFile \in Command /\ followSelectedLogFile \in Command
      /\ stopFollowing \in Command
  BY DEF ConnectionInv, Command, tailSelectedLogFile, followSelectedLogFile, stopFollowing
<1>2. up \in Seq(Command)
  BY DEF ConnectionInv
<1> HIDE DEF Command
<1> QED
  BY <1>1, <1>2 DEF Sent

(* The end of a connection. *)
LEMMA UnloadEnds ==
    ASSUME SystemInv, Unload, UNCHANGED <<files, exists, jobs, closed>>
    PROVE  /\ ServerInv'
           /\ up' = <<>> /\ lost' \subseteq 1..connection /\ 1..connection \subseteq lost'
           /\ closed' \subseteq lost'
<1>1. connection \in Connections /\ connection \in Nat \ {0}
  BY Numbered DEF SystemInv, ConnectionInv
<1>2. down' \in [Connections -> Seq(Message)]
  <2>1. down \in [Connections -> Seq(Message)] /\ down' = [down EXCEPT ![connection] = <<>>]
    BY DEF SystemInv, ServerInv, Unload
  <2> HIDE DEF Message
  <2> QED BY <1>1, <2>1
<1>3. ServerInv'
  BY <1>2 DEF SystemInv, ServerInv
<1> QED
  BY <1>1, <1>3 DEF SystemInv, ConnectionInv, Unload

(* A command that the server receives stops a Tail, starts another, or is  *)
(* ignored.                                                                *)
LEMMA ReceivedCommand ==
    ASSUME SystemInv, ReceiveCommand
    PROVE  /\ up # <<>> /\ socket = "open" /\ connection \in Connections
           /\ Head(up) \in Command /\ up' = Tail(up) /\ up' \in Seq(Command)
           /\ \/ UNCHANGED jobs /\ Head(up).mode # "stop"
              \/ /\ Head(up).mode = "stop"
                 /\ jobs' = [jobs EXCEPT ![connection] = stopTail(@)]
              \/ /\ Head(up).mode # "stop"
                 /\ \E job \in Job(Len(files)) :
                       /\ job.mode = Head(up).mode
                       /\ jobs' = [jobs EXCEPT ![connection] = Append(stopTail(@), job)]
           /\ UNCHANGED <<files, exists, closed, lost, down, tail, grep, timer, amount,
                          controls, socket, connection, budget, heard>>
<1>1. /\ up # <<>> /\ up \in Seq(Command) /\ up' = Tail(up)
      /\ onWebSocketText(connection, Head(up))
      /\ connection \in Connections /\ socket = "open"
      /\ UNCHANGED <<files, exists, closed, lost, down, tail, grep, timer, amount,
                     controls, socket, connection, budget, heard>>
  <2> HIDE DEF Command
  <2> QED BY DEF ReceiveCommand, onWebSocketText, SystemInv, ConnectionInv
<1>2. Head(up) \in Command /\ up' \in Seq(Command)
  <2> HIDE DEF Command
  <2> QED BY <1>1
<1>3. CASE Head(up).mode = "stop"
  BY <1>1, <1>2, <1>3 DEF onWebSocketText
<1>4. CASE Head(up).mode # "stop"
  <2> DEFINE job == NewTail(Head(up).mode, Head(up).amount)
  <2>1. Head(up).mode \in {TAIL, FOLLOW} /\ Head(up).amount \in Amounts
    BY <1>2, <1>4 DEF Command
  <2>2. Len(files) \in Nat
    BY DEF SystemInv, ServerInv
  <2>3. job \in Job(Len(files)) /\ job.mode = Head(up).mode
    BY <2>1, <2>2 DEF NewTail, Job
  <2>4. startTail(connection, Head(up)) \/ UNCHANGED jobs
    BY <1>1, <1>4 DEF onWebSocketText
  <2>5. startTail(connection, Head(up)) =>
            jobs' = [jobs EXCEPT ![connection] = Append(stopTail(@), job)]
    BY DEF startTail
  <2> HIDE DEF job, Command, Job
  <2> QED BY <1>1, <1>2, <1>4, <2>3, <2>4, <2>5
<1> QED
  BY <1>3, <1>4

(* Every step keeps the server's state. *)
LEMMA ServerNext ==
    ASSUME SystemInv, [Next]_vars
    PROVE  ServerInv'
<1>0. ServerInv /\ ConnectionInv
  BY DEF SystemInv
<1>1. CASE FirstOpen \/ Open \/ Reconnect \/ toggleFollowMode \/ EditGrep \/ GrepTimer
           \/ ChangeAmount \/ UNCHANGED vars
  <2>1. UNCHANGED <<files, exists, jobs, down>>
    BY <1>1 DEF FirstOpen, Open, Reconnect, toggleFollowMode, EditGrep, GrepTimer,
                ChangeAmount, vars, serverVars
  <2> QED BY <1>0, <2>1, ServerUnchanged
<1>2. CASE Lose
  BY <1>2, UnloadEnds DEF Lose
<1>3. CASE logfileParametersChanged
  BY <1>3, UnloadEnds DEF logfileParametersChanged
<1>4. CASE Receive
  <2>1. down' = [down EXCEPT ![connection] = Tail(@)] /\ down[connection] # <<>>
        /\ UNCHANGED <<files, exists, jobs>>
    BY <1>4 DEF Receive
  <2> HIDE DEF Message, Job
  <2>2. connection \in Connections /\ down \in [Connections -> Seq(Message)]
    BY <1>0 DEF ServerInv, ConnectionInv
  <2>3. Tail(down[connection]) \in Seq(Message)
    BY <2>1, <2>2
  <2>4. down' \in [Connections -> Seq(Message)]
    BY <2>1, <2>2, <2>3
  <2> QED BY <1>0, <2>1, <2>4 DEF ServerInv
<1>5. CASE ReceiveCommand
  <2> DEFINE J == Job(Len(files))
             q == stopTail(jobs[connection])
  <2>1. connection \in Connections /\ jobs \in [Connections -> Seq(J)]
    BY <1>0 DEF ServerInv, ConnectionInv
  <2>2. q \in Seq(J)
    <3>1. Len(files) \in Nat /\ jobs[connection] \in Seq(J)
      BY <1>0, <2>1 DEF ServerInv
    <3> QED BY <3>1, StopTail
  <2>3. \/ UNCHANGED jobs
        \/ jobs' = [jobs EXCEPT ![connection] = q]
        \/ \E job \in J : jobs' = [jobs EXCEPT ![connection] = Append(q, job)]
    BY <1>5, ReceivedCommand
  <2>4. UNCHANGED <<files, exists, down>>
    BY <1>5, ReceivedCommand
  <2>5. jobs' \in [Connections -> Seq(J)]
    <3> HIDE DEF J, q
    <3>1. \A job \in J : Append(q, job) \in Seq(J)
      BY <2>2
    <3> QED BY <2>1, <2>2, <2>3, <3>1
  <2> HIDE DEF Message, Job
  <2> QED BY <1>0, <2>4, <2>5 DEF ServerInv
<1>6. ASSUME NEW c \in Connections, Server(c) PROVE ServerInv'
  <2>1. CASE Step(c)
    <3>1. /\ jobs[c] # <<>> /\ Took(c) /\ down' \in [Connections -> Seq(Message)]
          /\ UNCHANGED <<files, exists>>
      BY <1>0, <2>1, StepFrame
    <3>2. jobs' \in [Connections -> Seq(Job(Len(files)))]
      BY <1>0, <3>1, TookJobs
    <3> HIDE DEF Message, Job
    <3> QED BY <1>0, <3>1, <3>2 DEF ServerInv
  <2>2. CASE onWebSocketClose(c)
    <3> DEFINE J == Job(Len(files))
               q == stopTail(jobs[c])
               r == SubSeq(q, 1, IF jobs[c] = <<>> THEN 0 ELSE 1)
    <3>1. jobs' = [jobs EXCEPT ![c] = r] /\ UNCHANGED <<files, exists, down>>
      BY <2>2 DEF onWebSocketClose
    <3>2. jobs \in [Connections -> Seq(J)] /\ Len(files) \in Nat /\ jobs[c] \in Seq(J)
      BY <1>0 DEF ServerInv
    <3>3. q \in Seq(J) /\ Len(q) = Len(jobs[c])
      BY <3>2, StopTail
    <3>4. r \in Seq(J)
      <4> HIDE DEF J, q
      <4> QED BY <3>2, <3>3
    <3>5. jobs' \in [Connections -> Seq(J)]
      <4> HIDE DEF J, r
      <4> QED BY <3>1, <3>2, <3>4
    <3> HIDE DEF Message, Job
    <3> QED BY <1>0, <3>1, <3>5 DEF ServerInv
  <2> QED BY <1>6, <2>1, <2>2 DEF Server
<1>7. CASE Program
  <2>0. /\ files \in Seq(Seq(Tokens)) /\ files # <<>> /\ Len(files) \in Nat
        /\ jobs \in [Connections -> Seq(Job(Len(files)))]
        /\ down \in [Connections -> Seq(Message)] /\ exists \in BOOLEAN
    BY <1>0 DEF ServerInv
  <2> HIDE DEF Tokens, Message, Job
  <2>1. ASSUME NEW token \in Tokens, Write(token) PROVE ServerInv'
    <3> DEFINE log == Append(files[Len(files)], token)
    <3>1. log \in Seq(Tokens) /\ Len(files) \in 1..Len(files)
      BY <2>0
    <3>2. files' = [files EXCEPT ![Len(files)] = log] /\ UNCHANGED <<exists, jobs, down>>
      BY <2>1 DEF Write
    <3> HIDE DEF log
    <3>3. files' \in Seq(Seq(Tokens)) /\ Len(files') = Len(files)
      BY <2>0, <3>1, <3>2, ExceptSeq
    <3>4. files' # <<>>
      BY <2>0, <3>3
    <3> QED BY <2>0, <3>2, <3>3, <3>4 DEF ServerInv
  <2>2. CASE RotateAway
    BY <2>0, <2>2 DEF RotateAway, ServerInv
  <2>3. CASE Create
    <3>1. files' = Append(files, <<>>) /\ exists' = TRUE /\ UNCHANGED <<jobs, down>>
      BY <2>3 DEF Create
    <3>2. files' \in Seq(Seq(Tokens)) /\ files' # <<>> /\ Len(files') = Len(files) + 1
      BY <2>0, <3>1
    <3>3. Seq(Job(Len(files))) \subseteq Seq(Job(Len(files')))
      <4>1. Len(files') \in Nat /\ Len(files) <= Len(files')
        BY <2>0, <3>2
      <4> QED BY <2>0, <4>1, JobsMoreFiles
    <3>4. jobs' \in [Connections -> Seq(Job(Len(files')))]
      BY <2>0, <3>1, <3>3
    <3> QED BY <2>0, <3>1, <3>2, <3>4 DEF ServerInv
  <2> QED BY <1>7, <2>1, <2>2, <2>3 DEF Program
<1> QED
  BY <1>1, <1>2, <1>3, <1>4, <1>5, <1>6, <1>7 DEF Next

(* Every step keeps the state of the connections. *)
LEMMA ConnectionNext ==
    ASSUME SystemInv, [Next]_vars
    PROVE  ConnectionInv'
<1>0. ConnectionInv /\ connection \in Nat \ {0}
  BY Numbered DEF SystemInv, ConnectionInv
<1> USE DEF ConnectionInv
<1> HIDE DEF Command
<1>a. \A command \in {tailSelectedLogFile, followSelectedLogFile, stopFollowing} :
          command \in Command /\ Sent(command) \in Seq(Command) /\ <<command>> \in Seq(Command)
  BY <1>0, CommandTypes
<1>1. CASE FirstOpen
  <2>1. up' \in Seq(Command)
    <3>1. up' = <<tailSelectedLogFile>> \/ up' = <<>>
      BY <1>1 DEF FirstOpen, QueryCommand
    <3>2. <<>> \in Seq(Command)
      OBVIOUS
    <3> QED BY <1>a, <3>1, <3>2
  <2> QED BY <1>0, <1>1, <2>1 DEF FirstOpen, serverVars
<1>2. CASE Open
  <2>1. up' \in Seq(Command)
    BY <1>2, <1>a DEF Open
  <2> QED BY <1>0, <1>2, <2>1 DEF Open, serverVars
<1>3. CASE Lose
  <2>1. UNCHANGED <<files, exists, jobs, closed, connection, amount>> /\ Unload
        /\ socket' = "lost" /\ connection + 1 \in Connections
    BY <1>3 DEF Lose
  <2>2. /\ up' = <<>> /\ lost' \subseteq 1..connection /\ 1..connection \subseteq lost'
        /\ closed' \subseteq lost'
    BY <2>1, UnloadEnds
  <2> QED BY <1>0, <2>1, <2>2
<1>4. CASE Reconnect
  <2>1. /\ connection' = connection + 1 /\ socket = "lost" /\ socket' = "connecting"
        /\ UNCHANGED <<lost, closed, up, amount>>
    BY <1>4 DEF Reconnect, serverVars
  <2> QED BY <1>0, <2>1
<1>5. CASE Receive
  BY <1>0, <1>5 DEF Receive
<1>6. CASE toggleFollowMode
  <2>1. up' \in Seq(Command) /\ (socket # "open" => up' = up)
    <3>1. up' = Sent(stopFollowing) \/ up' = Sent(followSelectedLogFile)
      BY <1>6 DEF toggleFollowMode
    <3> QED BY <1>a, <3>1 DEF Sent
  <2>2. UNCHANGED <<connection, socket, lost, closed, amount>>
    BY <1>6 DEF toggleFollowMode, serverVars
  <2> QED BY <1>0, <2>1, <2>2
<1>7. CASE EditGrep \/ GrepTimer \/ UNCHANGED vars
  BY <1>0, <1>7 DEF EditGrep, GrepTimer, vars, serverVars, pageVars
<1>8. CASE ChangeAmount
  BY <1>0, <1>8 DEF ChangeAmount, serverVars
<1>9. CASE logfileParametersChanged
  <2>1. UNCHANGED <<files, exists, jobs, closed, amount>> /\ Unload
        /\ socket' = "connecting" /\ connection + 1 \in Connections
        /\ connection' = connection + 1
    BY <1>9 DEF logfileParametersChanged
  <2>2. /\ up' = <<>> /\ lost' \subseteq 1..connection /\ 1..connection \subseteq lost'
        /\ closed' \subseteq lost'
    BY <2>1, UnloadEnds
  <2> QED BY <1>0, <2>1, <2>2
<1>10. CASE ReceiveCommand
  BY <1>0, <1>10, ReceivedCommand
<1>11. ASSUME NEW c \in Connections, Server(c) PROVE ConnectionInv'
  <2>1. UNCHANGED <<connection, socket, up, amount>>
    BY <1>11 DEF Server, pageVars
  <2>2. CASE Step(c)
    <3>1. UNCHANGED <<lost, closed>>
      BY <2>2, StepFrame DEF SystemInv
    <3> QED BY <1>0, <2>1, <3>1
  <2>3. CASE onWebSocketClose(c)
    <3>1. UNCHANGED lost /\ closed' = closed \cup {c} /\ c \in lost
      BY <2>3 DEF onWebSocketClose
    <3> QED BY <1>0, <2>1, <3>1
  <2> QED BY <1>11, <2>2, <2>3 DEF Server
<1>12. CASE Program
  BY <1>0, <1>12 DEF Program, Write, RotateAway, Create, pageVars
<1> QED
  BY <1>1, <1>2, <1>3, <1>4, <1>5, <1>6, <1>7, <1>8, <1>9, <1>10, <1>11, <1>12 DEF Next

(* The server has at most the Tails of the connections there were, each    *)
(* with a position in a file that exists; a closed connection was lost     *)
(* before (TailSocket.java 59-64, 118-132; Tail.java 82-150).              *)
THEOREM ServerInvariance == Spec => []SystemInv
<1>1. Init => SystemInv
  BY SystemInit
<1>2. SystemInv /\ [Next]_vars => SystemInv'
  BY ServerNext, ConnectionNext DEF SystemInv
<1> QED
  BY <1>1, <1>2, PTL DEF Spec

-----------------------------------------------------------------------------
(* Who follows for whom *)

FollowInv == SystemInv /\ JobsInv /\ DemandInv

(* Every step keeps at most the last Tail of a connection from being       *)
(* stopped.                                                                *)
LEMMA JobsNext ==
    ASSUME SystemInv, JobsInv, [Next]_vars
    PROVE  JobsInv'
<1>0. /\ ServerInv /\ ConnectionInv /\ connection \in Nat \ {0}
      /\ \A c \in Connections : c \in Nat /\ Len(jobs[c]) \in Nat /\ DOMAIN jobs[c] = 1..Len(jobs[c])
  <2>1. ServerInv /\ ConnectionInv /\ connection \in Nat \ {0}
    BY Numbered DEF SystemInv, ConnectionInv
  <2>2. jobs \in [Connections -> Seq(Job(Len(files)))]
    BY <2>1 DEF ServerInv
  <2> HIDE DEF Job
  <2> QED BY <2>1, <2>2, Numbered
<1>1. CASE UNCHANGED <<jobs, closed, connection>> /\ (socket' = "connecting" => socket = "connecting")
  BY <1>1 DEF JobsInv
<1>2. CASE FirstOpen \/ Open \/ Lose \/ Receive \/ toggleFollowMode \/ EditGrep \/ GrepTimer
           \/ ChangeAmount \/ Program \/ UNCHANGED vars
  BY <1>1, <1>2 DEF FirstOpen, Open, Lose, Receive, toggleFollowMode, EditGrep, GrepTimer,
                    ChangeAmount, Program, Write, RotateAway, Create, vars, serverVars, pageVars
<1>3. CASE Reconnect \/ logfileParametersChanged
  <2>1. UNCHANGED <<jobs, closed>> /\ connection' = connection + 1
    BY <1>3 DEF Reconnect, logfileParametersChanged, serverVars
  <2>2. \A c \in Connections : c >= connection + 1 => c > connection
    BY <1>0
  <2> QED BY <1>0, <2>1, <2>2 DEF JobsInv
<1>4. CASE ReceiveCommand
  <2> DEFINE c == connection
             q == jobs[c]
             stopped == stopTail(q)
  <2>1. c \in Connections /\ socket = "open" /\ UNCHANGED <<closed, connection, socket>>
    BY <1>4, ReceivedCommand
  <2>2. c \notin closed /\ Len(q) \in Nat
    BY <1>0, <2>1 DEF ConnectionInv
  <2>3. /\ jobs \in [Connections -> Seq(Job(Len(files)))] /\ Len(files) \in Nat
        /\ q \in Seq(Job(Len(files)))
    BY <1>0, <2>1 DEF ServerInv
  <2>4. /\ stopped \in Seq(Job(Len(files))) /\ Len(stopped) = Len(q)
        /\ \A i \in 1..Len(q) : stopped[i].stopped
    <3>1. \A i \in 1..Len(q) : i # Len(q) => q[i].stopped
      BY <2>1, <2>2 DEF JobsInv
    <3> HIDE DEF Job, q
    <3> QED BY <2>3, <3>1, StopTail DEF stopped
  <2>5. \A d \in Connections \ {c} : jobs'[d] = jobs[d]
    BY <1>4, <2>3, ReceivedCommand
  <2>6. \A i \in 1..(Len(jobs'[c]) - 1) : jobs'[c][i].stopped
    <3>1. CASE UNCHANGED jobs
      BY <2>1, <3>1 DEF JobsInv
    <3>2. CASE jobs' = [jobs EXCEPT ![c] = stopped]
      <4>1. jobs'[c] = stopped
        BY <2>1, <2>3, <3>2
      <4> HIDE DEF stopped, Job
      <4> QED BY <2>2, <2>4, <4>1
    <3>3. ASSUME NEW job, jobs' = [jobs EXCEPT ![c] = Append(stopped, job)]
          PROVE  \A i \in 1..(Len(jobs'[c]) - 1) : jobs'[c][i].stopped
      <4>1. jobs'[c] = Append(stopped, job)
        BY <2>1, <2>3, <3>3
      <4> HIDE DEF stopped, Job
      <4>2. Len(Append(stopped, job)) = Len(q) + 1
            /\ \A i \in 1..Len(q) : Append(stopped, job)[i] = stopped[i]
        BY <2>2, <2>4
      <4> QED BY <2>2, <2>4, <4>1, <4>2
    <3> QED BY <1>4, <3>1, <3>2, <3>3, ReceivedCommand
  <2>7. closed \subseteq Connections
    BY <1>0, Numbered DEF ConnectionInv
  <2> HIDE DEF q, stopped, c
  <2>8. \A d \in Connections : \A i \in 1..(Len(jobs'[d]) - 1) : jobs'[d][i].stopped
    <3>1. \A d \in Connections \ {c} : \A i \in 1..(Len(jobs[d]) - 1) : jobs[d][i].stopped
      BY DEF JobsInv
    <3> QED BY <2>5, <2>6, <3>1
  <2>9. \A d \in closed : \A i \in DOMAIN jobs'[d] : jobs'[d][i].stopped
    <3>1. \A d \in closed : \A i \in DOMAIN jobs[d] : jobs[d][i].stopped
      BY DEF JobsInv
    <3> QED BY <2>2, <2>5, <2>7, <3>1
  <2>10. \A d \in Connections : d > connection => jobs'[d] = <<>>
    <3>1. \A d \in Connections : d > connection => jobs[d] = <<>> /\ d # c
      BY <1>0 DEF JobsInv, c
    <3> QED BY <2>5, <3>1
  <2> QED BY <2>1, <2>8, <2>9, <2>10 DEF JobsInv, c
<1>5. ASSUME NEW c \in Connections, Server(c) PROVE JobsInv'
  <2>0. UNCHANGED <<connection, socket>>
    BY <1>5 DEF Server, pageVars
  <2>1. CASE Step(c)
    <3>1. jobs[c] # <<>> /\ Took(c) /\ UNCHANGED closed
      BY <1>0, <2>1, StepFrame
    <3>2. /\ jobs' \in [Connections -> Seq(Job(Len(files)))]
          /\ \A d \in Connections \ {c} : jobs'[d] = jobs[d]
      BY <1>0, <3>1, TookJobs
    <3>3. PICK gone \in Nat :
              /\ Len(jobs[c]) = Len(jobs'[c]) + gone
              /\ \A i \in DOMAIN jobs'[c] : jobs'[c][i].stopped = jobs[c][i + gone].stopped
      BY <1>0, <3>1, TookJobs
    <3>4. Len(jobs'[c]) \in Nat /\ DOMAIN jobs'[c] = 1..Len(jobs'[c])
      <4> HIDE DEF Job
      <4> QED BY <3>2
    <3>5. \A i \in 1..(Len(jobs'[c]) - 1) : jobs'[c][i].stopped
      <4>1. SUFFICES ASSUME NEW i \in 1..(Len(jobs'[c]) - 1) PROVE jobs'[c][i].stopped
        OBVIOUS
      <4>2. i \in DOMAIN jobs'[c] /\ i + gone \in 1..(Len(jobs[c]) - 1)
        BY <3>3, <3>4
      <4> QED BY <3>3, <4>2 DEF JobsInv
    <3>6. c \in closed => \A i \in DOMAIN jobs'[c] : jobs'[c][i].stopped
      <4>1. SUFFICES ASSUME c \in closed, NEW i \in DOMAIN jobs'[c] PROVE jobs'[c][i].stopped
        OBVIOUS
      <4>2. i + gone \in DOMAIN jobs[c]
        BY <1>0, <3>3, <3>4
      <4> QED BY <3>3, <4>1, <4>2 DEF JobsInv
    <3>7. ~(c > connection \/ (c = connection /\ socket = "connecting"))
      BY <3>1 DEF JobsInv
    <3>8. closed \subseteq Connections
      BY <1>0, Numbered DEF ConnectionInv
    <3> QED BY <1>0, <2>0, <3>1, <3>2, <3>5, <3>6, <3>7, <3>8 DEF JobsInv
  <2>2. CASE onWebSocketClose(c)
    <3> DEFINE q == jobs[c]
               stopped == stopTail(q)
               r == SubSeq(stopped, 1, IF q = <<>> THEN 0 ELSE 1)
    <3>1. jobs' = [jobs EXCEPT ![c] = r] /\ closed' = closed \cup {c}
      BY <2>2 DEF onWebSocketClose
    <3>2. /\ jobs \in [Connections -> Seq(Job(Len(files)))] /\ Len(files) \in Nat
          /\ q \in Seq(Job(Len(files))) /\ Len(q) \in Nat
      BY <1>0 DEF ServerInv
    <3>3. /\ stopped \in Seq(Job(Len(files))) /\ Len(stopped) = Len(q)
          /\ \A i \in 1..Len(q) : stopped[i].stopped
      <4>1. \A i \in 1..Len(q) : i # Len(q) => q[i].stopped
        BY <1>0 DEF JobsInv
      <4> HIDE DEF Job, q
      <4> QED BY <3>2, <4>1, StopTail DEF stopped
    <3>4. /\ jobs'[c] = r /\ \A d \in Connections \ {c} : jobs'[d] = jobs[d]
      BY <3>1, <3>2
    <3> HIDE DEF stopped, Job
    <3>5. /\ DOMAIN r \subseteq 1..1 /\ Len(r) <= 1 /\ Len(r) \in Nat
          /\ \A i \in DOMAIN r : r[i].stopped
          /\ q = <<>> => r = <<>>
      <4>1. CASE q = <<>>
        <5>1. r = <<>>
          BY <3>3, <4>1
        <5> HIDE DEF r
        <5> QED BY <5>1
      <4>2. CASE q # <<>>
        <5>1. Len(q) >= 1 /\ r = SubSeq(stopped, 1, 1)
          BY <3>2, <4>2
        <5>2. DOMAIN r = 1..1 /\ Len(r) = 1 /\ r[1] = stopped[1]
          BY <3>3, <3>2, <5>1
        <5>3. stopped[1].stopped
          BY <3>3, <3>2, <5>1
        <5> HIDE DEF r, q
        <5> QED BY <4>2, <5>2, <5>3
      <4> QED BY <4>1, <4>2
    <3> HIDE DEF r
    <3>6. ~(c > connection) /\ ~(c = connection /\ socket = "connecting")
      BY <1>0, <2>2 DEF onWebSocketClose, ConnectionInv
    <3>7. closed \subseteq Connections
      BY <1>0, Numbered DEF ConnectionInv
    <3> QED BY <1>0, <2>0, <3>1, <3>4, <3>5, <3>6, <3>7 DEF JobsInv
  <2> QED BY <1>5, <2>1, <2>2 DEF Server
<1> QED
  BY <1>2, <1>3, <1>4, <1>5 DEF Next

-----------------------------------------------------------------------------
(* The view *)

(* Sequences: a sequence over a set is one over a larger set; *)
LEMMA WiderSeq ==
    ASSUME NEW A, NEW B, A \subseteq B, NEW s \in Seq(A) PROVE s \in Seq(B)
<1> QED OBVIOUS

(* ... a single element is one; *)
LEMMA Singleton ==
    ASSUME NEW S, NEW x \in S PROVE <<x>> \in Seq(S)
<1> QED OBVIOUS

(* ... so are four; *)
LEMMA FourElements ==
    ASSUME NEW S, NEW a \in S, NEW b \in S, NEW c \in S, NEW d \in S,
           NEW s, s = <<a, b, c, d>>
    PROVE  s \in Seq(S) /\ Len(s) = 4 /\ \A i \in 1..4 : s[i] \in {a, b, c, d}
<1> QED OBVIOUS

(* ... what a concatenation is, element by element; *)
LEMMA Concatenated ==
    ASSUME NEW S, NEW s \in Seq(S), NEW t \in Seq(S), NEW r, r = s \o t
    PROVE  /\ r \in Seq(S) /\ Len(r) = Len(s) + Len(t) /\ DOMAIN r = 1..Len(r)
           /\ \A i \in 1..Len(r) : r[i] = IF i <= Len(s) THEN s[i] ELSE t[i - Len(s)]
<1> QED OBVIOUS

(* ... a function on 1..n is one; *)
LEMMA AsSequence ==
    ASSUME NEW S, NEW n \in Nat, NEW f, f = [i \in 1..n |-> f[i]], \A i \in 1..n : f[i] \in S
    PROVE  f \in Seq(S) /\ Len(f) = n
<1> QED OBVIOUS

(* ... its longest prefix is itself; *)
LEMMA WholePrefix ==
    ASSUME NEW S, NEW s \in Seq(S), s # <<>>
    PROVE  Len(s) \in DOMAIN s /\ SubSeq(s, 1, Len(s)) = s
<1>1. Len(s) \in Nat /\ Len(s) >= 1
  OBVIOUS
<1>2. Len(SubSeq(s, 1, Len(s))) = Len(s) /\ SubSeq(s, 1, Len(s)) \in Seq(S)
  BY <1>1
<1> QED
  BY <1>1, <1>2

(* ... and appending leaves the prefixes. *)
LEMMA AppendPrefix ==
    ASSUME NEW S, NEW s \in Seq(S), NEW x \in S, NEW n \in DOMAIN s
    PROVE  n \in DOMAIN Append(s, x) /\ SubSeq(Append(s, x), 1, n) = SubSeq(s, 1, n)
<1>1. /\ n \in 1..Len(s) /\ Len(s) \in Nat /\ Append(s, x) \in Seq(S)
      /\ Len(Append(s, x)) = Len(s) + 1
      /\ \A i \in 1..n : Append(s, x)[i] = s[i]
  OBVIOUS
<1>2. /\ SubSeq(Append(s, x), 1, n) = [i \in 1..n |-> Append(s, x)[i]]
      /\ SubSeq(s, 1, n) = [i \in 1..n |-> s[i]]
  BY <1>1
<1> QED
  BY <1>1, <1>2

(* Lines match or do not. *)
LEMMA MatchesBoolean ==
    ASSUME NEW e, NEW lines PROVE Matches(e, lines) \in BOOLEAN
<1> DEFINE content == FlattenSeq(lines)
<1> HIDE DEF content
<1>1. CASE e = "x$"
  <2>1. Matches(e, lines) = (content # <<>> /\ Last(content) = Word)
    BY <1>1 DEF Matches, content
  <2>2. (content # <<>> /\ Last(content) = Word) \in BOOLEAN
    OBVIOUS
  <2> QED BY <2>1, <2>2, Zenon
<1>2. CASE e # "x$"
  <2>1. Matches(e, lines) = (e \in ToSet(content))
    BY <1>2 DEF Matches, content
  <2>2. (e \in ToSet(content)) \in BOOLEAN
    OBVIOUS
  <2> QED BY <2>1, <2>2, Zenon
<1> QED
  BY <1>1, <1>2

(* Displaying changes nothing else of a node, and nothing of a remark's. *)
LEMMA NodeDisplayed ==
    ASSUME NEW node \in NodeType, NEW display \in BOOLEAN
    PROVE  /\ WithDisplay(node, display) \in NodeType
           /\ WithDisplay(node, display).kind = node.kind
           /\ WithDisplay(node, display).lines = node.lines
           /\ node.kind = "info" => WithDisplay(node, display).shown = node.shown
           /\ node.kind # "info" => WithDisplay(node, display).shown = display
<1> HIDE DEF Tokens
<1>1. CASE node.kind = "info"
  BY <1>1 DEF WithDisplay
<1>2. CASE node.kind # "info"
  <2>1. WithDisplay(node, display) = [node EXCEPT !.shown = display]
    BY <1>2 DEF WithDisplay
  <2>2. [node EXCEPT !.shown = display] \in NodeType
    BY DEF NodeType
  <2>3. /\ [node EXCEPT !.shown = display].kind = node.kind
        /\ [node EXCEPT !.shown = display].lines = node.lines
        /\ [node EXCEPT !.shown = display].shown = display
    BY DEF NodeType
  <2> QED BY <1>2, <2>1, <2>2, <2>3
<1> QED
  BY <1>1, <1>2

(* A node that is displayed just if it matches is as it should be. *)
LEMMA NodeMatched ==
    ASSUME NEW wish, NEW node \in NodeType, ~Remark(node), node.lines # <<>>,
           wish = "" => node.shown,
           wish \notin {"", "("} => node.shown = Matches(wish, node.lines)
    PROVE  NodeRight(wish, node)
<1>1. node.lines \in Seq(Seq(Tokens \cup {"file rotated", "file not found", "lost"}))
  BY DEF NodeType
<1>2. /\ Len(node.lines) \in DOMAIN node.lines
      /\ SubSeq(node.lines, 1, Len(node.lines)) = node.lines
  <2> QED BY ONLY <1>1, node.lines # <<>>, WholePrefix
<1>3. node.kind # "info"
  BY DEF Remark
<1>4. wish \notin {"", "("} =>
          /\ Matches(wish, node.lines) => node.shown
          /\ node.shown => \E n \in DOMAIN node.lines :
                              Matches(wish, SubSeq(node.lines, 1, n))
  <2>1. SUFFICES ASSUME wish \notin {"", "("}
                 PROVE  /\ Matches(wish, node.lines) => node.shown
                        /\ node.shown => \E n \in DOMAIN node.lines :
                                            Matches(wish, SubSeq(node.lines, 1, n))
    OBVIOUS
  <2>2. node.shown = Matches(wish, node.lines)
    BY <2>1
  <2>3. Matches(wish, node.lines) => Matches(wish, SubSeq(node.lines, 1, Len(node.lines)))
    BY <1>2
  <2> QED BY <1>2, <2>2, <2>3, Zenon
<1> QED
  BY <1>3, <1>4, Zenon DEF NodeRight

(* What a right view is, and that it is right whatever is wished. *)
LEMMA ViewsFacts ==
    ASSUME NEW wish, NEW t \in Views(wish)
    PROVE  /\ t \in TailObject /\ t \in Views("(")
           /\ t.nodes \in Seq(NodeType) /\ Len(t.nodes) \in Nat
           /\ DOMAIN t.nodes = 1..Len(t.nodes)
           /\ \A i \in DOMAIN t.nodes :
                 t.nodes[i] \in NodeType /\ NodeRight(wish, t.nodes[i])
<1>1. t \in TailObject /\ \A i \in DOMAIN t.nodes : NodeRight(wish, t.nodes[i])
  BY DEF Views
<1>2. t.nodes \in Seq(NodeType)
  BY <1>1 DEF TailObject
<1>3. \A i \in DOMAIN t.nodes : NodeRight("(", t.nodes[i])
  BY <1>1 DEF NodeRight
<1>4. t \in Views("(")
  <2> HIDE DEF TailObject, NodeType
  <2> QED BY <1>1, <1>3 DEF Views
<1> HIDE DEF NodeType
<1> QED
  BY <1>1, <1>2, <1>4

(* What else a tail says does not matter to its view. *)
LEMMA SameView ==
    ASSUME NEW wish, NEW t \in Views(wish), NEW u \in TailObject, u.nodes = t.nodes,
           u.currentSection = t.currentSection, u.filterExpression = t.filterExpression
    PROVE  u \in Views(wish)
<1> HIDE DEF TailObject
<1> QED BY DEF Views

(* A tail with other nodes. *)
LEMMA NodesReplaced ==
    ASSUME NEW t \in TailObject, NEW nodes \in Seq(NodeType)
    PROVE  /\ [t EXCEPT !.nodes = nodes] \in TailObject
           /\ [t EXCEPT !.nodes = nodes].nodes = nodes
           /\ [t EXCEPT !.nodes = nodes].currentSection = t.currentSection
           /\ [t EXCEPT !.nodes = nodes].filterExpression = t.filterExpression
           /\ [t EXCEPT !.nodes = nodes].followMode = t.followMode
<1> HIDE DEF NodeType, Line, GrepTexts
<1> QED BY DEF TailObject

(* A tail with another expression. *)
LEMMA ExpressionReplaced ==
    ASSUME NEW t \in TailObject,
           NEW expression \in ({undefined} \cup GrepTexts) \ {"", "("}
    PROVE  /\ [t EXCEPT !.filterExpression = expression] \in TailObject
           /\ [t EXCEPT !.filterExpression = expression].nodes = t.nodes
           /\ [t EXCEPT !.filterExpression = expression].currentSection = t.currentSection
           /\ [t EXCEPT !.filterExpression = expression].filterExpression = expression
           /\ [t EXCEPT !.filterExpression = expression].followMode = t.followMode
<1> HIDE DEF NodeType, Line, GrepTexts
<1> QED BY DEF TailObject

(* Showing all is right for an empty field. *)
LEMMA AllShown ==
    ASSUME NEW t \in Views("("), t.filterExpression = undefined
    PROVE  /\ showAllTailEntries(t) \in Views("")
           /\ showAllTailEntries(t).followMode = t.followMode
<1> DEFINE nodes == [i \in DOMAIN t.nodes |-> WithDisplay(t.nodes[i], TRUE)]
<1>1. /\ t \in TailObject /\ t.nodes \in Seq(NodeType) /\ Len(t.nodes) \in Nat
      /\ DOMAIN t.nodes = 1..Len(t.nodes)
      /\ \A i \in DOMAIN t.nodes : t.nodes[i] \in NodeType /\ NodeRight("(", t.nodes[i])
  BY ViewsFacts
<1>2. \A i \in DOMAIN t.nodes :
          /\ nodes[i] \in NodeType /\ NodeRight("", nodes[i]) /\ nodes[i].kind = t.nodes[i].kind
  <2>1. SUFFICES ASSUME NEW i \in DOMAIN t.nodes
                 PROVE  /\ nodes[i] \in NodeType /\ NodeRight("", nodes[i])
                        /\ nodes[i].kind = t.nodes[i].kind
    OBVIOUS
  <2> DEFINE node == t.nodes[i]
             new == WithDisplay(node, TRUE)
  <2>2. node \in NodeType /\ NodeRight("(", node) /\ nodes[i] = new
    BY <1>1
  <2> HIDE DEF node
  <2>3. /\ new \in NodeType /\ new.kind = node.kind /\ new.lines = node.lines
        /\ node.kind = "info" => new.shown = node.shown
        /\ node.kind # "info" => new.shown = TRUE
    BY <2>2, NodeDisplayed, TRUE \in BOOLEAN, Zenon
  <2> HIDE DEF new
  <2>4. NodeRight("", new)
    BY <2>2, <2>3, Zenon DEF NodeRight, Remark
  <2> QED BY <2>2, <2>3, <2>4 DEF node
<1>3. nodes \in Seq(NodeType) /\ DOMAIN nodes = DOMAIN t.nodes
  <2>1. DOMAIN nodes = 1..Len(t.nodes)
    BY <1>1
  <2>2. \A i \in 1..Len(t.nodes) : nodes[i] \in NodeType
    BY <1>1, <1>2
  <2>3. nodes = [i \in 1..Len(t.nodes) |-> nodes[i]]
    BY <1>1
  <2>4. Len(t.nodes) \in Nat
    BY <1>1
  <2> HIDE DEF NodeType, nodes
  <2>5. nodes \in Seq(NodeType)
    BY ONLY <2>2, <2>3, <2>4, AsSequence
  <2> QED BY <1>1, <2>1, <2>5
<1> HIDE DEF nodes, NodeType
<1>4. /\ [t EXCEPT !.nodes = nodes] \in TailObject
      /\ [t EXCEPT !.nodes = nodes].nodes = nodes
      /\ [t EXCEPT !.nodes = nodes].currentSection = t.currentSection
      /\ [t EXCEPT !.nodes = nodes].filterExpression = undefined
      /\ [t EXCEPT !.nodes = nodes].followMode = t.followMode
  BY <1>1, <1>3, NodesReplaced
<1>5. showAllTailEntries(t) = [t EXCEPT !.nodes = nodes]
  BY DEF showAllTailEntries, nodes
<1>6. t.currentSection => \E i \in DOMAIN nodes : nodes[i].kind = "section"
  <2>1. t.currentSection => \E i \in DOMAIN t.nodes : t.nodes[i].kind = "section"
    BY DEF Views
  <2> QED BY <1>2, <1>3, <2>1
<1> HIDE DEF TailObject
<1> QED
  BY <1>2, <1>3, <1>4, <1>5, <1>6 DEF Views

(* Applying an expression makes every node right for it, whatever was right*)
(* before.                                                                 *)
LEMMA FilterApplied ==
    ASSUME NEW t \in Views("("), t.filterExpression # undefined
    PROVE  /\ applyFilterExpression(t) \in Views(t.filterExpression)
           /\ applyFilterExpression(t).followMode = t.followMode
<1> DEFINE e == t.filterExpression
           nodes == [i \in DOMAIN t.nodes |-> WithDisplay(t.nodes[i], Matches(e, t.nodes[i].lines))]
<1>1. /\ t \in TailObject /\ t.nodes \in Seq(NodeType) /\ Len(t.nodes) \in Nat
      /\ DOMAIN t.nodes = 1..Len(t.nodes)
      /\ \A i \in DOMAIN t.nodes : t.nodes[i] \in NodeType /\ NodeRight("(", t.nodes[i])
  BY ViewsFacts
<1>0. e \notin {"", "("} /\ e # undefined
  <2> HIDE DEF NodeType, Line, GrepTexts
  <2> QED BY <1>1 DEF TailObject
<1>2. ASSUME NEW i \in DOMAIN t.nodes
      PROVE  nodes[i] \in NodeType /\ NodeRight(e, nodes[i]) /\ nodes[i].kind = t.nodes[i].kind
  <2> DEFINE node == t.nodes[i]
             new == WithDisplay(node, Matches(e, node.lines))
  <2>1. node \in NodeType /\ NodeRight("(", node) /\ Matches(e, node.lines) \in BOOLEAN
    BY <1>1, MatchesBoolean
  <2>2. nodes[i] = new
    OBVIOUS
  <2> HIDE DEF node, e, nodes
  <2>3. /\ new \in NodeType /\ new.kind = node.kind /\ new.lines = node.lines
        /\ node.kind = "info" => new.shown = node.shown
        /\ node.kind # "info" => new.shown = Matches(e, node.lines)
    BY <2>1, NodeDisplayed
  <2> HIDE DEF new
  <2>4. ASSUME Remark(node) PROVE NodeRight(e, new)
    <3>1. Remark(new)
      BY <2>3, <2>4 DEF Remark
    <3>2. new.kind = "info" => new.shown
      BY <2>1, <2>3, Zenon DEF NodeRight
    <3>3. e # ""
      BY <1>0
    <3> QED BY <3>1, <3>2, <3>3, Zenon DEF NodeRight
  <2>5. ASSUME ~Remark(node) PROVE NodeRight(e, new)
    <3>1. ~Remark(new) /\ node.kind # "info"
      BY <2>3, <2>5 DEF Remark
    <3>2. new.lines # <<>>
      BY <2>1, <2>3, <2>5 DEF NodeRight
    <3>3. new.shown = Matches(e, new.lines)
      BY <2>3, <3>1
    <3>4. e # ""
      BY <1>0
    <3> QED BY <2>3, <3>1, <3>2, <3>3, <3>4, NodeMatched, Zenon
  <2>6. NodeRight(e, new)
    BY <2>4, <2>5
  <2> QED BY <2>2, <2>3, <2>6 DEF node
<1>3. nodes \in Seq(NodeType) /\ DOMAIN nodes = DOMAIN t.nodes
  <2>1. DOMAIN nodes = 1..Len(t.nodes)
    BY <1>1
  <2>2. \A i \in 1..Len(t.nodes) : nodes[i] \in NodeType
    BY <1>1, <1>2
  <2>3. nodes = [i \in 1..Len(t.nodes) |-> nodes[i]]
    BY <1>1
  <2>4. Len(t.nodes) \in Nat
    BY <1>1
  <2> HIDE DEF NodeType, nodes
  <2>5. nodes \in Seq(NodeType)
    BY ONLY <2>2, <2>3, <2>4, AsSequence
  <2> QED BY <1>1, <2>1, <2>5
<1> HIDE DEF nodes, NodeType
<1>4. /\ [t EXCEPT !.nodes = nodes] \in TailObject
      /\ [t EXCEPT !.nodes = nodes].nodes = nodes
      /\ [t EXCEPT !.nodes = nodes].currentSection = t.currentSection
      /\ [t EXCEPT !.nodes = nodes].filterExpression = e
      /\ [t EXCEPT !.nodes = nodes].followMode = t.followMode
  BY <1>1, <1>3, NodesReplaced
<1>5. applyFilterExpression(t) = [t EXCEPT !.nodes = nodes]
  BY DEF applyFilterExpression, nodes
<1>6. t.currentSection => \E i \in DOMAIN nodes : nodes[i].kind = "section"
  <2>1. t.currentSection => \E i \in DOMAIN t.nodes : t.nodes[i].kind = "section"
    BY DEF Views
  <2> QED BY <1>2, <1>3, <2>1
<1> HIDE DEF TailObject, e
<1>7. applyFilterExpression(t) \in Views(e) /\ applyFilterExpression(t).followMode = t.followMode
  BY <1>0, <1>2, <1>3, <1>4, <1>5, <1>6 DEF Views
<1> QED
  BY <1>7 DEF e

(* So does what follows from the text of the field, an invalid one         *)
(* included.                                                               *)
LEMMA FilterUpdated ==
    ASSUME NEW wish, NEW t \in Views(wish), NEW g \in GrepTexts
    PROVE  /\ updateFilterExpressionFromUserInput(t, g) \in Views(g)
           /\ updateFilterExpressionFromUserInput(t, g).followMode = t.followMode
<1>1. t \in TailObject /\ t \in Views("(")
  BY ViewsFacts
<1>2. ASSUME NEW e \in ({undefined} \cup GrepTexts) \ {"", "("}
      PROVE  LET u == [t EXCEPT !.filterExpression = e]
             IN  u \in Views("(") /\ u.filterExpression = e /\ u.followMode = t.followMode
  <2> DEFINE u == [t EXCEPT !.filterExpression = e]
  <2>1. /\ u \in TailObject /\ u.nodes = t.nodes /\ u.currentSection = t.currentSection
        /\ u.filterExpression = e /\ u.followMode = t.followMode
    BY <1>1, ExpressionReplaced
  <2> HIDE DEF u, TailObject
  <2>2. u \in Views("(")
    BY <1>1, <2>1 DEF Views
  <2> QED BY <2>1, <2>2 DEF u
<1>3. undefined \in ({undefined} \cup GrepTexts) \ {"", "("}
  BY DEF undefined
<1>4. CASE g = ""
  <2> DEFINE u == [t EXCEPT !.filterExpression = undefined]
  <2>1. u \in Views("(") /\ u.filterExpression = undefined /\ u.followMode = t.followMode
    BY <1>2, <1>3
  <2>2. updateFilterExpressionFromUserInput(t, g) = showAllTailEntries(u)
    BY <1>4 DEF updateFilterExpressionFromUserInput
  <2> HIDE DEF u
  <2> QED BY <1>4, <2>1, <2>2, AllShown
<1>5. CASE g = "("
  <2>1. updateFilterExpressionFromUserInput(t, g) = [t EXCEPT !.filterExpression = undefined]
    BY <1>5 DEF updateFilterExpressionFromUserInput
  <2> QED BY <1>2, <1>3, <1>5, <2>1
<1>6. CASE g \notin {"", "("}
  <2> DEFINE u == [t EXCEPT !.filterExpression = g]
  <2>1. u \in Views("(") /\ u.filterExpression = g /\ u.followMode = t.followMode
    BY <1>2, <1>6
  <2>2. updateFilterExpressionFromUserInput(t, g) = applyFilterExpression(u)
    BY <1>6 DEF updateFilterExpressionFromUserInput
  <2>3. g # undefined
    BY DEF GrepTexts, undefined, Word, Marker
  <2> HIDE DEF u
  <2> QED BY <2>1, <2>2, <2>3, FilterApplied
<1> QED
  BY <1>4, <1>5, <1>6
(* The index of the last section of a view is found if there is one. *)
LEMMA LastSection ==
    ASSUME NEW t \in TailObject, \E i \in DOMAIN t.nodes : t.nodes[i].kind = "section"
    PROVE  SectionIndex(t) \in DOMAIN t.nodes /\ t.nodes[SectionIndex(t)].kind = "section"
<1> DEFINE n == Len(t.nodes)
           I == {i \in 1..n : t.nodes[i].kind = "section"}
<1>1. n \in Nat /\ DOMAIN t.nodes = 1..n
  <2>1. t.nodes \in Seq(NodeType)
    BY DEF TailObject
  <2> HIDE DEF NodeType
  <2> QED BY <2>1
<1>2. I \in SUBSET (1..n) /\ I # {}
  BY <1>1
<1>3. SectionIndex(t) = Max(I)
  BY <1>2 DEF SectionIndex, SelectLastInSeq
<1>4. OverLines!Max(I) \in I
  BY <1>1, <1>2, OverLines!MaxExists
<1>5. Max(I) = OverLines!Max(I)
  BY DEF Max, OverLines!Max
<1> QED
  BY <1>1, <1>3, <1>4, <1>5

(* What addToTail adds is filtered, and is the last of the view. *)
LEMMA NodeAdded ==
    ASSUME NEW wish \in GrepTexts, NEW t \in Views(wish), NEW u \in TailObject,
           u.nodes = t.nodes, u.filterExpression = t.filterExpression,
           NEW node \in NodeType, ~Remark(node), node.lines # <<>>, node.shown = TRUE,
           u.currentSection => node.kind = "section"
    PROVE  addToTail(u, node) \in Views(wish) /\ addToTail(u, node).followMode = u.followMode
<1> DEFINE shown == u.filterExpression # undefined => Matches(u.filterExpression, node.lines)
           new == WithDisplay(node, shown)
           longer == Append(u.nodes, new)
           first == IF Len(longer) > u.scrollBackBuffer
                    THEN Len(longer) - u.scrollBackBuffer + 1 ELSE 1
           nodes == SubSeq(longer, first, Len(longer))
<1>1. /\ t \in TailObject /\ t.nodes \in Seq(NodeType) /\ Len(t.nodes) \in Nat
      /\ \A i \in 1..Len(t.nodes) : NodeRight(wish, t.nodes[i])
  BY ViewsFacts
<1>2. shown \in BOOLEAN
  <2>1. Matches(u.filterExpression, node.lines) \in BOOLEAN
    BY MatchesBoolean
  <2> QED BY <2>1, Zenon
<1>3. /\ wish = "" => shown
      /\ wish \notin {"", "("} => shown = Matches(wish, node.lines)
  <2>1. wish = "" => u.filterExpression = undefined
    BY DEF Views
  <2>2. wish \notin {"", "("} => u.filterExpression = wish /\ wish # undefined
    BY DEF Views, GrepTexts, undefined, Word, Marker
  <2>3. Matches(wish, node.lines) \in BOOLEAN
    BY MatchesBoolean
  <2>4. ASSUME wish \notin {"", "("} PROVE shown = Matches(wish, node.lines)
    <3>1. u.filterExpression = wish /\ wish # undefined
      BY <2>2, <2>4
    <3> QED BY <2>3, <3>1, Zenon
  <2> QED BY <2>1, <2>4, Zenon
<1> HIDE DEF shown
<1>4. /\ new \in NodeType /\ new.kind = node.kind /\ new.lines = node.lines
      /\ new.shown = shown
  <2>1. node.kind # "info"
    BY DEF Remark
  <2> QED BY <1>2, <2>1, NodeDisplayed
<1> HIDE DEF new
<1>5. NodeRight(wish, new)
  <2>1. /\ ~Remark(new) /\ new.lines # <<>>
        /\ wish = "" => new.shown
        /\ wish \notin {"", "("} => new.shown = Matches(wish, new.lines)
    BY <1>3, <1>4, Zenon DEF Remark
  <2> QED BY <1>4, <2>1, NodeMatched
<1>6. /\ longer \in Seq(NodeType) /\ Len(longer) = Len(t.nodes) + 1
      /\ longer[Len(longer)] = new
      /\ \A i \in 1..Len(t.nodes) : longer[i] = t.nodes[i]
  <2>1. u.nodes \in Seq(NodeType)
    BY <1>1
  <2> HIDE DEF NodeType
  <2> QED BY ONLY <1>4, <2>1, <1>1, u.nodes = t.nodes
<1>7. first \in 1..Len(longer)
  <2>1. u.scrollBackBuffer \in Nat \ {0}
    BY DEF TailObject
  <2> HIDE DEF longer
  <2> QED BY <1>1, <1>6, <2>1
<1> HIDE DEF longer, first
<1>8. /\ nodes \in Seq(NodeType) /\ Len(nodes) = Len(longer) - first + 1
      /\ DOMAIN nodes = 1..Len(nodes)
      /\ \A i \in 1..Len(nodes) : nodes[i] = longer[first + i - 1]
  <2> HIDE DEF NodeType
  <2>1. Len(longer) \in Nat
    BY <1>6
  <2> QED BY ONLY <1>6, <1>7, <2>1
<1> HIDE DEF nodes
<1>9. \A i \in DOMAIN nodes : NodeRight(wish, nodes[i])
  <2>1. SUFFICES ASSUME NEW i \in 1..Len(nodes) PROVE NodeRight(wish, nodes[i])
    BY <1>8
  <2>2. first + i - 1 \in 1..Len(longer) /\ nodes[i] = longer[first + i - 1]
    BY <1>1, <1>6, <1>7, <1>8
  <2>3. \A k \in 1..Len(longer) : NodeRight(wish, longer[k])
    BY <1>1, <1>5, <1>6
  <2> QED BY <2>2, <2>3
<1>10. u.currentSection => \E i \in DOMAIN nodes : nodes[i].kind = "section"
  <2>1. Len(nodes) \in DOMAIN nodes /\ nodes[Len(nodes)] = longer[Len(longer)]
    BY <1>1, <1>6, <1>7, <1>8
  <2> QED BY <1>4, <1>6, <2>1
<1>11. addToTail(u, node) = [u EXCEPT !.nodes = nodes]
  BY DEF addToTail, nodes, first, longer, new, shown
<1>12. /\ [u EXCEPT !.nodes = nodes] \in TailObject
       /\ [u EXCEPT !.nodes = nodes].nodes = nodes
       /\ [u EXCEPT !.nodes = nodes].currentSection = u.currentSection
       /\ [u EXCEPT !.nodes = nodes].filterExpression = u.filterExpression
       /\ [u EXCEPT !.nodes = nodes].followMode = u.followMode
  BY <1>8, NodesReplaced
<1>13. /\ wish = "" => u.filterExpression = undefined
       /\ wish \notin {"", "("} => u.filterExpression = wish
  BY DEF Views
<1> HIDE DEF TailObject
<1> QED
  BY <1>9, <1>10, <1>11, <1>12, <1>13 DEF Views

(* A node of the tail with other lines, displayed or not, *)
Extended(t, i, lines, shown) ==
    [t EXCEPT !.nodes[i].lines = lines, !.nodes[i].shown = shown]

(* ... and what that makes of the nodes. *)
WithExtended(t, i, lines, shown, nodes) ==
    nodes = [t.nodes EXCEPT ![i] = [t.nodes[i] EXCEPT !.lines = lines, !.shown = shown]]

(* Both ways to say it agree. *)
LEMMA ExtendedNodes ==
    ASSUME NEW t \in TailObject, NEW i \in DOMAIN t.nodes, NEW x, NEW y, NEW nodes,
           WithExtended(t, i, x, y, nodes)
    PROVE  Extended(t, i, x, y) = [t EXCEPT !.nodes = nodes]
<1> DEFINE a == [t.nodes[i] EXCEPT !.lines = x]
           m == [t.nodes EXCEPT ![i] = a]
           u == [t EXCEPT !.nodes = m]
           b == [m[i] EXCEPT !.shown = y]
           n == [m EXCEPT ![i] = b]
<1>1. [t EXCEPT !.nodes[i].lines = x] = u
  OBVIOUS
<1>2. [u EXCEPT !.nodes[i].shown = y] = [u EXCEPT !.nodes = [u.nodes EXCEPT ![i] = [u.nodes[i] EXCEPT !.shown = y]]]
  OBVIOUS
<1>3. u.nodes = m
  <2> HIDE DEF m, NodeType, Line, GrepTexts
  <2> QED BY DEF TailObject
<1>4. m[i] = a
  <2> HIDE DEF a, NodeType
  <2> QED OBVIOUS
<1>5. [u EXCEPT !.nodes = n] = [t EXCEPT !.nodes = n]
  <2> HIDE DEF n, m
  <2> QED OBVIOUS
<1>6. n = [t.nodes EXCEPT ![i] = b]
  <2> HIDE DEF a, b
  <2> QED OBVIOUS
<1>7. Extended(t, i, x, y) = [t EXCEPT !.nodes = n]
  <2>1. Extended(t, i, x, y) = [u EXCEPT !.nodes[i].shown = y]
    BY <1>1 DEF Extended
  <2> HIDE DEF u, m, a
  <2> QED BY <2>1, <1>2, <1>3, <1>4, <1>5 DEF u, b
<1>8. b = [t.nodes[i] EXCEPT !.lines = x, !.shown = y]
  BY <1>4
<1> QED
  <2> HIDE DEF n, b
  <2> QED BY <1>6, <1>7, <1>8 DEF WithExtended

(* A line that is added to a section leaves what is shown of it right. *)
LEMMA SectionExtended ==
    ASSUME NEW wish \in GrepTexts, NEW t \in Views(wish), t.currentSection,
           NEW line \in Line
    PROVE  addToSection(t, line) \in Views(wish) /\ addToSection(t, line).followMode = t.followMode
<1> DEFINE S == Seq(Tokens \cup {"file rotated", "file not found", "lost"})
           i == SectionIndex(t)
           old == t.nodes[i]
           lines == Append(old.lines, line)
           shown == \/ old.shown
                    \/ /\ t.filterExpression # undefined
                       /\ Matches(t.filterExpression, lines)
           new == [old EXCEPT !.lines = lines, !.shown = shown]
           nodes == [t.nodes EXCEPT ![i] = new]
<1>1. /\ t \in TailObject /\ t.nodes \in Seq(NodeType) /\ Len(t.nodes) \in Nat
      /\ DOMAIN t.nodes = 1..Len(t.nodes)
      /\ \A k \in 1..Len(t.nodes) : t.nodes[k] \in NodeType /\ NodeRight(wish, t.nodes[k])
  BY ViewsFacts
<1>2. i \in 1..Len(t.nodes) /\ old.kind = "section"
  <2>1. \E k \in DOMAIN t.nodes : t.nodes[k].kind = "section"
    BY DEF Views
  <2> QED BY <1>1, <2>1, LastSection
<1>3. old \in NodeType /\ NodeRight(wish, old)
  BY <1>1, <1>2
<1>4. old.lines \in Seq(S) /\ old.shown \in BOOLEAN
  BY <1>3 DEF NodeType
<1>5. line \in S
  <2> DEFINE A == Tokens \ {Newline}
             B == Tokens \cup {"file rotated", "file not found", "lost"}
  <2>1. A \subseteq B /\ line \in Seq(A)
    BY DEF Line
  <2> HIDE DEF A, B
  <2>2. line \in Seq(B)
    BY ONLY <2>1, WiderSeq
  <2> QED BY <2>2 DEF B
<1> HIDE DEF S, old
<1>6. /\ lines \in Seq(S) /\ lines # <<>> /\ Len(lines) = Len(old.lines) + 1
      /\ Len(old.lines) \in Nat
  BY <1>4, <1>5
<1>7. shown \in BOOLEAN
  <2>1. Matches(t.filterExpression, lines) \in BOOLEAN
    BY MatchesBoolean
  <2> QED BY <1>4, <2>1, Zenon
<1>8. addToSection(t, line) = [t EXCEPT !.nodes = nodes]
  <2>1. addToSection(t, line) = [t EXCEPT !.nodes[i].lines = lines, !.nodes[i].shown = shown]
    BY DEF addToSection, old
  <2>2. i \in DOMAIN t.nodes /\ t \in TailObject
    BY <1>1, <1>2
  <2>3. addToSection(t, line) = Extended(t, i, lines, shown)
    BY <2>1 DEF Extended
  <2>4. WithExtended(t, i, lines, shown, nodes)
    BY DEF old, WithExtended
  <2> HIDE DEF i, lines, shown, nodes
  <2> QED BY ONLY <2>2, <2>3, <2>4, ExtendedNodes
<1>9. /\ new \in NodeType /\ new.kind = "section" /\ new.lines = lines /\ new.shown = shown
  <2> HIDE DEF lines, shown, S
  <2> QED BY <1>2, <1>3, <1>6, <1>7 DEF NodeType, S
<1>10. NodeRight(wish, new)
  <2>1. ~Remark(old) /\ ~Remark(new) /\ new.kind # "info"
    BY <1>2, <1>9 DEF Remark
  <2>2. wish = "" => new.shown
    BY <1>3, <1>9, Zenon DEF NodeRight
  <2>3. ASSUME wish \notin {"", "("}
        PROVE  /\ Matches(wish, new.lines) => new.shown
               /\ new.shown => \E n \in DOMAIN new.lines :
                                  Matches(wish, SubSeq(new.lines, 1, n))
    <3>1. t.filterExpression = wish /\ wish # undefined
      BY <2>3 DEF Views, GrepTexts, undefined, Word, Marker
    <3>2. Matches(wish, lines) => shown
      BY <3>1, Zenon
    <3>3. ASSUME shown, ~Matches(wish, lines)
          PROVE  \E n \in DOMAIN lines : Matches(wish, SubSeq(lines, 1, n))
      <4>1. old.shown
        BY <3>1, <3>3, Zenon
      <4>2. PICK n \in DOMAIN old.lines : Matches(wish, SubSeq(old.lines, 1, n))
        BY <1>3, <2>1, <2>3, <4>1, Zenon DEF NodeRight
      <4>3. n \in DOMAIN lines /\ SubSeq(lines, 1, n) = SubSeq(old.lines, 1, n)
        BY ONLY <1>4, <1>5, <4>2, AppendPrefix DEF lines
      <4> QED BY <4>2, <4>3
    <3>4. Len(lines) \in DOMAIN lines /\ SubSeq(lines, 1, Len(lines)) = lines
      BY ONLY <1>6, WholePrefix
    <3> HIDE DEF lines, shown, new
    <3> QED BY <1>9, <3>2, <3>3, <3>4
  <2> HIDE DEF lines, shown, new, old
  <2> QED BY <2>1, <2>2, <2>3, <1>6, <1>9, Zenon DEF NodeRight
<1> HIDE DEF new
<1>11. /\ nodes \in Seq(NodeType) /\ DOMAIN nodes = DOMAIN t.nodes /\ nodes[i] = new
       /\ \A k \in DOMAIN t.nodes : k # i => nodes[k] = t.nodes[k]
  <2> HIDE DEF i, NodeType
  <2> QED BY ONLY <1>1, <1>2, <1>9, ExceptSeq
<1> HIDE DEF nodes, i
<1>12. \A k \in DOMAIN nodes : NodeRight(wish, nodes[k])
  BY <1>1, <1>10, <1>11
<1>13. \E k \in DOMAIN nodes : nodes[k].kind = "section"
  BY <1>1, <1>2, <1>9, <1>11
<1>14. /\ [t EXCEPT !.nodes = nodes] \in TailObject
       /\ [t EXCEPT !.nodes = nodes].nodes = nodes
       /\ [t EXCEPT !.nodes = nodes].currentSection = t.currentSection
       /\ [t EXCEPT !.nodes = nodes].filterExpression = t.filterExpression
       /\ [t EXCEPT !.nodes = nodes].followMode = t.followMode
  BY <1>1, <1>11, NodesReplaced
<1>15. /\ wish = "" => t.filterExpression = undefined
       /\ wish \notin {"", "("} => t.filterExpression = wish
  BY DEF Views
<1> HIDE DEF TailObject
<1> QED
  BY <1>8, <1>12, <1>13, <1>14, <1>15 DEF Views

(* A line is taken as what continues a section, begins one, or stands alone. *)
LEMMA LineAdded ==
    ASSUME NEW wish \in GrepTexts, NEW t \in Views(wish), NEW line \in Line
    PROVE  addLine(t, line) \in Views(wish) /\ addLine(t, line).followMode = t.followMode
<1> DEFINE S == Seq(Tokens \cup {"file rotated", "file not found", "lost"})
<1>1. t \in TailObject
  BY ViewsFacts
<1>2. line \in S
  <2> DEFINE A == Tokens \ {Newline}
             B == Tokens \cup {"file rotated", "file not found", "lost"}
  <2>1. A \subseteq B /\ line \in Seq(A)
    BY DEF Line
  <2> HIDE DEF A, B
  <2>2. line \in Seq(B)
    BY ONLY <2>1, WiderSeq
  <2> QED BY <2>2 DEF B
<1>3. \A kind \in {"section", "request", "line"} :
          LET node == Node(kind, <<line>>)
          IN  /\ node \in NodeType /\ ~Remark(node) /\ node.lines # <<>>
              /\ node.shown = TRUE /\ node.kind = kind
  <2>1. <<line>> \in Seq(S) /\ <<line>> # <<>>
    <3> HIDE DEF S
    <3> QED BY <1>2
  <2> HIDE DEF S
  <2> QED BY <2>1 DEF Node, NodeType, Remark, S
<1>4. ASSUME NEW u \in TailObject, NEW kind \in {"section", "request", "line"},
             u.nodes = t.nodes, u.filterExpression = t.filterExpression,
             u.followMode = t.followMode, u.currentSection => kind = "section"
      PROVE  LET added == addToTail(u, Node(kind, <<line>>))
             IN  added \in Views(wish) /\ added.followMode = t.followMode
  <2> DEFINE node == Node(kind, <<line>>)
  <2>1. /\ node \in NodeType /\ ~Remark(node) /\ node.lines # <<>>
        /\ node.shown = TRUE /\ node.kind = kind
    BY <1>3
  <2> HIDE DEF node
  <2>2. addToTail(u, node) \in Views(wish) /\ addToTail(u, node).followMode = u.followMode
    BY <1>4, <2>1, NodeAdded
  <2> QED BY <1>4, <2>2 DEF node
<1> DEFINE ended == [t EXCEPT !.currentSection = FALSE]
           errors == [t EXCEPT !.logType = ERROR_LOG, !.currentSection = TRUE]
           requests == [ended EXCEPT !.logType = REQUEST_LOG]
<1>5. \A u \in {ended, errors, requests} :
          /\ u \in TailObject /\ u.nodes = t.nodes
          /\ u.filterExpression = t.filterExpression /\ u.followMode = t.followMode
  <2> HIDE DEF NodeType, Line, GrepTexts
  <2> QED BY <1>1 DEF TailObject
<1>6. ~ended.currentSection /\ ~requests.currentSection
  <2> HIDE DEF NodeType, Line, GrepTexts
  <2> QED BY <1>1 DEF TailObject
<1> DEFINE extended == addToSection(t, line)
           section == addToTail(errors, Node("section", <<line>>))
           request == addToTail(requests, Node("request", <<line>>))
           other == addToTail(ended, Node("line", <<line>>))
<1>7. \/ t.currentSection /\ addLine(t, line) = extended
      \/ addLine(t, line) \in {section, request, other}
  BY DEF addLine
<1> HIDE DEF ended, errors, requests
<1>8. \A v \in {section, request, other} : v \in Views(wish) /\ v.followMode = t.followMode
  <2>1. section \in Views(wish) /\ section.followMode = t.followMode
    BY <1>4, <1>5
  <2>2. request \in Views(wish) /\ request.followMode = t.followMode
    BY <1>4, <1>5, <1>6
  <2>3. other \in Views(wish) /\ other.followMode = t.followMode
    BY <1>4, <1>5, <1>6
  <2> QED BY <2>1, <2>2, <2>3
<1>9. t.currentSection => extended \in Views(wish) /\ extended.followMode = t.followMode
  BY SectionExtended
<1> QED
  <2> HIDE DEF extended, section, request, other
  <2> QED BY <1>7, <1>8, <1>9

Remarks == {"file rotated", "file not found", "lost"}

(* A remark leaves what it is about. *)
LEMMA Informed ==
    ASSUME NEW wish, NEW t \in Views(wish),
           NEW text \in Remarks
    PROVE  info(t, text) \in Views(wish) /\ info(t, text).followMode = t.followMode
<1> DEFINE T == Tokens \cup {"file rotated", "file not found", "lost"}
           break == Node("br", <<>>)
           remark == Node("info", <<<<text>>>>)
           added == << break, remark, break, break >>
           nodes == t.nodes \o added
<1>1. /\ t \in TailObject /\ t.nodes \in Seq(NodeType) /\ Len(t.nodes) \in Nat
      /\ DOMAIN t.nodes = 1..Len(t.nodes)
      /\ \A i \in DOMAIN t.nodes : NodeRight(wish, t.nodes[i])
  BY ViewsFacts
<1>2. /\ break \in NodeType /\ remark \in NodeType
      /\ NodeRight(wish, break) /\ NodeRight(wish, remark)
  <2>1. <<text>> \in Seq(T)
    <3>1. text \in T
      BY DEF Remarks
    <3> HIDE DEF T
    <3> QED BY ONLY <3>1, Singleton
  <2>2. <<<<text>>>> \in Seq(Seq(T)) /\ <<>> \in Seq(Seq(T))
    <3> DEFINE line == <<text>>
    <3> HIDE DEF T, line
    <3>1. <<line>> \in Seq(Seq(T))
      BY ONLY <2>1, Singleton DEF line
    <3>2. <<>> \in Seq(Seq(T))
      BY ONLY TRUE
    <3> QED BY <3>1, <3>2 DEF line
  <2>3. /\ break = [kind |-> "br", lines |-> <<>>, shown |-> TRUE]
        /\ remark = [kind |-> "info", lines |-> <<<<text>>>>, shown |-> TRUE]
    BY DEF Node
  <2>4. break \in NodeType /\ remark \in NodeType
    <3> DEFINE lines == <<<<text>>>>
               L == Seq(Seq(T))
    <3>1. NodeType = [kind : {"section", "request", "line", "info", "br"},
                      lines : L, shown : BOOLEAN]
      BY DEF NodeType
    <3>2. lines \in L /\ <<>> \in L
      BY <2>2
    <3> HIDE DEF L, break, remark, lines
    <3>3. break = [kind |-> "br", lines |-> <<>>, shown |-> TRUE]
          /\ remark = [kind |-> "info", lines |-> lines, shown |-> TRUE]
      BY <2>3 DEF lines
    <3> QED BY ONLY <3>1, <3>2, <3>3
  <2>5. Remark(break) /\ Remark(remark) /\ break.shown /\ remark.shown
    <3> HIDE DEF break, remark
    <3> QED BY ONLY <2>3 DEF Remark
  <2> HIDE DEF break, remark
  <2> QED BY <2>4, <2>5, Zenon DEF NodeRight
<1> HIDE DEF NodeType, break, remark
<1>3. /\ added \in Seq(NodeType) /\ Len(added) = 4
      /\ \A i \in 1..4 : NodeRight(wish, added[i])
  <2>0. break \in NodeType /\ remark \in NodeType
    BY <1>2
  <2>1. /\ added \in Seq(NodeType) /\ Len(added) = 4
        /\ \A i \in 1..4 : added[i] \in {break, remark}
    BY ONLY <2>0
  <2> HIDE DEF added
  <2> QED BY <1>2, <2>1
<1> HIDE DEF added
<1>4. /\ nodes \in Seq(NodeType) /\ Len(nodes) = Len(t.nodes) + 4
      /\ DOMAIN nodes = 1..Len(nodes)
      /\ \A i \in 1..Len(nodes) :
            nodes[i] = IF i <= Len(t.nodes) THEN t.nodes[i] ELSE added[i - Len(t.nodes)]
  <2>1. nodes = t.nodes \o added
    OBVIOUS
  <2> HIDE DEF nodes
  <2>2. t.nodes \in Seq(NodeType) /\ added \in Seq(NodeType)
    BY <1>1, <1>3
  <2>3. /\ nodes \in Seq(NodeType) /\ Len(nodes) = Len(t.nodes) + Len(added)
        /\ DOMAIN nodes = 1..Len(nodes)
        /\ \A i \in 1..Len(nodes) :
              nodes[i] = IF i <= Len(t.nodes) THEN t.nodes[i] ELSE added[i - Len(t.nodes)]
    BY ONLY <2>1, <2>2, Concatenated
  <2> QED BY ONLY <1>3, <2>3
<1> HIDE DEF nodes
<1>5. \A i \in DOMAIN nodes : NodeRight(wish, nodes[i])
  <2>1. SUFFICES ASSUME NEW i \in 1..Len(nodes) PROVE NodeRight(wish, nodes[i])
    BY <1>4
  <2>2. CASE i <= Len(t.nodes)
    BY <1>1, <1>4, <2>2
  <2>3. CASE ~(i <= Len(t.nodes))
    <3>1. i - Len(t.nodes) \in 1..4 /\ nodes[i] = added[i - Len(t.nodes)]
      BY <1>1, <1>4, <2>3
    <3> QED BY <1>3, <3>1
  <2> QED BY <2>2, <2>3
<1>6. t.currentSection => \E i \in DOMAIN nodes : nodes[i].kind = "section"
  <2>1. SUFFICES ASSUME t.currentSection PROVE \E i \in DOMAIN nodes : nodes[i].kind = "section"
    OBVIOUS
  <2>2. PICK i \in DOMAIN t.nodes : t.nodes[i].kind = "section"
    BY <2>1 DEF Views
  <2>3. i \in DOMAIN nodes /\ nodes[i] = t.nodes[i]
    BY <1>1, <1>4
  <2> QED BY <2>2, <2>3
<1>7. info(t, text) = [t EXCEPT !.nodes = nodes]
  BY DEF info, nodes, added, break, remark
<1>8. /\ [t EXCEPT !.nodes = nodes] \in TailObject
      /\ [t EXCEPT !.nodes = nodes].nodes = nodes
      /\ [t EXCEPT !.nodes = nodes].currentSection = t.currentSection
      /\ [t EXCEPT !.nodes = nodes].filterExpression = t.filterExpression
      /\ [t EXCEPT !.nodes = nodes].followMode = t.followMode
  BY <1>1, <1>4, NodesReplaced
<1>9. /\ wish = "" => t.filterExpression = undefined
      /\ wish \notin {"", "("} => t.filterExpression = wish
  BY DEF Views
<1> HIDE DEF TailObject
<1> QED
  BY <1>5, <1>6, <1>7, <1>8, <1>9 DEF Views

(* Clearing leaves the filter, and nothing to be filtered. *)
LEMMA ClearedRight ==
    ASSUME NEW wish, NEW t \in Views(wish)
    PROVE  /\ Cleared(t) \in Views(wish) /\ Cleared(t).followMode = t.followMode
           /\ \A follow \in BOOLEAN : [Cleared(t) EXCEPT !.followMode = follow] \in Views(wish)
<1>1. t \in TailObject
  BY ViewsFacts
<1>2. /\ wish = "" => t.filterExpression = undefined
      /\ wish \notin {"", "("} => t.filterExpression = wish
  BY DEF Views
<1>3. ASSUME NEW u \in TailObject, u.nodes = <<>>, u.currentSection = FALSE,
             u.filterExpression = t.filterExpression
      PROVE  u \in Views(wish)
  <2>1. DOMAIN u.nodes = {}
    BY <1>3
  <2> HIDE DEF TailObject
  <2> QED BY <1>2, <1>3, <2>1 DEF Views
<1>4. <<>> \in Line /\ <<>> \in Seq(NodeType)
  BY DEF Line
<1>5. /\ Cleared(t) \in TailObject /\ Cleared(t).nodes = <<>>
      /\ Cleared(t).currentSection = FALSE /\ Cleared(t).followMode = t.followMode
      /\ Cleared(t).filterExpression = t.filterExpression
  <2> HIDE DEF NodeType, Line, GrepTexts
  <2> QED BY <1>1, <1>4 DEF TailObject, Cleared
<1> DEFINE c == Cleared(t)
<1> HIDE DEF c
<1>6. ASSUME NEW follow \in BOOLEAN
      PROVE  /\ [c EXCEPT !.followMode = follow] \in TailObject
             /\ [c EXCEPT !.followMode = follow].nodes = c.nodes
             /\ [c EXCEPT !.followMode = follow].currentSection = c.currentSection
             /\ [c EXCEPT !.followMode = follow].filterExpression = c.filterExpression
  <2>1. c \in TailObject
    BY <1>5 DEF c
  <2> HIDE DEF NodeType, Line, GrepTexts
  <2> QED BY <2>1 DEF TailObject
<1> QED
  BY <1>3, <1>5, <1>6 DEF c
(* A text has at least one line, and no newline in a line. *)
LEMMA TokenAdded ==
    ASSUME NEW lines \in Seq(Line), lines # <<>>, NEW token \in Tokens
    PROVE  withToken(lines, token) \in Seq(Line) /\ withToken(lines, token) # <<>>
<1>1. CASE token = Newline
  <2>1. withToken(lines, token) = Append(lines, <<>>) /\ <<>> \in Line
    BY <1>1 DEF withToken, Line
  <2> HIDE DEF Line
  <2> QED BY <2>1
<1>2. CASE token # Newline
  <2> DEFINE T == Tokens \ {Newline}
             n == Len(lines)
             last == Append(lines[n], token)
  <2>1. n \in Nat /\ n \in 1..Len(lines) /\ lines[n] \in Line
    <3> HIDE DEF Line
    <3> QED OBVIOUS
  <2>2. last \in Line
    <3>1. lines[n] \in Seq(T) /\ token \in T
      BY <1>2, <2>1 DEF Line
    <3> HIDE DEF T, n
    <3>2. last \in Seq(T)
      BY ONLY <3>1
    <3> QED BY <3>2 DEF T, Line
  <2>3. withToken(lines, token) = [lines EXCEPT ![n] = last]
    BY <1>2 DEF withToken
  <2> HIDE DEF n, last, Line
  <2>4. [lines EXCEPT ![n] = last] \in Seq(Line) /\ Len([lines EXCEPT ![n] = last]) = Len(lines)
    BY <2>1, <2>2, ExceptSeq
  <2> QED BY <2>1, <2>3, <2>4 DEF n
<1> QED
  BY <1>1, <1>2

(* A text has at least one line. *)
LEMMA LinesType ==
    ASSUME NEW text \in Seq(Tokens)
    PROVE  Lines(text) \in Seq(Line) /\ Lines(text) # <<>>
<1> DEFINE V == Seq(Line) \ {<<>>}
           base == << <<>> >>
<1>1. base \in V
  <2>1. <<>> \in Line
    BY DEF Line
  <2> HIDE DEF Line
  <2> QED BY <2>1
<1>2. \A v \in V, x \in Tokens : withToken(v, x) \in V
  <2> HIDE DEF Line, Tokens
  <2> QED BY TokenAdded
<1>3. Lines(text) = OverTokens!Fold(base, text)
  BY DEF Lines, FoldLeft, MapThenFoldSet, Max, OverTokens!Fold, OverTokens!FoldLeft,
         OverTokens!MapThenFoldSet, OverTokens!Max
<1> HIDE DEF V, base, Tokens
<1>4. OverTokens!Fold(base, text) \in V
  BY <1>1, <1>2, OverTokens!FoldInvariant
<1> QED
  BY <1>3, <1>4 DEF V

(* What a text adds to the view, line by line. *)
LEMMA Added ==
    ASSUME NEW wish \in GrepTexts, NEW t \in Views(wish), NEW text \in Seq(Tokens)
    PROVE  add(t, text) \in Views(wish) /\ add(t, text).followMode = t.followMode
<1> DEFINE lines == Lines(t.buffer \o text)
           V == {v \in Views(wish) : v.followMode = t.followMode}
           u == FoldLeft(addLine, t, Front(lines))
<1>1. lines \in Seq(Line) /\ lines # <<>>
  <2>0. t \in TailObject
    BY ViewsFacts
  <2>1. t.buffer \in Line
    BY <2>0 DEF TailObject
  <2>2. t.buffer \in Seq(Tokens)
    <3> DEFINE A == Tokens \ {Newline}
    <3>1. A \subseteq Tokens /\ t.buffer \in Seq(A)
      BY <2>1 DEF Line
    <3> HIDE DEF A, Tokens
    <3> QED BY ONLY <3>1, WiderSeq
  <2>3. t.buffer \o text \in Seq(Tokens)
    <3> HIDE DEF Tokens
    <3> QED BY ONLY <2>2, text \in Seq(Tokens)
  <2> QED BY <2>3, LinesType
<1> HIDE DEF lines
<1>2. Front(lines) \in Seq(Line) /\ Last(lines) \in Line
  <2> HIDE DEF Line
  <2> QED BY ONLY <1>1 DEF Front, Last
<1>3. \A v \in V, x \in Line : addLine(v, x) \in V
  BY LineAdded
<1>4. u = OverLines!Fold(t, Front(lines))
  BY DEF FoldLeft, MapThenFoldSet, Max, OverLines!Fold, OverLines!FoldLeft,
         OverLines!MapThenFoldSet, OverLines!Max
<1>5. t \in V
  OBVIOUS
<1> HIDE DEF V, u
<1>6. OverLines!Fold(t, Front(lines)) \in V
  BY <1>2, <1>3, <1>5, OverLines!FoldInvariant
<1>7. u \in Views(wish) /\ u.followMode = t.followMode
  BY <1>4, <1>6 DEF V
<1>8. add(t, text) = [u EXCEPT !.buffer = Last(lines)]
  BY DEF add, u, lines
<1>9. u \in TailObject
  BY <1>7, ViewsFacts
<1> DEFINE last == Last(lines)
<1>10. last \in Line
  BY <1>2
<1> HIDE DEF last
<1>11. /\ [u EXCEPT !.buffer = last] \in TailObject
       /\ [u EXCEPT !.buffer = last].nodes = u.nodes
       /\ [u EXCEPT !.buffer = last].currentSection = u.currentSection
       /\ [u EXCEPT !.buffer = last].filterExpression = u.filterExpression
       /\ [u EXCEPT !.buffer = last].followMode = u.followMode
  <2> HIDE DEF NodeType, Line, GrepTexts
  <2> QED BY <1>9, <1>10 DEF TailObject
<1>12. [u EXCEPT !.buffer = last] \in Views(wish)
  <2> HIDE DEF TailObject
  <2> QED BY <1>7, <1>11, SameView
<1> QED
  BY <1>7, <1>8, <1>11, <1>12 DEF last
-----------------------------------------------------------------------------
(* The page *)

(* A wish is a text of the field, or nothing. *)
LEMMA WishType == ASSUME PageInv PROVE Wish \in GrepTexts /\ Wish \in {grep, "("}
<1>1. "(" \in GrepTexts /\ grep \in GrepTexts
  BY DEF PageInv, GrepTexts
<1> QED
  BY <1>1, Zenon DEF Wish

(* A new page has nothing to filter. *)
LEMMA InitialRight ==
    ASSUME NEW size \in Nat \ {0} PROVE InitialTail(size) \in Views("(")
<1> DEFINE t == InitialTail(size)
<1>1. /\ t.nodes = <<>> /\ t.currentSection = FALSE /\ t.filterExpression = undefined
      /\ DOMAIN t.nodes = {}
  BY DEF InitialTail
<1>2. t \in TailObject
  <2>1. <<>> \in Line
    BY DEF Line
  <2>2. <<>> \in Seq(NodeType)
    <3> HIDE DEF NodeType
    <3> QED OBVIOUS
  <2>3. undefined \in ({undefined} \cup GrepTexts) \ {"", "("}
    BY DEF undefined
  <2> HIDE DEF NodeType, Line, GrepTexts
  <2> QED BY ONLY <2>1, <2>2, <2>3, size \in Nat \ {0} DEF InitialTail, TailObject
<1> HIDE DEF t, TailObject
<1>3. t \in Views("(")
  BY <1>1, <1>2 DEF Views
<1> QED
  BY <1>3 DEF t

(* A new page shows nothing that is not right. *)
LEMMA PageInit == ASSUME Init PROVE PageInv
<1>1. PICK s \in Scenarios : grep \in s.greps /\ amount \in s.amounts
  BY DEF Init
<1>2. grep \in GrepTexts /\ ScrollBack[amount] \in Nat \ {0}
  BY <1>1, LogViewerAssumption
<1>3. tail \in Views("(")
  BY <1>2, InitialRight DEF Init
<1>4. Wish = "("
  BY DEF Init, Wish
<1> QED
  BY <1>2, <1>3, <1>4 DEF PageInv, Init

(* A tail with another mode. *)
LEMMA FollowSet ==
    ASSUME NEW t \in TailObject, NEW follow \in BOOLEAN
    PROVE  /\ [t EXCEPT !.followMode = follow] \in TailObject
           /\ [t EXCEPT !.followMode = follow].nodes = t.nodes
           /\ [t EXCEPT !.followMode = follow].currentSection = t.currentSection
           /\ [t EXCEPT !.followMode = follow].filterExpression = t.filterExpression
           /\ [t EXCEPT !.followMode = follow].followMode = follow
<1> HIDE DEF NodeType, Line, GrepTexts
<1> QED BY DEF TailObject

(* A tail with another size. *)
LEMMA SizeSet ==
    ASSUME NEW t \in TailObject, NEW size \in Nat \ {0}
    PROVE  /\ [t EXCEPT !.scrollBackBuffer = size] \in TailObject
           /\ [t EXCEPT !.scrollBackBuffer = size].nodes = t.nodes
           /\ [t EXCEPT !.scrollBackBuffer = size].currentSection = t.currentSection
           /\ [t EXCEPT !.scrollBackBuffer = size].filterExpression = t.filterExpression
           /\ [t EXCEPT !.scrollBackBuffer = size].followMode = t.followMode
<1> HIDE DEF NodeType, Line, GrepTexts
<1> QED BY DEF TailObject

(* What a step of the page, or of another, does to what the page shows. *)
LEMMA PageNext ==
    ASSUME SystemInv, PageInv, [Next]_vars
    PROVE  /\ PageInv'
           /\ \/ tail'.followMode = tail.followMode
              \/ toggleFollowMode
              \/ logfileParametersChanged
<1> DEFINE Same == tail'.followMode = tail.followMode
<1>0. /\ tail \in Views(Wish) /\ tail \in TailObject /\ tail \in Views("(")
      /\ grep \in GrepTexts /\ timer \in BOOLEAN /\ controls \in {"pending", "bound", "never"}
      /\ Wish \in GrepTexts
  BY ViewsFacts, WishType DEF PageInv
<1>a. ASSUME UNCHANGED <<tail, grep, timer, controls>> PROVE PageInv' /\ Same
  <2>1. Wish' = Wish
    BY <1>a DEF Wish
  <2> QED BY <1>0, <1>a, <2>1 DEF PageInv
<1>b. ASSUME tail' \in Views(Wish), UNCHANGED <<grep, timer, controls>> PROVE PageInv'
  <2>1. Wish' = Wish
    BY <1>b DEF Wish
  <2> QED BY <1>0, <1>b, <2>1 DEF PageInv
<1>c. updateFilterExpressionFromUserInput(tail, grep) \in Views(grep)
      /\ updateFilterExpressionFromUserInput(tail, grep).followMode = tail.followMode
  BY <1>0, FilterUpdated
<1>1. CASE FirstOpen \/ GrepTimer
  <2>1. /\ tail' = updateFilterExpressionFromUserInput(tail, grep) /\ UNCHANGED grep
        /\ timer' \in BOOLEAN /\ controls' \in {"pending", "bound", "never"}
    BY <1>0, <1>1 DEF FirstOpen, GrepTimer
  <2>2. tail' \in Views(grep) /\ tail' \in Views("(") /\ Same
    BY <1>c, <2>1, ViewsFacts
  <2>3. Wish' = grep \/ Wish' = "("
    BY <2>1 DEF Wish
  <2> QED BY <1>0, <2>1, <2>2, <2>3 DEF PageInv
<1>2. CASE Open
  <2>1. tail' = Cleared(tail) /\ UNCHANGED <<grep, timer, controls>>
    BY <1>2 DEF Open
  <2>2. tail' \in Views(Wish) /\ Same
    BY <1>0, <2>1, ClearedRight
  <2> QED BY <1>b, <2>1, <2>2
<1>3. CASE Lose
  <2>1. /\ tail' = info(tail, "lost") /\ UNCHANGED <<grep, timer>>
        /\ controls' = IF controls = "pending" THEN "never" ELSE controls
    BY <1>3 DEF Lose
  <2>2. tail' \in Views(Wish) /\ Same
    BY <1>0, <2>1, Informed DEF Remarks
  <2>3. Wish' = Wish
    BY <2>1 DEF Wish
  <2> QED BY <1>0, <2>1, <2>2, <2>3 DEF PageInv
<1>4. CASE Receive
  <2> DEFINE message == Head(down[connection])
  <2>1. /\ down[connection] # <<>> /\ UNCHANGED <<grep, timer, controls>>
        /\ \/ message.type = "bytes" /\ tail' = add(tail, message.data)
           \/ message.type # "bytes" /\ tail' = info(tail, message.data[1])
    BY <1>4 DEF Receive
  <2>2. message \in Message
    <3>1. down[connection] \in Seq(Message)
      BY DEF SystemInv, ServerInv, ConnectionInv
    <3> HIDE DEF Message
    <3> QED BY <2>1, <3>1
  <2>3. CASE message.type = "bytes"
    <3>1. message.data \in Seq(Tokens)
      BY <2>2, <2>3 DEF Message
    <3>2. tail' = add(tail, message.data)
      BY <2>1, <2>3
    <3> HIDE DEF message
    <3>3. tail' \in Views(Wish) /\ Same
      BY <1>0, <3>1, <3>2, Added
    <3> QED BY <1>b, <2>1, <3>3
  <2>4. CASE message.type # "bytes"
    <3>1. message.data[1] \in Remarks
      <4> DEFINE data == message.data
      <4>1. data = <<"file rotated">> \/ data = <<"file not found">>
        BY <2>2, <2>4 DEF Message
      <4>2. <<"file rotated">>[1] = "file rotated" /\ <<"file not found">>[1] = "file not found"
        BY ONLY TRUE
      <4> HIDE DEF data
      <4>3. data[1] = "file rotated" \/ data[1] = "file not found"
        BY ONLY <4>1, <4>2, Zenon
      <4> QED BY ONLY <4>3 DEF data, Remarks
    <3>2. tail' = info(tail, message.data[1])
      BY <2>1, <2>4
    <3> DEFINE text == message.data[1]
    <3> HIDE DEF text
    <3>3. tail' \in Views(Wish) /\ Same
      BY <1>0, <3>1, <3>2, Informed DEF text
    <3> QED BY <1>b, <2>1, <3>3
  <2> QED BY <2>3, <2>4
<1>5. CASE toggleFollowMode
  <2>1. /\ UNCHANGED <<grep, timer, controls>>
        /\ \/ tail' = [tail EXCEPT !.followMode = FALSE]
           \/ tail' = [Cleared(tail) EXCEPT !.followMode = TRUE]
    BY <1>5 DEF toggleFollowMode
  <2>2. [tail EXCEPT !.followMode = FALSE] \in Views(Wish)
    BY <1>0, FollowSet, SameView
  <2>3. [Cleared(tail) EXCEPT !.followMode = TRUE] \in Views(Wish)
    BY <1>0, ClearedRight
  <2>4. tail' \in Views(Wish)
    BY <2>1, <2>2, <2>3
  <2> QED BY <1>5, <1>b, <2>1, <2>4
<1>6. CASE EditGrep
  <2>1. grep' \in GrepTexts /\ timer' = TRUE /\ UNCHANGED <<tail, controls>>
    BY <1>6 DEF EditGrep
  <2>2. Wish' = "("
    BY <2>1 DEF Wish
  <2> QED BY <1>0, <2>1, <2>2 DEF PageInv
<1>7. CASE ChangeAmount
  <2> DEFINE size == ScrollBack[amount']
  <2>1. /\ tail' = [tail EXCEPT !.scrollBackBuffer = size]
        /\ amount' \in Amounts /\ UNCHANGED <<grep, timer, controls>>
    BY <1>7 DEF ChangeAmount
  <2>2. size \in Nat \ {0}
    BY <2>1, LogViewerAssumption
  <2> HIDE DEF size
  <2>3. tail' \in Views(Wish) /\ Same
    BY <1>0, <2>1, <2>2, SizeSet, SameView
  <2> QED BY <1>b, <2>1, <2>3
<1>8. CASE logfileParametersChanged
  <2>1. /\ tail' = InitialTail(ScrollBack[amount]) /\ UNCHANGED grep
        /\ timer' = FALSE /\ controls' = "pending"
    BY <1>8 DEF logfileParametersChanged
  <2>2. ScrollBack[amount] \in Nat \ {0}
    BY LogViewerAssumption DEF SystemInv, ConnectionInv
  <2>3. tail' \in Views("(")
    BY <2>1, <2>2, InitialRight
  <2>4. Wish' = "("
    BY <2>1 DEF Wish
  <2> QED BY <1>0, <1>8, <2>1, <2>3, <2>4 DEF PageInv
<1>9. CASE Reconnect
  BY <1>9, <1>a DEF Reconnect
<1>10. CASE ReceiveCommand
  BY <1>10, <1>a DEF ReceiveCommand
<1>11. CASE \E c \in Connections : Server(c)
  BY <1>11, <1>a DEF Server, pageVars
<1>12. CASE Program \/ UNCHANGED vars
  BY <1>12, <1>a DEF Program, pageVars, vars
<1> QED
  BY <1>1, <1>2, <1>3, <1>4, <1>5, <1>6, <1>7, <1>8, <1>9, <1>10, <1>11, <1>12 DEF Next
-----------------------------------------------------------------------------
(* Who follows, and on whose demand *)

(* A wish to follow that is on its way is followed by a stop, ... *)
UpEnds ==
    \A i \in DOMAIN up :
        up[i].mode = FOLLOW => \E j \in DOMAIN up : j > i /\ up[j] = stopFollowing

(* ... and so is one that has arrived. *)
JobsEnd ==
    socket = "open" =>
        \A i \in DOMAIN jobs[connection] :
            jobs[connection][i].mode = FOLLOW /\ ~jobs[connection][i].stopped =>
                \E j \in DOMAIN up : up[j] = stopFollowing

(* DemandInv in these terms. *)
LEMMA DemandParts == DemandInv <=> (tail.followMode \/ (UpEnds /\ JobsEnd))
<1> QED BY DEF DemandInv, UpEnds, JobsEnd

(* A connection that is not open yet has asked for nothing. *)
LEMMA NothingAsked ==
    ASSUME up' = <<>>, socket' # "open" PROVE DemandInv'
<1>1. DOMAIN up' = {}
  BY ONLY up' = <<>>
<1> QED
  BY <1>1 DEF DemandInv

(* Who changes neither commands, Tails nor the mode, changes nothing here. *)
LEMMA DemandKept ==
    ASSUME DemandInv, UNCHANGED <<up, jobs, socket, connection>>,
           tail'.followMode = tail.followMode
    PROVE  DemandInv'
<1> QED BY DEF DemandInv, stopFollowing

(* What a connection asks for as it opens ends by itself. *)
LEMMA DemandOpened ==
    ASSUME SystemInv, JobsInv, socket = "connecting", UNCHANGED <<jobs, connection>>,
           up' = <<tailSelectedLogFile>> \/ up' = <<>>
    PROVE  DemandInv'
<1>1. jobs'[connection'] = <<>>
  BY DEF SystemInv, ConnectionInv, JobsInv
<1>2. DOMAIN jobs'[connection'] = {}
  BY ONLY <1>1
<1>3. \A i \in DOMAIN up' : up'[i].mode = TAIL
  <2>1. tailSelectedLogFile.mode = TAIL
    BY DEF tailSelectedLogFile
  <2>2. \A i \in DOMAIN <<tailSelectedLogFile>> :
            <<tailSelectedLogFile>>[i] = tailSelectedLogFile
    BY ONLY TRUE
  <2>3. DOMAIN <<>> = {}
    BY ONLY TRUE
  <2> QED BY <2>1, <2>2, <2>3
<1>4. TAIL # FOLLOW
  BY DEF TAIL, FOLLOW
<1> QED
  BY <1>2, <1>3, <1>4 DEF DemandInv

(* Turning follow mode off sends the stop. *)
LEMMA DemandToggled ==
    ASSUME SystemInv, PageInv, DemandInv, toggleFollowMode
    PROVE  DemandInv'
<1>0. up \in Seq(Command) /\ tail \in TailObject /\ (socket # "open" => up = <<>>)
      /\ Len(up) \in Nat /\ DOMAIN up = 1..Len(up)
  <2>1. up \in Seq(Command) /\ tail \in TailObject /\ (socket # "open" => up = <<>>)
    BY ViewsFacts DEF SystemInv, ConnectionInv, PageInv
  <2> HIDE DEF Command
  <2> QED BY <2>1
<1>1. CASE tail.followMode
  <2>1. up' = Sent(stopFollowing) /\ UNCHANGED <<socket, connection>>
    BY <1>1 DEF toggleFollowMode
  <2>2. CASE socket = "open"
    <3>1. up' = Append(up, stopFollowing)
      BY <2>1, <2>2 DEF Sent
    <3> DEFINE n == Len(up) + 1
    <3>2. n \in DOMAIN up' /\ up'[n] = stopFollowing /\ DOMAIN up' = 1..n
          /\ \A i \in 1..Len(up) : up'[i] = up[i]
      <4> HIDE DEF Command
      <4> QED BY <1>0, <3>1
    <3>3. stopFollowing.mode # FOLLOW
      BY DEF stopFollowing, FOLLOW
    <3>4. \A i \in DOMAIN up' : up'[i].mode = FOLLOW => i < n
      BY <1>0, <3>2, <3>3
    <3>5. stopFollowing' = stopFollowing
      BY DEF stopFollowing
    <3> HIDE DEF n
    <3> QED BY <3>2, <3>4, <3>5 DEF DemandInv
  <2>3. CASE socket # "open"
    BY <1>0, <2>1, <2>3, NothingAsked DEF Sent
  <2> QED BY <2>2, <2>3
<1>2. CASE ~tail.followMode
  <2>1. tail' = [Cleared(tail) EXCEPT !.followMode = TRUE]
    BY <1>2 DEF toggleFollowMode
  <2>2. Cleared(tail) \in TailObject
    BY ClearedRight, ViewsFacts DEF PageInv
  <2>3. tail'.followMode = TRUE
    BY <2>1, <2>2, FollowSet
  <2> QED BY <2>3 DEF DemandInv
<1> QED
  BY <1>1, <1>2

(* The server takes the next of the commands. *)
LEMMA DemandTaken ==
    ASSUME SystemInv, JobsInv, DemandInv, ReceiveCommand
    PROVE  DemandInv'
<1> DEFINE n == Len(files)
           q == jobs[connection]
           r == jobs'[connection]
           stopped == stopTail(q)
<1>1. /\ up # <<>> /\ socket = "open" /\ connection \in Connections
      /\ up \in Seq(Command) /\ up' = Tail(up)
      /\ UNCHANGED <<tail, socket, connection>>
  BY ReceivedCommand DEF SystemInv, ConnectionInv
<1>2. /\ Len(up) \in Nat /\ DOMAIN up = 1..Len(up) /\ DOMAIN up' = 1..(Len(up) - 1)
      /\ Head(up) = up[1] /\ 1 \in DOMAIN up
      /\ \A i \in 1..(Len(up) - 1) : up'[i] = up[i + 1]
  <2> HIDE DEF Command
  <2> QED BY <1>1
<1>3. CASE tail.followMode
  BY <1>1, <1>3 DEF DemandInv
<1>4. CASE ~tail.followMode
  <2>0. UpEnds /\ JobsEnd
    BY <1>4, DemandParts
  <2>1. ASSUME NEW j \in DOMAIN up, j > 1, up[j] = stopFollowing
        PROVE  \E k \in DOMAIN up' : up'[k] = stopFollowing
    <3>1. j - 1 \in DOMAIN up' /\ up'[j - 1] = up[j]
      BY <1>2, <2>1
    <3> QED BY <2>1, <3>1
  <2>2. UpEnds'
    <3>1. SUFFICES ASSUME NEW i \in DOMAIN up', up'[i].mode = FOLLOW
                   PROVE  \E k \in DOMAIN up' : k > i /\ up'[k] = stopFollowing
      BY DEF UpEnds, stopFollowing
    <3>2. i + 1 \in DOMAIN up /\ up[i + 1].mode = FOLLOW
      BY <1>2, <3>1
    <3>3. PICK j \in DOMAIN up : j > i + 1 /\ up[j] = stopFollowing
      BY <2>0, <3>2 DEF UpEnds
    <3>4. j - 1 \in DOMAIN up' /\ j - 1 > i /\ up'[j - 1] = up[j]
      BY <1>2, <3>3
    <3> QED BY <3>3, <3>4
  <2>3. /\ jobs \in [Connections -> Seq(Job(n))] /\ n \in Nat /\ q \in Seq(Job(n))
    BY <1>1 DEF SystemInv, ServerInv
  <2>4. /\ stopped \in Seq(Job(n)) /\ Len(stopped) = Len(q) /\ Len(q) \in Nat
        /\ DOMAIN stopped = 1..Len(q) /\ DOMAIN q = 1..Len(q)
        /\ \A i \in 1..Len(q) : stopped[i].stopped
    <3>1. Len(q) \in Nat /\ DOMAIN q = 1..Len(q)
      <4> HIDE DEF Job, q
      <4> QED BY <2>3
    <3>2. \A i \in 1..Len(q) : i # Len(q) => q[i].stopped
      BY <1>1, <3>1 DEF JobsInv
    <3> HIDE DEF Job, q
    <3>3. /\ stopped \in Seq(Job(n)) /\ Len(stopped) = Len(q)
          /\ \A i \in 1..Len(q) : stopped[i].stopped
      BY <2>3, <3>1, <3>2, StopTail DEF stopped
    <3> HIDE DEF stopped
    <3> QED BY <3>1, <3>3
  <2> HIDE DEF Job
  <2>5. ASSUME NEW i \in DOMAIN r, r[i].mode = FOLLOW, ~r[i].stopped
        PROVE  \E k \in DOMAIN up' : up'[k] = stopFollowing
    <3>1. CASE UNCHANGED jobs /\ up[1].mode # "stop"
      <4>1. PICK j \in DOMAIN up : up[j] = stopFollowing
        BY <1>1, <2>0, <2>5, <3>1 DEF JobsEnd
      <4>2. j # 1
        BY <3>1, <4>1 DEF stopFollowing
      <4>3. j > 1
        BY <1>2, <4>1, <4>2
      <4> QED BY <2>1, <4>1, <4>3
    <3>2. CASE jobs' = [jobs EXCEPT ![connection] = stopped]
      <4>1. r = stopped
        BY <1>1, <2>3, <3>2
      <4> HIDE DEF r, stopped
      <4> QED BY <2>4, <2>5, <4>1
    <3>3. ASSUME NEW job, job.mode = up[1].mode,
                 jobs' = [jobs EXCEPT ![connection] = Append(stopped, job)]
          PROVE  \E k \in DOMAIN up' : up'[k] = stopFollowing
      <4>1. r = Append(stopped, job)
        BY <1>1, <2>3, <3>3
      <4> HIDE DEF r, stopped, q
      <4>2. \/ i \in 1..Len(q) /\ r[i] = stopped[i]
            \/ r[i] = job
        BY <2>4, <2>5, <4>1
      <4>3. up[1].mode = FOLLOW
        BY <2>4, <2>5, <3>3, <4>2
      <4>4. PICK j \in DOMAIN up : j > 1 /\ up[j] = stopFollowing
        BY <1>2, <2>0, <4>3 DEF UpEnds
      <4> QED BY <2>1, <4>4
    <3>4. \/ UNCHANGED jobs /\ up[1].mode # "stop"
          \/ jobs' = [jobs EXCEPT ![connection] = stopped]
          \/ \E job \in Job(n) :
                /\ job.mode = up[1].mode
                /\ jobs' = [jobs EXCEPT ![connection] = Append(stopped, job)]
      BY <1>2, ReceivedCommand
    <3> QED BY <3>1, <3>2, <3>3, <3>4
  <2>6. JobsEnd'
    <3>1. r = jobs'[connection'] /\ stopFollowing' = stopFollowing
      BY <1>1 DEF stopFollowing
    <3> HIDE DEF r
    <3> QED BY <2>5, <3>1 DEF JobsEnd
  <2> QED BY <2>2, <2>6 DEF DemandInv, UpEnds, JobsEnd
<1> QED
  BY <1>3, <1>4

(* A step of the server takes Tails away and adds none. *)
LEMMA DemandServed ==
    ASSUME SystemInv, JobsInv, DemandInv, NEW c \in Connections, Server(c)
    PROVE  DemandInv'
<1>0. UNCHANGED <<tail, up, socket, connection>>
  BY DEF Server, pageVars
<1>1. CASE Step(c)
  <2>1. jobs[c] # <<>> /\ Took(c) /\ ServerInv
    BY <1>1, StepFrame DEF SystemInv
  <2>2. /\ jobs' \in [Connections -> Seq(Job(Len(files)))]
        /\ \A d \in Connections \ {c} : jobs'[d] = jobs[d]
    BY <2>1, TookJobs
  <2>3. PICK gone \in Nat :
            /\ Len(jobs[c]) = Len(jobs'[c]) + gone
            /\ \A i \in DOMAIN jobs'[c] :
                  /\ jobs'[c][i].mode = jobs[c][i + gone].mode
                  /\ jobs'[c][i].stopped = jobs[c][i + gone].stopped
    BY <2>1, TookJobs
  <2>4. connection \in Connections
    BY DEF SystemInv, ConnectionInv
  <2>5. CASE c # connection
    <3>1. jobs'[connection] = jobs[connection]
      BY <2>2, <2>4, <2>5
    <3> QED BY <1>0, <3>1 DEF DemandInv, stopFollowing
  <2>6. CASE c = connection
    <3>1. /\ Len(jobs'[c]) \in Nat /\ DOMAIN jobs'[c] = 1..Len(jobs'[c])
          /\ Len(jobs[c]) \in Nat /\ DOMAIN jobs[c] = 1..Len(jobs[c])
      <4>1. jobs[c] \in Seq(Job(Len(files))) /\ jobs'[c] \in Seq(Job(Len(files)))
        BY <2>1, <2>2 DEF ServerInv
      <4> HIDE DEF Job
      <4> QED BY <4>1
    <3>2. \A i \in DOMAIN jobs'[c] : i + gone \in DOMAIN jobs[c]
      BY <2>3, <3>1
    <3>3. UNCHANGED stopFollowing
      BY DEF stopFollowing
    <3>4. CASE tail.followMode
      BY <1>0, <3>4 DEF DemandInv
    <3>5. CASE ~tail.followMode
      <4>1. UpEnds /\ JobsEnd
        BY <3>5, DemandParts
      <4>2. JobsEnd'
        <5>1. SUFFICES ASSUME socket = "open", NEW i \in DOMAIN jobs'[c],
                              jobs'[c][i].mode = FOLLOW, ~jobs'[c][i].stopped
                       PROVE  \E j \in DOMAIN up : up[j] = stopFollowing
          BY <1>0, <2>6, <3>3 DEF JobsEnd
        <5>2. /\ i + gone \in DOMAIN jobs[connection]
              /\ jobs[connection][i + gone].mode = FOLLOW
              /\ ~jobs[connection][i + gone].stopped
          BY <2>3, <2>6, <3>2, <5>1
        <5> QED BY <4>1, <5>1, <5>2 DEF JobsEnd
      <4>3. UpEnds'
        BY <1>0, <3>3, <4>1 DEF UpEnds
      <4> QED BY <4>2, <4>3 DEF DemandInv, UpEnds, JobsEnd
    <3> QED BY <3>4, <3>5
  <2> QED BY <2>5, <2>6
<1>2. CASE onWebSocketClose(c)
  <2>1. c \in lost /\ connection \in Connections /\ (socket = "open" => connection \notin lost)
        /\ jobs' = [jobs EXCEPT ![c] = SubSeq(stopTail(jobs[c]), 1,
                                              IF jobs[c] = <<>> THEN 0 ELSE 1)]
        /\ jobs \in [Connections -> Seq(Job(Len(files)))]
    BY <1>2 DEF onWebSocketClose, SystemInv, ServerInv, ConnectionInv
  <2>2. socket = "open" => jobs'[connection] = jobs[connection]
    <3> HIDE DEF Job
    <3> QED BY <2>1
  <2> QED BY <1>0, <2>2 DEF DemandInv, stopFollowing
<1> QED
  BY <1>1, <1>2 DEF Server

(* Every step keeps who follows from following without demand. *)
LEMMA DemandNext ==
    ASSUME SystemInv, PageInv, JobsInv, DemandInv, [Next]_vars
    PROVE  DemandInv'
<1>0. \/ tail'.followMode = tail.followMode
      \/ toggleFollowMode
      \/ logfileParametersChanged
  BY PageNext
<1>1. CASE FirstOpen \/ Open
  <2>1. /\ socket = "connecting" /\ UNCHANGED <<jobs, connection>>
        /\ up' = <<tailSelectedLogFile>> \/ up' = <<>>
    BY <1>1 DEF FirstOpen, Open, QueryCommand, serverVars
  <2> QED BY <2>1, DemandOpened
<1>2. CASE Lose \/ logfileParametersChanged \/ Reconnect
  <2>1. up' = <<>> /\ socket' # "open"
    BY <1>2 DEF Lose, logfileParametersChanged, Reconnect, Unload, SystemInv, ConnectionInv
  <2> QED BY <2>1, NothingAsked
<1>3. CASE toggleFollowMode
  BY <1>3, DemandToggled
<1>4. CASE Receive \/ EditGrep \/ GrepTimer \/ ChangeAmount \/ Program \/ UNCHANGED vars
  <2>1. UNCHANGED <<up, jobs, socket, connection>>
    BY <1>4 DEF Receive, EditGrep, GrepTimer, ChangeAmount, Program, Write, RotateAway, Create,
                vars, serverVars, pageVars
  <2>2. CASE toggleFollowMode
    BY <2>2, DemandToggled
  <2>3. CASE logfileParametersChanged
    <3>1. socket' # "open" /\ up' = <<>>
      BY <2>3 DEF logfileParametersChanged, Unload
    <3> QED BY <3>1, NothingAsked
  <2>4. CASE tail'.followMode = tail.followMode
    BY <2>1, <2>4, DemandKept
  <2> QED BY <1>0, <2>2, <2>3, <2>4
<1>5. CASE ReceiveCommand
  BY <1>5, DemandTaken
<1>6. ASSUME NEW c \in Connections, Server(c) PROVE DemandInv'
  BY <1>6, DemandServed
<1> QED
  BY <1>1, <1>2, <1>3, <1>4, <1>5, <1>6 DEF Next
-----------------------------------------------------------------------------
(* What holds of the log viewer *)

(* Type, demand and view together. *)
ViewerInv == FollowInv /\ PageInv

(* It holds when the page is opened, *)
LEMMA ViewerInit == ASSUME Init PROVE ViewerInv
<1>1. /\ jobs = [c \in Connections |-> <<>>] /\ closed = {} /\ up = <<>>
      /\ socket = "connecting"
  BY DEF Init
<1>2. JobsInv
  <2>1. \A c \in Connections : jobs[c] = <<>>
    BY <1>1
  <2>2. DOMAIN <<>> = {} /\ 1..(Len(<<>>) - 1) = {}
    BY ONLY TRUE
  <2> QED BY <1>1, <2>1, <2>2 DEF JobsInv
<1>3. DemandInv
  <2>1. DOMAIN up = {}
    BY ONLY <1>1
  <2> QED BY <1>1, <2>1 DEF DemandInv
<1> QED
  BY <1>2, <1>3, SystemInit, PageInit DEF ViewerInv, FollowInv

(* ... and every step keeps it. *)
LEMMA ViewerNext ==
    ASSUME ViewerInv, [Next]_vars PROVE ViewerInv'
<1>1. SystemInv /\ JobsInv /\ DemandInv /\ PageInv
  BY DEF ViewerInv, FollowInv
<1>2. SystemInv'
  BY <1>1, ServerNext, ConnectionNext DEF SystemInv
<1>3. JobsInv' /\ DemandInv' /\ PageInv'
  BY <1>1, JobsNext, DemandNext, PageNext
<1> QED
  BY <1>2, <1>3 DEF ViewerInv, FollowInv

(* Server, connections and page are what they should be in every state,    *)
(* whatever is written, rotated, lost, typed and clicked, in any order     *)
(* (script.js 98-569; TailSocket.java 59-132; Tail.java 82-150).           *)
THEOREM ViewerInvariance == Spec => []ViewerInv
<1>1. Init => ViewerInv
  BY ViewerInit
<1>2. ViewerInv /\ [Next]_vars => ViewerInv'
  BY ViewerNext
<1> QED
  BY <1>1, <1>2, PTL DEF Spec

(* Each variable of the log viewer has its type, whatever the log file     *)
(* contains and however often it is rotated, the connection lost and the   *)
(* page used (script.js, TailSocket.java, Tail.java).                      *)
THEOREM TypeCorrect == Spec => []TypeOK
<1>1. ViewerInv => TypeOK
  <2> SUFFICES ASSUME ViewerInv PROVE TypeOK
    OBVIOUS
  <2>1. ServerInv /\ ConnectionInv /\ PageInv
    BY DEF ViewerInv, FollowInv, SystemInv
  <2>2. /\ files \in Seq(Seq(Tokens)) /\ exists \in BOOLEAN
        /\ closed \subseteq lost /\ lost \subseteq 1..connection
        /\ socket \in {"connecting", "open", "lost"} /\ connection \in Connections
        /\ amount \in Amounts /\ up \in Seq(Command)
        /\ grep \in GrepTexts /\ timer \in BOOLEAN
        /\ controls \in {"pending", "bound", "never"}
    BY <2>1 DEF ServerInv, ConnectionInv, PageInv
  <2>3. jobs \in [Connections -> Seq([
            mode : {TAIL, FOLLOW}, bytesToTail : Amounts, stopped : BOOLEAN,
            pc : {"open", "locate", "check", "exists", "length", "read"},
            channel : 0..Len(files), position : Nat, totalBytesRead : Nat])]
    <3> DEFINE J == [mode : {TAIL, FOLLOW}, bytesToTail : Amounts, stopped : BOOLEAN,
                     pc : {"open", "locate", "check", "exists", "length", "read"},
                     channel : 0..Len(files), position : Nat, totalBytesRead : Nat]
    <3>1. Job(Len(files)) \subseteq J
      BY DEF Job
    <3>2. jobs \in [Connections -> Seq(Job(Len(files)))]
      BY <2>1 DEF ServerInv
    <3> HIDE DEF J, Job
    <3>3. Seq(Job(Len(files))) \subseteq Seq(J)
      BY <3>1, WiderSeq
    <3>4. jobs \in [Connections -> Seq(J)]
      BY <3>2, <3>3
    <3> QED BY <3>4 DEF J
  <2>4. tail \in TailObject /\ tail \in Views(Wish)
    BY <2>1, ViewsFacts DEF PageInv
  <2>5. /\ tail.filterExpression \in ({undefined} \cup GrepTexts) \ {"", "("}
        /\ tail.logType \in {undefined, ERROR_LOG, REQUEST_LOG}
        /\ tail.buffer \in Seq(Tokens \ {Newline}) /\ tail.nodes \in Seq(NodeType)
    BY <2>4 DEF TailObject, Line
  <2>6. tail.currentSection => SectionIndex(tail) # 0
    <3>1. tail.currentSection => SectionIndex(tail) \in DOMAIN tail.nodes
      BY <2>4, LastSection DEF Views
    <3>2. 0 \notin DOMAIN tail.nodes
      <4>1. DOMAIN tail.nodes = 1..Len(tail.nodes)
        BY <2>4, ViewsFacts
      <4> QED BY <4>1
    <3> QED BY <3>1, <3>2
  <2> QED BY <2>2, <2>3, <2>5, <2>6 DEF TypeOK
<1> QED
  BY <1>1, ViewerInvariance, PTL

(* Whatever is written, lost and made again, a Tail follows a file only    *)
(* for a page in follow mode, or until the stop, or the end of the         *)
(* connection, gets to it (script.js 346-356; TailSocket.java 58-62).      *)
THEOREM FollowsOnDemand == Spec => []FollowOnlyOnDemand
<1>1. ViewerInv => FollowOnlyOnDemand
  <2> SUFFICES ASSUME ViewerInv, NEW c \in Connections, NEW i \in DOMAIN jobs[c],
                      jobs[c][i].mode = FOLLOW, ~jobs[c][i].stopped
               PROVE  \/ c \in lost \ closed
                      \/ c = connection /\ socket = "open"
                         /\ (tail.followMode \/ stopFollowing \in ToSet(up))
    BY DEF FollowOnlyOnDemand
  <2>1. SystemInv /\ ConnectionInv /\ JobsInv /\ DemandInv
    BY DEF ViewerInv, FollowInv, SystemInv
  <2>2. c \notin closed
    BY <2>1 DEF JobsInv
  <2>3. ASSUME c \notin lost
        PROVE  c = connection /\ socket = "open"
               /\ (tail.followMode \/ stopFollowing \in ToSet(up))
    <3>1. jobs[c] # <<>>
      <4>1. DOMAIN <<>> = {}
        BY ONLY TRUE
      <4> QED BY <4>1
    <3>2. ~(c > connection) /\ ~(c = connection /\ socket = "connecting")
      BY <2>1, <3>1 DEF JobsInv
    <3>3. c \in Nat /\ c > 0 /\ connection \in Nat /\ 1..(connection - 1) \subseteq lost
      BY <2>1, Numbered DEF ConnectionInv
    <3>4. c = connection
      BY <2>3, <3>2, <3>3
    <3>5. socket = "open"
      BY <2>1, <2>3, <3>2, <3>4 DEF ConnectionInv
    <3>6. tail.followMode \/ \E j \in DOMAIN up : up[j] = stopFollowing
      BY <2>1, <3>4, <3>5 DEF DemandInv
    <3> QED BY <3>4, <3>5, <3>6 DEF ToSet
  <2> QED BY <2>2, <2>3
<1> QED
  BY <1>1, ViewerInvariance, PTL

(* Whatever comes, goes and is added to while the filter changes: once its *)
(* field has been at rest, no node that matches is hidden, and what is     *)
(* shown matches, or did before lines were added to it                     *)
(* (script.js 191-197, 287-332).                                           *)
THEOREM FilterRight == Spec => []FilterRespected
<1>1. ViewerInv => FilterRespected
  <2> SUFFICES ASSUME ViewerInv, controls = "bound", ~timer, NEW i \in DOMAIN tail.nodes
               PROVE  LET node == tail.nodes[i]
                      IN  /\ grep = "" => node.shown
                          /\ grep \notin {"", "("} /\ node.kind \notin {"info", "br"} =>
                                /\ Matches(grep, node.lines) => node.shown
                                /\ node.shown => \E n \in DOMAIN node.lines :
                                      Matches(grep, SubSeq(node.lines, 1, n))
    BY DEF FilterRespected
  <2>1. tail \in Views(Wish) /\ Wish = grep
    BY DEF ViewerInv, PageInv, Wish
  <2>2. NodeRight(grep, tail.nodes[i])
    BY <2>1, ViewsFacts
  <2> DEFINE node == tail.nodes[i]
  <2> HIDE DEF node
  <2>3. NodeRight(grep, node)
    BY <2>2 DEF node
  <2>4. /\ grep = "" => node.shown
        /\ grep \notin {"", "("} /\ node.kind \notin {"info", "br"} =>
              /\ Matches(grep, node.lines) => node.shown
              /\ node.shown => \E n \in DOMAIN node.lines :
                    Matches(grep, SubSeq(node.lines, 1, n))
    BY <2>3, Zenon DEF NodeRight, Remark
  <2> QED BY <2>4 DEF node
<1> QED
  BY <1>1, ViewerInvariance, PTL

-----------------------------------------------------------------------------
(* Lines, however their text is cut *)

(* The last of two sequences of lines takes the token. *)
LEMMA TokenAfter ==
    ASSUME NEW P \in Seq(Line), NEW Q \in Seq(Line), Q # <<>>, NEW x \in Tokens
    PROVE  withToken(P \o Q, x) = P \o withToken(Q, x)
<1>1. /\ Len(P) \in Nat /\ Len(Q) \in Nat /\ Len(Q) >= 1
      /\ P \o Q \in Seq(Line) /\ Len(P \o Q) = Len(P) + Len(Q)
      /\ \A i \in 1..Len(P) : (P \o Q)[i] = P[i]
      /\ \A i \in 1..Len(Q) : (P \o Q)[Len(P) + i] = Q[i]
  <2> HIDE DEF Line
  <2> QED OBVIOUS
<1>2. CASE x = Newline
  <2>1. <<>> \in Line
    BY DEF Line
  <2> HIDE DEF Line
  <2>2. P \o Append(Q, <<>>) = Append(P \o Q, <<>>)
    BY ONLY <2>1, P \in Seq(Line), Q \in Seq(Line), OverLines!ConcatAppend
  <2> QED BY <1>2, <2>2 DEF withToken
<1>3. CASE x # Newline
  <2> DEFINE n == Len(Q)
             m == Len(P \o Q)
             y == Append(Q[n], x)
             R == [Q EXCEPT ![n] = y]
             M == [P \o Q EXCEPT ![m] = y]
  <2>1. m = Len(P) + n /\ n \in 1..Len(Q) /\ (P \o Q)[m] = Q[n] /\ Q[n] \in Line
    <3> HIDE DEF Line
    <3> QED BY <1>1
  <2>2. withToken(Q, x) = R /\ withToken(P \o Q, x) = M
    BY <1>3, <2>1 DEF withToken
  <2>3. y \in Line
    <3>1. withToken(Q, x) \in Seq(Line)
      BY TokenAdded
    <3>2. R[n] = y /\ Len(R) = Len(Q)
      <4> HIDE DEF y, n
      <4> QED BY <2>1
    <3> HIDE DEF Line, y, R, n
    <3> QED BY <2>1, <2>2, <3>1, <3>2
  <2> HIDE DEF y, Line
  <2>4. /\ R \in Seq(Line) /\ Len(R) = Len(Q) /\ R[n] = y
        /\ \A i \in 1..Len(Q) : i # n => R[i] = Q[i]
    BY <2>1, <2>3
  <2>5. M \in Seq(Line) /\ Len(M) = m /\ M[m] = y /\ \A i \in 1..m : i # m => M[i] = (P \o Q)[i]
    <3> DEFINE W == P \o Q
    <3>1. W \in Seq(Line) /\ m = Len(W) /\ m \in 1..Len(W)
      BY <1>1, <2>1
    <3> HIDE DEF W
    <3>2. /\ [W EXCEPT ![m] = y] \in Seq(Line) /\ Len([W EXCEPT ![m] = y]) = Len(W)
          /\ [W EXCEPT ![m] = y][m] = y
          /\ \A i \in 1..Len(W) : i # m => [W EXCEPT ![m] = y][i] = W[i]
      <4> HIDE DEF m
      <4> QED BY ONLY <2>3, <3>1
    <3> QED BY <3>1, <3>2 DEF W
  <2>6. /\ P \o R \in Seq(Line) /\ Len(P \o R) = Len(P) + Len(R)
        /\ \A i \in 1..Len(P) : (P \o R)[i] = P[i]
        /\ \A i \in 1..Len(R) : (P \o R)[Len(P) + i] = R[i]
    <3> HIDE DEF R
    <3> QED BY <2>4
  <2> HIDE DEF R, M, m, n
  <2>7. ASSUME NEW i \in 1..m PROVE M[i] = (P \o R)[i]
    <3>1. CASE i \in 1..Len(P)
      BY <1>1, <2>1, <2>5, <2>6, <3>1
    <3>2. CASE i \notin 1..Len(P)
      <4>1. i - Len(P) \in 1..Len(Q) /\ i = Len(P) + (i - Len(P))
        BY <1>1, <2>1, <3>2 DEF m
      <4>2. (P \o R)[i] = R[i - Len(P)] /\ (P \o Q)[i] = Q[i - Len(P)]
        BY <1>1, <2>4, <2>6, <4>1
      <4>3. CASE i = m
        BY <2>1, <2>4, <2>5, <4>2, <4>3, <1>1
      <4>4. CASE i # m
        <5>1. i - Len(P) # n
          BY <1>1, <2>1, <4>4
        <5> QED BY <2>4, <2>5, <4>1, <4>2, <4>4, <5>1
      <4> QED BY <4>3, <4>4
    <3> QED BY <3>1, <3>2
  <2>8. M = P \o R
    <3> DEFINE N == P \o R
    <3>1. N \in Seq(Line) /\ Len(N) = Len(M) /\ Len(M) = m /\ M \in Seq(Line)
          /\ \A i \in 1..m : M[i] = N[i]
      BY <1>1, <2>1, <2>4, <2>5, <2>6, <2>7 DEF m, n
    <3> HIDE DEF N
    <3>2. M = N
      BY ONLY <3>1
    <3> QED BY <3>2 DEF N
  <2> QED BY <2>2, <2>8
<1> QED
  BY <1>2, <1>3

(* What precedes the last line of a text is not changed by more text. *)
LEMMA FoldAfter ==
    ASSUME NEW P \in Seq(Line), NEW Q \in Seq(Line), Q # <<>>, NEW text \in Seq(Tokens)
    PROVE  /\ OverTokens!Fold(P \o Q, text) = P \o OverTokens!Fold(Q, text)
           /\ OverTokens!Fold(Q, text) \in Seq(Line) /\ OverTokens!Fold(Q, text) # <<>>
<1> DEFINE V == Seq(Line) \ {<<>>}
           R == {p \in Seq(Tokens) \X V :
                    /\ p[2] = P \o OverTokens!Fold(Q, p[1])
                    /\ OverTokens!Fold(Q, p[1]) \in V}
<1>1. Q \in V /\ P \o Q \in V /\ <<>> \in Seq(Tokens) /\ <<>> \o text = text
  <2>1. Len(P \o Q) = Len(P) + Len(Q) /\ Len(Q) # 0 /\ P \o Q \in Seq(Line)
        /\ Len(P) \in Nat /\ Len(Q) \in Nat
    <3> HIDE DEF Line
    <3> QED OBVIOUS
  <2>2. P \o Q # <<>>
    BY <2>1
  <2>3. <<>> \in Seq(Tokens) /\ <<>> \o text = text
    <3> HIDE DEF Tokens
    <3> QED OBVIOUS
  <2> QED BY <2>1, <2>2, <2>3
<1> HIDE DEF V
<1>2. <<<<>>, P \o Q>> \in R
  <2>1. OverTokens!Fold(Q, <<>>) = Q
    BY OverTokens!FoldEmpty
  <2> DEFINE p == <<<<>>, P \o Q>>
  <2>2. p \in Seq(Tokens) \X V /\ p[1] = <<>> /\ p[2] = P \o Q
    BY <1>1
  <2> HIDE DEF p
  <2>3. p \in R
    BY <1>1, <2>1, <2>2
  <2> QED BY <2>3 DEF p
<1>3. \A p \in R, x \in Tokens : <<Append(p[1], x), withToken(p[2], x)>> \in R
  <2> SUFFICES ASSUME NEW p \in R, NEW x \in Tokens
               PROVE  <<Append(p[1], x), withToken(p[2], x)>> \in R
    OBVIOUS
  <2> DEFINE u == p[1]
             f == OverTokens!Fold(Q, u)
             q == <<Append(u, x), withToken(p[2], x)>>
  <2>1. u \in Seq(Tokens) /\ p[2] = P \o f /\ f \in V /\ p[2] \in V
    OBVIOUS
  <2> HIDE DEF Tokens, u
  <2>2. Append(u, x) \in Seq(Tokens) /\ OverTokens!Fold(Q, Append(u, x)) = withToken(f, x)
    BY <2>1, OverTokens!FoldAppend
  <2> HIDE DEF f
  <2>3. withToken(f, x) \in V
    BY <2>1, TokenAdded DEF V
  <2>4. withToken(P \o f, x) = P \o withToken(f, x)
    BY <2>1, TokenAfter DEF V
  <2>5. withToken(p[2], x) \in V
    BY <2>1, TokenAdded DEF V
  <2>6. q \in Seq(Tokens) \X V /\ q[1] = Append(u, x) /\ q[2] = withToken(p[2], x)
    BY <2>2, <2>5
  <2> HIDE DEF q
  <2>7. q \in R
    BY <2>1, <2>2, <2>3, <2>4, <2>6
  <2> QED BY <2>7 DEF q, u
<1>4. R \subseteq Seq(Tokens) \X V
  OBVIOUS
<1>5. <<<<>> \o text, OverTokens!Fold(P \o Q, text)>> \in R
  <2> HIDE DEF R, Tokens
  <2> QED BY <1>1, <1>2, <1>3, <1>4, OverTokens!FoldFollows
<1>6. <<text, OverTokens!Fold(P \o Q, text)>> \in R
  BY <1>1, <1>5
<1> DEFINE p == <<text, OverTokens!Fold(P \o Q, text)>>
<1>7. p[1] = text /\ p[2] = OverTokens!Fold(P \o Q, text) /\ p \in R
  BY <1>6
<1> HIDE DEF p
<1> QED
  BY <1>7 DEF V

(* Splitting a text is a fold. *)
LEMMA LinesFold ==
    ASSUME NEW text \in Seq(Tokens)
    PROVE  Lines(text) = OverTokens!Fold(<< <<>> >>, text)
<1> QED BY DEF Lines, FoldLeft, MapThenFoldSet, Max, OverTokens!Fold, OverTokens!FoldLeft,
               OverTokens!MapThenFoldSet, OverTokens!Max

(* A text without a newline is one line. *)
LEMMA LinesOfLine ==
    ASSUME NEW line \in Line PROVE Lines(line) = <<line>>
<1> DEFINE V == Seq(Line)
           S == Tokens \ {Newline}
           R == {p \in Seq(S) \X V : p[2] = <<p[1]>>}
           base == << <<>> >>
<1>1. Line = Seq(S) /\ S \subseteq Tokens /\ <<>> \in Line
  BY DEF Line
<1> HIDE DEF S, Line
<1>2. base \in V /\ <<>> \in Seq(S) /\ <<>> \o line = line
  BY <1>1
<1> HIDE DEF V, base
<1>3. <<<<>>, base>> \in R
  <2> DEFINE p == <<<<>>, base>>
  <2>1. p \in Seq(S) \X V /\ p[1] = <<>> /\ p[2] = base
    BY <1>2
  <2> HIDE DEF p
  <2>2. p \in R
    BY <2>1 DEF base
  <2> QED BY <2>2 DEF p
<1>4. \A p \in R, x \in S : <<Append(p[1], x), withToken(p[2], x)>> \in R
  <2> SUFFICES ASSUME NEW p \in R, NEW x \in S
               PROVE  <<Append(p[1], x), withToken(p[2], x)>> \in R
    OBVIOUS
  <2> DEFINE u == p[1]
             q == <<Append(u, x), withToken(p[2], x)>>
  <2>1. u \in Seq(S) /\ p[2] = <<u>> /\ x # Newline
    BY DEF S
  <2> HIDE DEF u
  <2>2. Append(u, x) \in Line /\ u \in Line
    BY <1>1, <2>1
  <2>3. withToken(<<u>>, x) = <<Append(u, x)>>
    <3> DEFINE y == Append(u, x)
    <3>1. Len(<<u>>) = 1 /\ <<u>>[1] = u
      OBVIOUS
    <3>2. withToken(<<u>>, x) = [<<u>> EXCEPT ![1] = y]
      BY <2>1, <3>1 DEF withToken
    <3> HIDE DEF y
    <3>3. [<<u>> EXCEPT ![1] = y] = <<y>>
      OBVIOUS
    <3> QED BY <3>2, <3>3 DEF y
  <2>4. <<Append(u, x)>> \in V
    BY <2>2 DEF V
  <2>5. q \in Seq(S) \X V /\ q[1] = Append(u, x) /\ q[2] = <<Append(u, x)>>
    BY <1>1, <2>1, <2>2, <2>3, <2>4
  <2> HIDE DEF q
  <2>6. q \in R
    BY <2>5
  <2> QED BY <2>6 DEF q, u
<1>5. R \subseteq Seq(S) \X V
  OBVIOUS
<1>6. <<<<>> \o line, OverTokens!Fold(base, line)>> \in R
  <2> HIDE DEF R
  <2> QED BY <1>1, <1>2, <1>3, <1>4, <1>5, OverTokens!FoldFollows
<1> DEFINE p == <<line, OverTokens!Fold(base, line)>>
<1>7. p[1] = line /\ p[2] = OverTokens!Fold(base, line) /\ p \in R
  BY <1>2, <1>6
<1> HIDE DEF p
<1>8. OverTokens!Fold(base, line) = <<line>>
  BY <1>7
<1>9. line \in Seq(Tokens)
  <2> HIDE DEF Tokens
  <2> QED BY ONLY <1>1, line \in Line, WiderSeq
<1> QED
  BY <1>8, <1>9, LinesFold DEF base

(* A sequence is its front and its last element. *)
LEMMA FrontLast ==
    ASSUME NEW S, NEW s \in Seq(S), s # <<>>
    PROVE  /\ Front(s) \in Seq(S) /\ Last(s) \in S /\ s = Front(s) \o <<Last(s)>>
           /\ s = Append(Front(s), Last(s)) /\ Len(Front(s)) = Len(s) - 1
<1>1. Len(s) \in Nat /\ Len(s) >= 1
  OBVIOUS
<1>2. Front(s) \in Seq(S) /\ Last(s) \in S /\ Len(Front(s)) = Len(s) - 1
      /\ \A i \in 1..(Len(s) - 1) : Front(s)[i] = s[i]
  <2> DEFINE n == Len(s) - 1
  <2>1. n \in Nat /\ n = Len(s) - 1 /\ n <= Len(s) /\ n + 1 \in 1..Len(s)
    BY <1>1
  <2> HIDE DEF n
  <2>2. SubSeq(s, 1, n) \in Seq(S) /\ Len(SubSeq(s, 1, n)) = n
    BY <2>1
  <2>3. \A i \in 1..n : SubSeq(s, 1, n)[i] = s[i]
    BY <2>1
  <2>4. Last(s) \in S
    BY <2>1 DEF Last
  <2> QED BY <2>1, <2>2, <2>3, <2>4 DEF Front
<1>3. Last(s) = s[Len(s)]
  BY DEF Last
<1> DEFINE f == Front(s)
           l == Last(s)
<1> HIDE DEF f, l
<1>4. s = Append(f, l) /\ f \o <<l>> = Append(f, l)
  BY <1>1, <1>2, <1>3 DEF f, l
<1> QED
  BY <1>2, <1>4 DEF f, l

(* A text in two pieces: the last line of the first is continued by the    *)
(* second (add, script.js 161-180).                                        *)
LEMMA LinesConcat ==
    ASSUME NEW s \in Seq(Tokens), NEW t \in Seq(Tokens)
    PROVE  /\ Lines(s \o t) = Front(Lines(s)) \o Lines(Last(Lines(s)) \o t)
           /\ Front(Lines(s)) \in Seq(Line) /\ Last(Lines(s)) \in Line
           /\ Last(Lines(s)) \in Seq(Tokens)
<1> DEFINE L == Lines(s)
           f == Front(L)
           l == Last(L)
           base == << <<>> >>
<1>1. L \in Seq(Line) /\ L # <<>>
  BY LinesType
<1> HIDE DEF L
<1>2. f \in Seq(Line) /\ l \in Line /\ L = f \o <<l>>
  <2> HIDE DEF Line
  <2> QED BY <1>1, FrontLast
<1> HIDE DEF f, l
<1>3. <<l>> \in Seq(Line) /\ <<l>> # <<>>
  <2> HIDE DEF Line
  <2> QED BY <1>2
<1>4. l \in Seq(Tokens)
  <2> DEFINE A == Tokens \ {Newline}
  <2>1. A \subseteq Tokens /\ l \in Seq(A)
    BY <1>2 DEF Line
  <2> HIDE DEF A, Tokens
  <2> QED BY ONLY <2>1, WiderSeq
<1>5. s \o t \in Seq(Tokens) /\ l \o t \in Seq(Tokens)
  <2> HIDE DEF Tokens
  <2> QED BY <1>4
<1> HIDE DEF base
<1>6. Lines(s \o t) = OverTokens!Fold(L, t)
  <2>1. Lines(s \o t) = OverTokens!Fold(base, s \o t) /\ L = OverTokens!Fold(base, s)
    BY <1>5, LinesFold DEF base, L
  <2> HIDE DEF Tokens
  <2> QED BY <2>1, OverTokens!FoldConcat
<1>7. OverTokens!Fold(L, t) = f \o OverTokens!Fold(<<l>>, t)
  BY <1>2, <1>3, FoldAfter
<1>8. Lines(l \o t) = OverTokens!Fold(<<l>>, t)
  <2>1. Lines(l \o t) = OverTokens!Fold(base, l \o t) /\ Lines(l) = OverTokens!Fold(base, l)
    BY <1>4, <1>5, LinesFold DEF base
  <2>2. Lines(l) = <<l>>
    BY <1>2, LinesOfLine
  <2> HIDE DEF Tokens
  <2>3. OverTokens!Fold(base, l \o t) = OverTokens!Fold(OverTokens!Fold(base, l), t)
    BY <1>4, OverTokens!FoldConcat
  <2> QED BY <2>1, <2>2, <2>3
<1> QED
  BY <1>2, <1>4, <1>6, <1>7, <1>8 DEF f, l, L

-----------------------------------------------------------------------------
(* The entries of a text, line by line *)

(* The least number of a set. *)
LEMMA MinFacts ==
    ASSUME NEW S \in SUBSET Nat, S # {}
    PROVE  Min(S) \in S /\ \A y \in S : Min(S) <= y
<1>1. \E x \in S : \A y \in S : x <= y
  BY OverLines!LeastExists
<1> QED
  BY <1>1 DEF Min

(* ... and what it is. *)
LEMMA MinIs ==
    ASSUME NEW S \in SUBSET Nat, NEW m \in S, \A y \in S : m <= y
    PROVE  Min(S) = m
<1>1. Min(S) \in S /\ \A y \in S : Min(S) <= y
  BY MinFacts
<1> DEFINE l == Min(S)
<1>2. l \in Nat /\ m \in Nat /\ l <= m /\ m <= l
  BY <1>1
<1> HIDE DEF l
<1>3. l = m
  BY <1>2
<1> QED
  BY <1>3 DEF l

(* What a sequence with one line more has. *)
LEMMA OneMore ==
    ASSUME NEW lines \in Seq(Line), NEW line \in Line
    PROVE  /\ Append(lines, line) \in Seq(Line) /\ Len(lines) \in Nat
           /\ Len(Append(lines, line)) = Len(lines) + 1
           /\ DOMAIN lines = 1..Len(lines)
           /\ DOMAIN Append(lines, line) = 1..(Len(lines) + 1)
           /\ Append(lines, line)[Len(lines) + 1] = line
           /\ \A i \in 1..Len(lines) : Append(lines, line)[i] = lines[i]
<1> HIDE DEF Line
<1> QED OBVIOUS

(* Which log it is, is not changed by what comes later. *)
LEMMA TypeStays ==
    ASSUME NEW before, NEW lines \in Seq(Line), NEW line \in Line,
           NEW i \in Nat, i <= Len(lines)
    PROVE  TypeAt(before, Append(lines, line), i) = TypeAt(before, lines, i)
<1> DEFINE more == Append(lines, line)
           Tells(l) == IsSectionStart(l) \/ IsRequest(l)
           A == {k \in 1..i : Tells(lines[k])}
           B == {k \in 1..i : Tells(more[k])}
<1>1. \A k \in 1..i : more[k] = lines[k]
  BY OneMore
<1> HIDE DEF more
<1>2. A = B
  <2> HIDE DEF Tells
  <2> QED BY <1>1
<1>3. A # {} => Min(A) \in 1..i
  <2>1. A \in SUBSET Nat
    OBVIOUS
  <2>2. A \subseteq 1..i
    OBVIOUS
  <2> HIDE DEF A
  <2> QED BY <2>1, <2>2, MinFacts
<1>4. TypeAt(before, lines, i) =
        IF before # undefined THEN before
        ELSE IF A = {} THEN undefined
        ELSE IF IsSectionStart(lines[Min(A)]) THEN ERROR_LOG ELSE REQUEST_LOG
  BY DEF TypeAt
<1>5. TypeAt(before, more, i) =
        IF before # undefined THEN before
        ELSE IF B = {} THEN undefined
        ELSE IF IsSectionStart(more[Min(B)]) THEN ERROR_LOG ELSE REQUEST_LOG
  BY DEF TypeAt
<1> HIDE DEF A, B
<1> QED
  BY <1>1, <1>2, <1>3, <1>4, <1>5 DEF more

(* Which log it is once another line has come. *)
LEMMA TypeNext ==
    ASSUME NEW before, NEW lines \in Seq(Line), NEW line \in Line
    PROVE  TypeAt(before, Append(lines, line), Len(lines) + 1) =
             IF TypeAt(before, lines, Len(lines)) # undefined
             THEN TypeAt(before, lines, Len(lines))
             ELSE IF IsSectionStart(line) THEN ERROR_LOG
             ELSE IF IsRequest(line) THEN REQUEST_LOG ELSE undefined
<1> DEFINE more == Append(lines, line)
           n == Len(lines)
           Tells(l) == IsSectionStart(l) \/ IsRequest(l)
           A == {k \in 1..n : Tells(lines[k])}
           B == {k \in 1..(n + 1) : Tells(more[k])}
<1>1. more[n + 1] = line /\ n \in Nat /\ \A k \in 1..n : more[k] = lines[k]
  BY OneMore
<1>2. TypeAt(before, lines, n) =
        IF before # undefined THEN before
        ELSE IF A = {} THEN undefined
        ELSE IF IsSectionStart(lines[Min(A)]) THEN ERROR_LOG ELSE REQUEST_LOG
  BY DEF TypeAt
<1>3. TypeAt(before, more, n + 1) =
        IF before # undefined THEN before
        ELSE IF B = {} THEN undefined
        ELSE IF IsSectionStart(more[Min(B)]) THEN ERROR_LOG ELSE REQUEST_LOG
  BY DEF TypeAt
<1> HIDE DEF more, n
<1>4. B = A \cup (IF Tells(line) THEN {n + 1} ELSE {})
  <2> HIDE DEF Tells
  <2>1. \A k \in 1..(n + 1) : k \in 1..n \/ k = n + 1
    BY <1>1
  <2>2. \A k \in 1..n : k \in 1..(n + 1)
    BY <1>1
  <2>3. n + 1 \in 1..(n + 1)
    BY <1>1
  <2> QED BY <1>1, <2>1, <2>2, <2>3
<1>5. A \in SUBSET Nat /\ \A k \in A : k <= n /\ k \in 1..n
  BY <1>1
<1> HIDE DEF A, B
<1>6. ASSUME A # {} PROVE B # {} /\ Min(B) = Min(A) /\ Min(A) \in 1..n
  <2>1. Min(A) \in A /\ \A y \in A : Min(A) <= y
    BY <1>5, <1>6, MinFacts
  <2>a. B \in SUBSET Nat
    <3>1. n + 1 \in Nat
      BY <1>1
    <3> QED BY <1>4, <1>5, <3>1
  <2>b. \A y \in B : y \in A \/ y = n + 1
    BY <1>4
  <2>c. Min(A) \in B /\ Min(A) <= n + 1
    <3> DEFINE l == Min(A)
    <3>1. l \in A /\ l \in B /\ l <= n /\ l \in Nat
      BY <1>4, <1>5, <2>1
    <3> HIDE DEF l
    <3> QED BY <1>1, <3>1 DEF l
  <2>2. B \in SUBSET Nat /\ Min(A) \in B /\ \A y \in B : Min(A) <= y
    BY <2>a, <2>b, <2>c, <2>1
  <2> QED BY <1>5, <2>1, <2>2, MinIs
<1>7. ASSUME A = {}, B # {} PROVE Min(B) = n + 1 /\ Tells(line)
  <2>1. B = {n + 1} /\ Tells(line)
    BY <1>4, <1>7
  <2>2. Min(B) = n + 1
    BY <1>1, <2>1, MinIs
  <2> QED BY <2>1, <2>2
<1>8. A = {} /\ B = {} => ~Tells(line)
  BY <1>4
<1>9. ERROR_LOG # undefined /\ REQUEST_LOG # undefined
  BY DEF ERROR_LOG, REQUEST_LOG, undefined
<1>10. CASE before # undefined
  BY <1>2, <1>3, <1>10 DEF more, n
<1>11. CASE before = undefined /\ A # {}
  <2>1. more[Min(B)] = lines[Min(A)]
    BY <1>1, <1>6, <1>11
  <2> QED BY <1>2, <1>3, <1>6, <1>9, <1>11, <2>1 DEF more, n
<1>12. CASE before = undefined /\ A = {} /\ B # {}
  <2>1. more[Min(B)] = line
    BY <1>1, <1>7, <1>12
  <2> QED BY <1>2, <1>3, <1>7, <1>9, <1>12, <2>1 DEF more, n
<1>13. CASE before = undefined /\ A = {} /\ B = {}
  BY <1>2, <1>3, <1>8, <1>13 DEF more, n
<1> QED
  BY <1>10, <1>11, <1>12, <1>13

(* Whether a section is open after the last of the lines. *)
StillOpen(before, lines) ==
    \E h \in 1..Len(lines) : OpenSince(before, lines, h, Len(lines))

(* Where an entry ends. *)
Following(before, lines, i) == {j \in Starts(before, lines) \cup {Len(lines) + 1} : j > i}

(* What the lines so far are is not changed by what comes later. *)
LEMMA OpensStays ==
    ASSUME NEW before, NEW lines \in Seq(Line), NEW line \in Line
    PROVE  /\ \A h \in 1..Len(lines) :
                 Opens(before, Append(lines, line), h) <=> Opens(before, lines, h)
           /\ \A i \in 1..Len(lines) : \A h \in 1..i :
                 OpenSince(before, Append(lines, line), h, i) <=>
                     OpenSince(before, lines, h, i)
           /\ \A h \in 1..Len(lines) :
                 OpenSince(before, Append(lines, line), h, Len(lines) + 1) <=>
                     OpenSince(before, lines, h, Len(lines)) /\ Continues(line)
<1> DEFINE more == Append(lines, line)
           n == Len(lines)
<1>1. more[n + 1] = line /\ n \in Nat /\ \A k \in 1..n : more[k] = lines[k]
  BY OneMore
<1>2. ASSUME NEW h \in 1..n PROVE Opens(before, more, h) <=> Opens(before, lines, h)
  <2>1. TypeAt(before, more, h) = TypeAt(before, lines, h)
    BY <1>1, TypeStays
  <2>2. more[h] = lines[h]
    BY <1>1
  <2> HIDE DEF more, n
  <2> QED BY <2>1, <2>2 DEF Opens
<1> HIDE DEF more, n
<1>3. ASSUME NEW i \in 1..n, NEW h \in 1..i
      PROVE  OpenSince(before, more, h, i) <=> OpenSince(before, lines, h, i)
  <2>1. h \in 1..n /\ \A k \in (h + 1)..i : k \in 1..n
    BY <1>1
  <2>2. \A k \in (h + 1)..i : more[k] = lines[k]
    BY <1>1, <2>1
  <2> QED BY <1>2, <2>1, <2>2 DEF OpenSince
<1>4. ASSUME NEW h \in 1..n
      PROVE  OpenSince(before, more, h, n + 1) <=>
                 OpenSince(before, lines, h, n) /\ Continues(line)
  <2>1. (\A k \in (h + 1)..(n + 1) : Continues(more[k])) <=>
            (\A k \in (h + 1)..n : Continues(lines[k])) /\ Continues(line)
    <3>1. \A k \in (h + 1)..n : k \in 1..n /\ k \in (h + 1)..(n + 1)
      BY <1>1
    <3>2. \A k \in (h + 1)..(n + 1) : k \in (h + 1)..n \/ k = n + 1
      BY <1>1
    <3>3. n + 1 \in (h + 1)..(n + 1)
      BY <1>1
    <3> QED BY <1>1, <3>1, <3>2, <3>3
  <2> QED BY <1>2, <2>1 DEF OpenSince
<1> QED
  BY <1>2, <1>3, <1>4 DEF more, n

(* A line begins an entry unless it continues a section that is open. *)
LEMMA StartsNext ==
    ASSUME NEW before, NEW lines \in Seq(Line), NEW line \in Line
    PROVE  /\ Starts(before, lines) \subseteq 1..Len(lines)
           /\ StillOpen(before, lines) /\ Continues(line) =>
                 Starts(before, Append(lines, line)) = Starts(before, lines)
           /\ ~(StillOpen(before, lines) /\ Continues(line)) =>
                 Starts(before, Append(lines, line)) =
                     Starts(before, lines) \cup {Len(lines) + 1}
           /\ StillOpen(before, Append(lines, line)) <=>
                 \/ StillOpen(before, lines) /\ Continues(line)
                 \/ Opens(before, Append(lines, line), Len(lines) + 1)
<1> DEFINE more == Append(lines, line)
           n == Len(lines)
           S == Starts(before, lines)
           T == Starts(before, more)
<1>1. n \in Nat /\ Len(more) = n + 1 /\ DOMAIN lines = 1..n /\ DOMAIN more = 1..(n + 1)
  BY OneMore
<1>2. /\ \A i \in 1..n : \A h \in 1..i :
            OpenSince(before, more, h, i) <=> OpenSince(before, lines, h, i)
      /\ \A h \in 1..n :
            OpenSince(before, more, h, n + 1) <=>
                OpenSince(before, lines, h, n) /\ Continues(line)
  BY OpensStays
<1> HIDE DEF more, n
<1>3. S \subseteq 1..n /\ T \subseteq 1..(n + 1)
  BY <1>1 DEF Starts
<1>4. ASSUME NEW i \in 1..n PROVE i \in T <=> i \in S
  <2>1. \A h \in 1..(i - 1) : h \in 1..i
    BY <1>1
  <2>2. i \in 1..(n + 1)
    BY <1>1
  <2> QED BY <1>1, <1>2, <2>1, <2>2 DEF Starts
<1>5. n + 1 \in T <=> ~(StillOpen(before, lines) /\ Continues(line))
  <2>1. n + 1 \in 1..(n + 1) /\ (n + 1) - 1 = n
    BY <1>1
  <2>2. n + 1 \in T <=> \A h \in 1..n : ~OpenSince(before, more, h, n + 1)
    BY <1>1, <2>1 DEF Starts
  <2> QED BY <1>2, <2>2 DEF StillOpen, n
<1>6. \A i \in 1..(n + 1) : i \in 1..n \/ i = n + 1
  BY <1>1
<1>7. StillOpen(before, more) <=> \/ StillOpen(before, lines) /\ Continues(line)
                             \/ Opens(before, more, n + 1)
  <2>1. StillOpen(before, more) <=> \E h \in 1..(n + 1) : OpenSince(before, more, h, n + 1)
    BY <1>1 DEF StillOpen
  <2>2. OpenSince(before, more, n + 1, n + 1) <=> Opens(before, more, n + 1)
    <3>1. ((n + 1) + 1)..(n + 1) = {}
      BY <1>1
    <3> QED BY <3>1 DEF OpenSince
  <2>3. (\E h \in 1..n : OpenSince(before, more, h, n + 1)) <=>
            StillOpen(before, lines) /\ Continues(line)
    BY <1>2 DEF StillOpen, n
  <2>4. n + 1 \in 1..(n + 1) /\ \A h \in 1..n : h \in 1..(n + 1)
    BY <1>1
  <2> QED BY <1>6, <2>1, <2>2, <2>3, <2>4
<1> HIDE DEF S, T
<1>8. StillOpen(before, lines) /\ Continues(line) => T = S
  BY <1>3, <1>4, <1>5, <1>6, <1>1
<1>9. ~(StillOpen(before, lines) /\ Continues(line)) => T = S \cup {n + 1}
  BY <1>3, <1>4, <1>5, <1>6, <1>1
<1> QED
  BY <1>3, <1>7, <1>8, <1>9 DEF S, T, more, n

(* A section that is open is the last entry. *)
LEMMA OpenIsLast ==
    ASSUME NEW before, NEW lines \in Seq(Line), StillOpen(before, lines)
    PROVE  \E s \in Starts(before, lines) :
              /\ Opens(before, lines, s) /\ \A r \in Starts(before, lines) : r <= s
<1> DEFINE n == Len(lines)
           H == {h \in 1..n : OpenSince(before, lines, h, n)}
           s == Min(H)
<1>1. n \in Nat /\ DOMAIN lines = 1..n
  BY DEF Line
<1>2. H \in SUBSET Nat /\ H # {} /\ \A h \in H : h \in 1..n /\ OpenSince(before, lines, h, n)
  BY <1>1 DEF StillOpen
<1> HIDE DEF n
<1>3. s \in H /\ \A h \in H : s <= h
  <2> HIDE DEF H
  <2> QED BY <1>2, MinFacts
<1>4. s \in 1..n /\ OpenSince(before, lines, s, n)
  BY <1>2, <1>3
<1>5. \A h \in 1..n : OpenSince(before, lines, h, n) => s <= h
  BY <1>3
<1> HIDE DEF H, s
<1>6. ASSUME NEW h \in 1..(s - 1), OpenSince(before, lines, h, s) PROVE FALSE
  <2>1. h \in 1..n /\ ~(s <= h)
    BY <1>1, <1>4
  <2>2. \A k \in (h + 1)..n : k \in (h + 1)..s \/ k \in (s + 1)..n
    BY <1>1, <1>4
  <2>3. OpenSince(before, lines, h, n)
    BY <1>4, <1>6, <2>2 DEF OpenSince
  <2> QED BY <1>5, <2>1, <2>3
<1>7. s \in Starts(before, lines)
  BY <1>1, <1>4, <1>6 DEF Starts
<1>8. ASSUME NEW r \in Starts(before, lines) PROVE r <= s
  <2>1. r \in 1..n /\ \A h \in 1..(r - 1) : ~OpenSince(before, lines, h, r)
    BY <1>1 DEF Starts
  <2>2. SUFFICES ASSUME r > s PROVE FALSE
    BY <1>1, <1>4, <2>1
  <2>3. s \in 1..(r - 1) /\ \A k \in (s + 1)..r : k \in (s + 1)..n
    BY <1>1, <1>4, <2>1, <2>2
  <2>4. OpenSince(before, lines, s, r)
    BY <1>4, <2>3 DEF OpenSince
  <2> QED BY <2>1, <2>3, <2>4
<1> QED
  BY <1>4, <1>7, <1>8 DEF OpenSince

(* Sequences are equal if their elements are. *)
LEMMA SameElements ==
    ASSUME NEW S, NEW s \in Seq(S), NEW t \in Seq(S), Len(s) = Len(t),
           \A k \in 1..Len(s) : s[k] = t[k]
    PROVE  s = t
<1> QED OBVIOUS

(* Pieces of a sequence to which something is appended. *)
LEMMA PieceStays ==
    ASSUME NEW S, NEW seq \in Seq(S), NEW x \in S, NEW i \in Nat \ {0}, NEW j \in Nat,
           j <= Len(seq)
    PROVE  SubSeq(Append(seq, x), i, j) = SubSeq(seq, i, j)
<1> DEFINE more == Append(seq, x)
<1>1. /\ more \in Seq(S) /\ Len(more) = Len(seq) + 1 /\ Len(seq) \in Nat
      /\ \A k \in 1..Len(seq) : more[k] = seq[k]
  OBVIOUS
<1> HIDE DEF more
<1>2. CASE i <= j
  <2> DEFINE A == SubSeq(more, i, j)
             B == SubSeq(seq, i, j)
  <2>1. A \in Seq(S) /\ Len(A) = j - i + 1 /\ \A k \in 1..(j - i + 1) : A[k] = more[i + k - 1]
    BY <1>1, <1>2
  <2>2. B \in Seq(S) /\ Len(B) = j - i + 1 /\ \A k \in 1..(j - i + 1) : B[k] = seq[i + k - 1]
    BY <1>1, <1>2
  <2>3. \A k \in 1..(j - i + 1) : i + k - 1 \in 1..Len(seq)
    BY <1>1, <1>2
  <2> HIDE DEF A, B
  <2>4. \A k \in 1..(j - i + 1) : A[k] = B[k]
    BY <1>1, <2>1, <2>2, <2>3
  <2>5. A = B
    BY <2>1, <2>2, <2>4
  <2> QED BY <2>5 DEF A, B, more
<1>3. CASE j < i
  <2>1. SubSeq(more, i, j) = <<>> /\ SubSeq(seq, i, j) = <<>>
    BY <1>1, <1>3
  <2> QED BY <2>1 DEF more
<1> QED
  BY <1>2, <1>3

(* ... and one that does has it as its last. *)
LEMMA PieceGrows ==
    ASSUME NEW S, NEW seq \in Seq(S), NEW x \in S, NEW i \in 1..(Len(seq) + 1)
    PROVE  SubSeq(Append(seq, x), i, Len(seq) + 1) = Append(SubSeq(seq, i, Len(seq)), x)
<1> DEFINE more == Append(seq, x)
           n == Len(seq)
           A == SubSeq(more, i, n + 1)
           B == SubSeq(seq, i, n)
           C == Append(B, x)
<1>1. /\ more \in Seq(S) /\ Len(more) = n + 1 /\ n \in Nat /\ i \in Nat
      /\ \A k \in 1..n : more[k] = seq[k]
      /\ more[n + 1] = x
  OBVIOUS
<1> HIDE DEF more
<1>2. A \in Seq(S) /\ Len(A) = n + 1 - i + 1 /\ \A k \in 1..(n + 1 - i + 1) : A[k] = more[i + k - 1]
  BY <1>1
<1>3. B \in Seq(S) /\ Len(B) = n - i + 1 /\ \A k \in 1..(n - i + 1) : B[k] = seq[i + k - 1]
  BY <1>1
<1> HIDE DEF A, B, n
<1>4. /\ C \in Seq(S) /\ Len(C) = n + 1 - i + 1 /\ C[n + 1 - i + 1] = x
      /\ \A k \in 1..(n - i + 1) : C[k] = seq[i + k - 1]
  BY <1>1, <1>3
<1> HIDE DEF C
<1>5. ASSUME NEW k \in 1..(n + 1 - i + 1) PROVE A[k] = C[k]
  <2>1. CASE k = n + 1 - i + 1
    <3>1. i + k - 1 = n + 1
      BY <1>1, <2>1
    <3> QED BY <1>1, <1>2, <1>4, <2>1, <3>1
  <2>2. CASE k # n + 1 - i + 1
    <3>1. k \in 1..(n - i + 1) /\ i + k - 1 \in 1..n
      BY <1>1, <2>2
    <3> QED BY <1>1, <1>2, <1>4, <3>1
  <2> QED BY <2>1, <2>2
<1>6. A = C
  <2>1. Len(A) = Len(C) /\ \A k \in 1..Len(A) : A[k] = C[k]
    BY <1>2, <1>4, <1>5
  <2> QED BY ONLY <1>2, <1>4, <2>1, SameElements
<1> QED
  BY <1>6 DEF A, B, C, more, n

(* What an entry is, in terms of where the next one begins. *)
LEMMA EntryIs ==
    ASSUME NEW before, NEW lines \in Seq(Line), NEW i \in 1..Len(lines)
    PROVE  /\ Entry(before, lines, i).lines =
                  SubSeq(lines, i, Min(Following(before, lines, i)) - 1)
           /\ Entry(before, lines, i).kind =
                  IF Opens(before, lines, i) THEN "section"
                  ELSE IF IsRequest(lines[i]) /\ TypeAt(before, lines, i) = REQUEST_LOG
                  THEN "request" ELSE "line"
<1> QED BY DEF Entry, Following

(* An entry is of the same kind whatever lines follow. *)
LEMMA KindStays ==
    ASSUME NEW before, NEW lines \in Seq(Line), NEW line \in Line,
           NEW s \in 1..Len(lines)
    PROVE  Entry(before, Append(lines, line), s).kind = Entry(before, lines, s).kind
<1> DEFINE more == Append(lines, line)
<1>1. /\ more \in Seq(Line) /\ s \in 1..Len(more) /\ more[s] = lines[s]
      /\ s \in Nat /\ s <= Len(lines)
  BY OneMore
<1>2. Opens(before, more, s) <=> Opens(before, lines, s)
  BY OpensStays
<1>3. TypeAt(before, more, s) = TypeAt(before, lines, s)
  BY <1>1, TypeStays
<1> HIDE DEF more
<1> QED
  BY <1>1, <1>2, <1>3, EntryIs DEF more

(* A line that begins an entry ends those before it where they ended. *)
LEMMA EntryBegins ==
    ASSUME NEW before, NEW lines \in Seq(Line), NEW line \in Line,
           ~(StillOpen(before, lines) /\ Continues(line))
    PROVE  /\ \A s \in Starts(before, lines) :
                 Entry(before, Append(lines, line), s).lines = Entry(before, lines, s).lines
           /\ Entry(before, Append(lines, line), Len(lines) + 1).lines = <<line>>
<1> DEFINE more == Append(lines, line)
           n == Len(lines)
           S == Starts(before, lines)
           T == Starts(before, more)
<1>1. /\ n \in Nat /\ more \in Seq(Line) /\ Len(more) = n + 1 /\ more[n + 1] = line
      /\ S \subseteq 1..n /\ T = S \cup {n + 1}
  BY OneMore, StartsNext
<1> HIDE DEF more, n, S, T
<1>2. ASSUME NEW s \in S
      PROVE  Entry(before, more, s).lines = Entry(before, lines, s).lines
  <2> DEFINE A == Following(before, lines, s)
             B == Following(before, more, s)
             m == Min(A)
  <2>1. s \in 1..n /\ s \in 1..(n + 1) /\ s \in Nat
    BY <1>1
  <2>2. A = {j \in S \cup {n + 1} : j > s} /\ B = {j \in T \cup {(n + 1) + 1} : j > s}
    BY <1>1 DEF Following, S, T, n
  <2> HIDE DEF A, B
  <2>3. A \in SUBSET Nat /\ n + 1 \in A /\ \A y \in A : y <= n + 1 /\ y > s
    <3>1. n + 1 > s /\ n + 1 \in Nat /\ \A y \in S : y \in Nat /\ y <= n + 1
      BY <1>1, <2>1
    <3> QED BY <2>2, <3>1
  <2>4. B \in SUBSET Nat /\ A \subseteq B /\ \A y \in B : y \in A \/ y = (n + 1) + 1
    BY <1>1, <2>1, <2>2, <2>3
  <2>5. m \in A /\ \A y \in A : m <= y
    BY <2>3, MinFacts
  <2> HIDE DEF m
  <2>6. m \in Nat /\ m <= n + 1 /\ m > s
    BY <2>3, <2>5
  <2>7. m \in B /\ \A y \in B : m <= y
    BY <1>1, <2>4, <2>5, <2>6
  <2>8. Min(B) = m
    BY <2>4, <2>7, MinIs
  <2>9. m - 1 \in Nat /\ m - 1 <= n /\ s \in Nat \ {0}
    BY <1>1, <2>1, <2>6
  <2>10. SubSeq(more, s, m - 1) = SubSeq(lines, s, m - 1)
    <3> HIDE DEF Line
    <3> QED BY <2>9, PieceStays DEF more, n
  <2>11. Entry(before, lines, s).lines = SubSeq(lines, s, m - 1)
    BY <2>1, EntryIs DEF A, m, n
  <2>12. Entry(before, more, s).lines = SubSeq(more, s, m - 1)
    BY <1>1, <2>1, <2>8, EntryIs DEF B
  <2> QED BY <2>10, <2>11, <2>12
<1>3. Entry(before, more, n + 1).lines = <<line>>
  <2> DEFINE B == Following(before, more, n + 1)
  <2>1. B = {j \in T \cup {(n + 1) + 1} : j > n + 1}
    BY <1>1 DEF Following, T
  <2> HIDE DEF B
  <2>2. B = {(n + 1) + 1}
    <3>1. (n + 1) + 1 > n + 1 /\ \A y \in T : ~(y > n + 1)
      BY <1>1
    <3> QED BY <2>1, <3>1
  <2>3. Min(B) = (n + 1) + 1
    BY <1>1, <2>2, MinIs
  <2>4. n + 1 \in 1..(n + 1) /\ (n + 1) + 1 - 1 = n + 1
    BY <1>1
  <2>5. Entry(before, more, n + 1).lines = SubSeq(more, n + 1, n + 1)
    BY <1>1, <2>3, <2>4, EntryIs DEF B
  <2>6. SubSeq(more, n + 1, n + 1) = Append(SubSeq(lines, n + 1, n), line)
    <3> HIDE DEF Line
    <3> QED BY <2>4, PieceGrows DEF more, n
  <2>7. SubSeq(lines, n + 1, n) = <<>>
    <3> HIDE DEF Line
    <3>1. lines \in Seq(Line) /\ n < n + 1
      BY <1>1
    <3> QED BY <1>1, <3>1
  <2>8. Append(<<>>, line) = <<line>>
    OBVIOUS
  <2> QED BY <2>5, <2>6, <2>7, <2>8
<1> QED
  BY <1>2, <1>3 DEF more, n, S

(* A line that continues the last entry belongs to it, and to no other. *)
LEMMA EntryGrows ==
    ASSUME NEW before, NEW lines \in Seq(Line), NEW line \in Line,
           StillOpen(before, lines), Continues(line),
           NEW s \in Starts(before, lines)
    PROVE  /\ (\E r \in Starts(before, lines) : r > s) =>
                 Entry(before, Append(lines, line), s).lines = Entry(before, lines, s).lines
           /\ (\A r \in Starts(before, lines) : r <= s) =>
                 Entry(before, Append(lines, line), s).lines =
                     Append(Entry(before, lines, s).lines, line)
<1> DEFINE more == Append(lines, line)
           n == Len(lines)
           S == Starts(before, lines)
           A == Following(before, lines, s)
           B == Following(before, more, s)
           m == Min(A)
<1>1. /\ n \in Nat /\ more \in Seq(Line) /\ Len(more) = n + 1
      /\ S \subseteq 1..n /\ Starts(before, more) = S
  BY OneMore, StartsNext
<1>2. s \in S
  OBVIOUS
<1> HIDE DEF more, n, S
<1>3. s \in 1..n /\ s \in 1..(n + 1) /\ s \in Nat \ {0}
  BY <1>1, <1>2
<1>4. A = {j \in S \cup {n + 1} : j > s} /\ B = {j \in S \cup {(n + 1) + 1} : j > s}
  BY <1>1 DEF Following, S, n
<1> HIDE DEF A, B
<1>5. A \in SUBSET Nat /\ n + 1 \in A /\ B \in SUBSET Nat /\ (n + 1) + 1 \in B
  <2>1. /\ n + 1 > s /\ (n + 1) + 1 > s /\ n + 1 \in Nat /\ (n + 1) + 1 \in Nat
        /\ \A y \in S : y \in Nat
    BY <1>1, <1>3
  <2> QED BY <1>4, <2>1
<1>6. \A y \in S : y \in Nat /\ y <= n /\ (y > s <=> y \in A) /\ (y > s <=> y \in B)
  BY <1>1, <1>4
<1>7. (\A y \in A : y \in S \/ y = n + 1) /\ (\A y \in B : y \in S \/ y = (n + 1) + 1)
  BY <1>4
<1>8. m \in A /\ \A y \in A : m <= y
  BY <1>5, MinFacts
<1> HIDE DEF m
<1>9. Entry(before, lines, s).lines = SubSeq(lines, s, m - 1)
  BY <1>3, EntryIs DEF A, m, n
<1>10. Entry(before, more, s).lines = SubSeq(more, s, Min(B) - 1)
  BY <1>1, <1>3, EntryIs DEF B
<1>11. ASSUME NEW r \in S, r > s
       PROVE  Entry(before, more, s).lines = Entry(before, lines, s).lines
  <2>1. r \in A /\ r <= n /\ m <= r /\ m \in Nat
    BY <1>5, <1>6, <1>8, <1>11
  <2>2. m \in S /\ m <= n /\ m \in A /\ m > s
    BY <1>1, <1>6, <1>7, <1>8, <2>1
  <2>3. m \in B /\ \A y \in B : m <= y
    <3>1. m \in B
      BY <1>6, <2>2
    <3>2. ASSUME NEW y \in B PROVE m <= y
      <4>1. CASE y = (n + 1) + 1
        BY <1>1, <2>1, <2>2, <4>1
      <4>2. CASE y \in S
        <5>1. y > s
          BY <1>4, <1>3, <1>6, <4>2
        <5> QED BY <1>6, <1>8, <4>2, <5>1
      <4> QED BY <1>7, <4>1, <4>2
    <3> QED BY <3>1, <3>2
  <2>4. Min(B) = m
    BY <1>5, <2>3, MinIs
  <2>5. m - 1 \in Nat /\ m - 1 <= n
    BY <1>1, <1>3, <2>1, <2>2
  <2>6. SubSeq(more, s, m - 1) = SubSeq(lines, s, m - 1)
    <3> HIDE DEF Line
    <3> QED BY <1>3, <2>5, PieceStays DEF more, n
  <2> QED BY <1>9, <1>10, <2>4, <2>6
<1>12. ASSUME \A r \in S : r <= s
       PROVE  Entry(before, more, s).lines = Append(Entry(before, lines, s).lines, line)
  <2>1. \A y \in S : ~(y > s)
    BY <1>3, <1>6, <1>12
  <2>2. A = {n + 1} /\ B = {(n + 1) + 1}
    BY <1>5, <1>6, <1>7, <2>1
  <2>3. m = n + 1 /\ Min(B) = (n + 1) + 1
    BY <1>1, <1>8, <2>2, MinIs
  <2>4. m - 1 = n /\ Min(B) - 1 = n + 1
    BY <1>1, <2>3
  <2>5. SubSeq(more, s, n + 1) = Append(SubSeq(lines, s, n), line)
    <3> HIDE DEF Line
    <3> QED BY <1>3, PieceGrows DEF more, n
  <2> QED BY <1>9, <1>10, <2>4, <2>5
<1> QED
  BY <1>11, <1>12 DEF more, S

-----------------------------------------------------------------------------
(* Which entry a node shows *)

(* A node shows the entry that begins at the line it is assigned: in order, *)
(* without gaps up to the last one, and beginning with the first one unless *)
(* there are too many.                                                      *)
Aligned(before, lines, nodes, at) ==
    /\ \A i, j \in Entries(nodes) : i < j => at[i] < at[j]
    /\ \A i \in Entries(nodes), s \in Starts(before, lines) :
          at[i] < s => \E j \in Entries(nodes) : at[j] = s
    /\ \A i \in Entries(nodes) :
          /\ nodes[i].kind = Entry(before, lines, at[i]).kind
          /\ nodes[i].lines = Entry(before, lines, at[i]).lines
    /\ Starts(before, lines) # {} => Entries(nodes) # {}
    /\ \/ \A s \in Starts(before, lines) : \E j \in Entries(nodes) : at[j] = s
       \/ \E a \in Amounts : Len(nodes) >= ScrollBack[a]

Shown(before, lines, nodes) ==
    \E at \in [Entries(nodes) -> Starts(before, lines)] : Aligned(before, lines, nodes, at)

(* The nodes of a view are numbered. *)
LEMMA NodesFacts ==
    ASSUME NEW nodes \in Seq(NodeType)
    PROVE  /\ Len(nodes) \in Nat /\ DOMAIN nodes = 1..Len(nodes)
           /\ \A i \in 1..Len(nodes) : nodes[i] \in NodeType
           /\ Entries(nodes) \subseteq 1..Len(nodes)
           /\ \A i \in 1..Len(nodes) :
                 i \in Entries(nodes) <=> nodes[i].kind \notin {"info", "br"}
<1> HIDE DEF NodeType
<1> QED BY DEF Entries

(* Whether a node is displayed does not matter, nor what is remarked later. *)
LEMMA ShownStays ==
    ASSUME NEW before, NEW lines, NEW nodes \in Seq(NodeType), NEW other \in Seq(NodeType),
           Len(other) >= Len(nodes),
           \A i \in 1..Len(nodes) :
               other[i].kind = nodes[i].kind /\ other[i].lines = nodes[i].lines,
           \A i \in (Len(nodes) + 1)..Len(other) : other[i].kind \in {"info", "br"},
           Shown(before, lines, nodes)
    PROVE  Shown(before, lines, other)
<1> DEFINE N == Entries(nodes)
           O == Entries(other)
           S == Starts(before, lines)
<1>1. /\ Len(nodes) \in Nat /\ Len(other) \in Nat /\ N \subseteq 1..Len(nodes)
      /\ O \subseteq 1..Len(other)
      /\ \A i \in 1..Len(nodes) : i \in N <=> nodes[i].kind \notin {"info", "br"}
      /\ \A i \in 1..Len(other) : i \in O <=> other[i].kind \notin {"info", "br"}
  BY NodesFacts
<1>2. PICK at \in [N -> S] : Aligned(before, lines, nodes, at)
  BY DEF Shown
<1> HIDE DEF N, O, S
<1>3. \A i \in 1..Len(other) : i \in 1..Len(nodes) \/ i \in (Len(nodes) + 1)..Len(other)
  BY <1>1
<1>4. \A i \in 1..Len(nodes) : i \in 1..Len(other)
  BY <1>1
<1>5. O = N
  BY <1>1, <1>3, <1>4
<1>6. \A i \in N : other[i].kind = nodes[i].kind /\ other[i].lines = nodes[i].lines
  BY <1>1
<1>7. \A m \in Nat : Len(nodes) >= m => Len(other) >= m
  BY <1>1
<1>8. (\E a \in Amounts : Len(nodes) >= ScrollBack[a]) =>
          \E a \in Amounts : Len(other) >= ScrollBack[a]
  <2>1. \A a \in Amounts : ScrollBack[a] \in Nat
    BY LogViewerAssumption
  <2> QED BY <1>7, <2>1
<1>9. Aligned(before, lines, other, at)
  BY <1>2, <1>5, <1>6, <1>8 DEF Aligned, N, O, S
<1> QED
  BY <1>2, <1>5, <1>9 DEF Shown, O, S

(* An entry that begins is shown by a node of its own. *)
LEMMA ShownBegins ==
    ASSUME NEW before, NEW lines \in Seq(Line), NEW line \in Line,
           ~(StillOpen(before, lines) /\ Continues(line)),
           NEW nodes \in Seq(NodeType), Shown(before, lines, nodes),
           NEW new \in NodeType, new.lines = <<line>>, new.kind \notin {"info", "br"},
           new.kind = Entry(before, Append(lines, line), Len(lines) + 1).kind
    PROVE  Shown(before, Append(lines, line), Append(nodes, new))
<1> DEFINE more == Append(lines, line)
           longer == Append(nodes, new)
           n == Len(lines)
           m == Len(nodes)
           N == Entries(nodes)
           O == Entries(longer)
           S == Starts(before, lines)
           T == Starts(before, more)
<1>1. /\ n \in Nat /\ S \subseteq 1..n /\ T = S \cup {n + 1}
      /\ \A s \in S : Entry(before, more, s).lines = Entry(before, lines, s).lines
      /\ Entry(before, more, n + 1).lines = <<line>>
  BY OneMore, StartsNext, EntryBegins
<1>2. \A s \in S : Entry(before, more, s).kind = Entry(before, lines, s).kind
  BY <1>1, KindStays
<1>3. /\ m \in Nat /\ longer \in Seq(NodeType) /\ Len(longer) = m + 1 /\ longer[m + 1] = new
      /\ \A i \in 1..m : longer[i] = nodes[i]
  <2> HIDE DEF NodeType
  <2> QED OBVIOUS
<1>4. N \subseteq 1..m /\ \A i \in 1..m : i \in N <=> nodes[i].kind \notin {"info", "br"}
  BY NodesFacts
<1>5. O \subseteq 1..(m + 1) /\ \A i \in 1..(m + 1) : i \in O <=> longer[i].kind \notin {"info", "br"}
  <2> HIDE DEF longer
  <2> QED BY <1>3, NodesFacts
<1>6. PICK at \in [N -> S] : Aligned(before, lines, nodes, at)
  BY DEF Shown
<1> DEFINE to == [i \in O |-> IF i = m + 1 THEN n + 1 ELSE at[i]]
<1> HIDE DEF more, longer, n, m, N, O, S, T
<1>7. O = N \cup {m + 1}
  <2>1. m + 1 \in O
    BY <1>3, <1>5
  <2>2. \A i \in 1..(m + 1) : i \in 1..m \/ i = m + 1
    BY <1>3
  <2>3. \A i \in 1..m : i \in 1..(m + 1)
    BY <1>3
  <2>4. \A i \in 1..m : i \in O <=> i \in N
    BY <1>3, <1>4, <1>5, <2>3
  <2> QED BY <1>4, <1>5, <2>1, <2>2, <2>3, <2>4
<1>8. /\ \A i \in N : i # m + 1 /\ i < m + 1 /\ i \in 1..m
      /\ \A s \in S : s \in 1..n /\ s < n + 1
  BY <1>1, <1>3, <1>4
<1>9. /\ \A i \in N : to[i] = at[i] /\ at[i] \in S
      /\ to[m + 1] = n + 1
  BY <1>6, <1>7, <1>8
<1>10. to \in [O -> T]
  BY <1>1, <1>7, <1>9
<1> HIDE DEF to
<1>11. /\ \A i, j \in N : i < j => at[i] < at[j]
       /\ \A i \in N, s \in S : at[i] < s => \E j \in N : at[j] = s
       /\ \A i \in N : /\ nodes[i].kind = Entry(before, lines, at[i]).kind
                       /\ nodes[i].lines = Entry(before, lines, at[i]).lines
       /\ \/ \A s \in S : \E j \in N : at[j] = s
          \/ \E a \in Amounts : m >= ScrollBack[a]
  BY <1>6 DEF Aligned, N, S, m
<1>12. ASSUME NEW i \in O, NEW j \in O, i < j PROVE to[i] < to[j]
  <2>1. i \in N
    BY <1>3, <1>7, <1>8, <1>12
  <2>2. CASE j \in N
    BY <1>9, <1>11, <1>12, <2>1, <2>2
  <2>3. CASE j = m + 1
    BY <1>8, <1>9, <2>1, <2>3
  <2> QED BY <1>7, <2>2, <2>3
<1>13. ASSUME NEW i \in O, NEW s \in T, to[i] < s PROVE \E j \in O : to[j] = s
  <2>1. CASE s = n + 1
    BY <1>7, <1>9, <2>1
  <2>2. CASE s \in S
    <3>1. i # m + 1
      BY <1>1, <1>8, <1>9, <1>13, <2>2
    <3>2. i \in N /\ at[i] < s
      BY <1>7, <1>9, <1>13, <3>1
    <3> QED BY <1>7, <1>9, <1>11, <2>2, <3>2
  <2> QED BY <1>1, <2>1, <2>2
<1>14. ASSUME NEW i \in O
       PROVE  /\ longer[i].kind = Entry(before, more, to[i]).kind
              /\ longer[i].lines = Entry(before, more, to[i]).lines
  <2>1. CASE i \in N
    <3>1. longer[i] = nodes[i] /\ to[i] = at[i] /\ at[i] \in S
      BY <1>3, <1>8, <1>9, <2>1
    <3> DEFINE s == at[i]
    <3>2. /\ nodes[i].kind = Entry(before, lines, s).kind
          /\ nodes[i].lines = Entry(before, lines, s).lines
      BY <1>11, <2>1
    <3>3. s \in S
      BY <3>1
    <3> HIDE DEF s
    <3>4. /\ Entry(before, more, s).kind = Entry(before, lines, s).kind
          /\ Entry(before, more, s).lines = Entry(before, lines, s).lines
      BY <1>1, <1>2, <3>3
    <3> QED BY <3>1, <3>2, <3>4 DEF s
  <2>2. CASE i = m + 1
    BY <1>1, <1>3, <1>9, <2>2 DEF more, n
  <2> QED BY <1>7, <2>1, <2>2
<1>15. \/ \A s \in T : \E j \in O : to[j] = s
       \/ \E a \in Amounts : m + 1 >= ScrollBack[a]
  <2>1. CASE \A s \in S : \E j \in N : at[j] = s
    BY <1>1, <1>7, <1>9, <2>1
  <2>2. CASE \E a \in Amounts : m >= ScrollBack[a]
    <3>1. \A a \in Amounts : ScrollBack[a] \in Nat
      BY LogViewerAssumption
    <3> QED BY <1>3, <2>2, <3>1
  <2> QED BY <1>11, <2>1, <2>2
<1>16. Aligned(before, more, longer, to)
  BY <1>3, <1>7, <1>12, <1>13, <1>14, <1>15 DEF Aligned, O, T
<1> QED
  BY <1>10, <1>16 DEF Shown, O, T, more, longer

(* Nodes that are too many may go, if enough remain. *)
LEMMA ShownDropped ==
    ASSUME NEW before, NEW lines \in Seq(Line), NEW nodes \in Seq(NodeType),
           Shown(before, lines, nodes), Len(nodes) \in Entries(nodes),
           NEW first \in 1..Len(nodes),
           first # 1 => \E a \in Amounts : Len(nodes) - first + 1 >= ScrollBack[a]
    PROVE  Shown(before, lines, SubSeq(nodes, first, Len(nodes)))
<1> DEFINE rest == SubSeq(nodes, first, Len(nodes))
           d == first - 1
           m == Len(nodes) - first + 1
           N == Entries(nodes)
           O == Entries(rest)
           S == Starts(before, lines)
<1>1. Len(nodes) \in Nat /\ N \subseteq 1..Len(nodes)
      /\ \A i \in 1..Len(nodes) : i \in N <=> nodes[i].kind \notin {"info", "br"}
  BY NodesFacts
<1>2. d \in Nat /\ m \in Nat /\ Len(nodes) = d + m /\ m >= 1 /\ first = d + 1
  BY <1>1
<1>3. /\ rest \in Seq(NodeType) /\ Len(rest) = m
      /\ \A i \in 1..m : rest[i] = nodes[d + i]
  <2>1. /\ rest \in Seq(NodeType) /\ Len(rest) = Len(nodes) - first + 1
        /\ \A i \in 1..(Len(nodes) - first + 1) : rest[i] = nodes[first + i - 1]
    <3> HIDE DEF NodeType
    <3> QED BY <1>1
  <2>2. \A i \in 1..m : first + i - 1 = d + i
    BY <1>2
  <2> HIDE DEF rest
  <2> QED BY <2>1, <2>2
<1>4. O \subseteq 1..m /\ \A i \in 1..m : i \in O <=> rest[i].kind \notin {"info", "br"}
  <2> HIDE DEF rest
  <2> QED BY <1>3, NodesFacts
<1>5. PICK at \in [N -> S] : Aligned(before, lines, nodes, at)
  BY DEF Shown
<1> DEFINE to == [i \in O |-> at[d + i]]
<1>6. Len(nodes) \in N
  OBVIOUS
<1>7. d # 0 => \E a \in Amounts : m >= ScrollBack[a]
  BY <1>1
<1> HIDE DEF rest, d, m, N, O, S
<1>8. \A i \in 1..m : d + i \in 1..Len(nodes) /\ (i \in O <=> d + i \in N)
  <2>1. \A i \in 1..m : d + i \in 1..Len(nodes)
    BY <1>2
  <2> QED BY <1>1, <1>3, <1>4, <2>1
<1>9. \A i \in O : i \in 1..m /\ d + i \in N /\ to[i] = at[d + i] /\ to[i] \in S
  BY <1>4, <1>5, <1>8
<1>10. to \in [O -> S]
  BY <1>9
<1> HIDE DEF to
<1>11. m \in O /\ m = Len(nodes) - d
  BY <1>2, <1>6, <1>8
<1>12. /\ \A i, j \in N : i < j => at[i] < at[j]
       /\ \A i \in N, s \in S : at[i] < s => \E j \in N : at[j] = s
       /\ \A i \in N : /\ nodes[i].kind = Entry(before, lines, at[i]).kind
                       /\ nodes[i].lines = Entry(before, lines, at[i]).lines
       /\ \/ \A s \in S : \E j \in N : at[j] = s
          \/ \E a \in Amounts : Len(nodes) >= ScrollBack[a]
  BY <1>5 DEF Aligned, N, S
<1>13. ASSUME NEW i \in O, NEW j \in O, i < j PROVE to[i] < to[j]
  <2>1. d + i < d + j /\ d + i \in N /\ d + j \in N
    BY <1>2, <1>9, <1>13
  <2> QED BY <1>9, <1>12, <2>1
<1>14. S \subseteq Nat /\ \A i \in N : at[i] \in S
  <2>1. S \subseteq 1..Len(lines)
    BY DEF S, Starts
  <2> QED BY <1>5, <2>1
<1>15. ASSUME NEW i \in O, NEW s \in S, to[i] < s PROVE \E j \in O : to[j] = s
  <2>1. PICK k \in N : at[k] = s
    BY <1>9, <1>12, <1>15
  <2>2. d + i \in N /\ at[d + i] < at[k] /\ k \in Nat /\ i \in Nat
    BY <1>1, <1>9, <1>15, <2>1
  <2>3. ~(k < d + i)
    <3>1. SUFFICES ASSUME k < d + i PROVE FALSE
      OBVIOUS
    <3>2. at[k] < at[d + i] /\ at[d + i] < at[k]
      BY <1>12, <2>2, <3>1
    <3>3. at[k] \in Nat /\ at[d + i] \in Nat
      BY <1>14, <2>2
    <3> QED BY ONLY <3>2, <3>3
  <2>4. PICK j \in Nat : j = k - d /\ k = d + j
    <3> DEFINE j == k - d
    <3>1. j \in Nat /\ j = k - d /\ k = d + j
      BY <1>2, <2>2, <2>3
    <3> QED BY <3>1
  <2>5. j \in 1..m
    <3>1. k \in 1..Len(nodes) /\ i \in 1..m
      BY <1>1, <1>9
    <3> QED BY <1>2, <2>2, <2>3, <2>4, <3>1
  <2>6. j \in O /\ to[j] = at[k]
    BY <1>8, <1>9, <2>4, <2>5
  <2> QED BY <2>1, <2>6
<1>16. ASSUME NEW i \in O
       PROVE  /\ rest[i].kind = Entry(before, lines, to[i]).kind
              /\ rest[i].lines = Entry(before, lines, to[i]).lines
  <2>1. rest[i] = nodes[d + i] /\ to[i] = at[d + i] /\ d + i \in N
    BY <1>3, <1>9
  <2> QED BY <1>12, <2>1
<1>17. \/ \A s \in S : \E j \in O : to[j] = s
       \/ \E a \in Amounts : m >= ScrollBack[a]
  <2>1. CASE d # 0
    BY <1>7, <2>1
  <2>2. CASE d = 0
    <3>1. m = Len(nodes) /\ \A i \in 1..m : d + i = i
      BY <1>2, <2>2
    <3>2. N \subseteq 1..m
      BY <1>1, <3>1
    <3>3. \A i \in N : i \in O /\ to[i] = at[i]
      BY <1>8, <1>9, <3>1, <3>2
    <3> QED BY <1>12, <3>1, <3>3
  <2> QED BY <2>1, <2>2
<1>18. Aligned(before, lines, rest, to)
  BY <1>3, <1>11, <1>13, <1>15, <1>16, <1>17 DEF Aligned, O, S
<1> QED
  BY <1>10, <1>18 DEF Shown, O, S, rest

(* A line that continues the section that is open joins the last section. *)
LEMMA ShownGrows ==
    ASSUME NEW before, NEW lines \in Seq(Line), NEW line \in Line,
           StillOpen(before, lines), Continues(line),
           NEW nodes \in Seq(NodeType), Shown(before, lines, nodes),
           NEW i \in 1..Len(nodes), nodes[i].kind = "section",
           \A j \in 1..Len(nodes) : nodes[j].kind = "section" => j <= i,
           NEW other \in Seq(NodeType), Len(other) = Len(nodes),
           \A j \in 1..Len(nodes) : j # i => other[j] = nodes[j],
           other[i].kind = "section", other[i].lines = Append(nodes[i].lines, line)
    PROVE  Shown(before, Append(lines, line), other)
<1> DEFINE more == Append(lines, line)
           N == Entries(nodes)
           O == Entries(other)
           S == Starts(before, lines)
           T == Starts(before, more)
<1>1. /\ Len(nodes) \in Nat /\ N \subseteq 1..Len(nodes) /\ O \subseteq 1..Len(nodes)
      /\ \A j \in 1..Len(nodes) : j \in N <=> nodes[j].kind \notin {"info", "br"}
      /\ \A j \in 1..Len(nodes) : j \in O <=> other[j].kind \notin {"info", "br"}
  BY NodesFacts
<1>2. T = S /\ S \subseteq 1..Len(lines)
  BY StartsNext
<1>3. PICK s \in S : Opens(before, lines, s) /\ \A r \in S : r <= s
  BY OpenIsLast
<1>4. \A r \in S : Entry(before, more, r).kind = Entry(before, lines, r).kind
  BY <1>2, KindStays
<1>5. /\ \A r \in S : r # s =>
            Entry(before, more, r).lines = Entry(before, lines, r).lines
      /\ Entry(before, more, s).lines = Append(Entry(before, lines, s).lines, line)
  <2>1. ASSUME NEW r \in S, r # s
        PROVE  Entry(before, more, r).lines = Entry(before, lines, r).lines
    <3>1. s > r
      BY <1>2, <1>3, <2>1
    <3> QED BY <3>1, EntryGrows
  <2>2. Entry(before, more, s).lines = Append(Entry(before, lines, s).lines, line)
    BY <1>3, EntryGrows
  <2> QED BY <2>1, <2>2
<1>6. Entry(before, lines, s).kind = "section"
  BY <1>2, <1>3, EntryIs
<1>7. PICK at \in [N -> S] : Aligned(before, lines, nodes, at)
  BY DEF Shown
<1> HIDE DEF more, N, O, S, T
<1>8. /\ \A j, k \in N : j < k => at[j] < at[k]
      /\ \A j \in N, r \in S : at[j] < r => \E k \in N : at[k] = r
      /\ \A j \in N : /\ nodes[j].kind = Entry(before, lines, at[j]).kind
                      /\ nodes[j].lines = Entry(before, lines, at[j]).lines
      /\ S # {} => N # {}
      /\ \/ \A r \in S : \E j \in N : at[j] = r
         \/ \E a \in Amounts : Len(nodes) >= ScrollBack[a]
  BY <1>7 DEF Aligned, N, S
<1>9. /\ O = N /\ i \in N
      /\ \A j \in N : j # i => other[j] = nodes[j]
      /\ \A j \in N : nodes[j].kind = "section" => j <= i
      /\ \A j \in N : j \in Nat
  <2>1. i \in N /\ i \in O
    BY <1>1
  <2>2. \A j \in 1..Len(nodes) : j \in O <=> j \in N
    BY <1>1, <2>1
  <2>3. O \subseteq N /\ N \subseteq O
    BY <1>1, <2>2
  <2>4. \A j \in N : j \in 1..Len(nodes) /\ j \in Nat
    <3>1. 1..Len(nodes) \subseteq Nat
      BY <1>1
    <3>2. N \subseteq 1..Len(nodes)
      BY <1>1
    <3> QED BY <3>1, <3>2
  <2>5. \A j \in N : j # i => other[j] = nodes[j]
    BY <2>4
  <2>6. \A j \in N : nodes[j].kind = "section" => j <= i
    BY <2>4
  <2> QED BY <2>1, <2>3, <2>4, <2>5, <2>6
<1>10. \A r \in S : r \in Nat
  BY <1>2
<1>11. \A j \in N : at[j] \in S /\ at[j] <= s
  BY <1>3, <1>7
<1>12. at[i] = s
  <2>1. PICK k \in N : at[k] = s
    <3>1. PICK j \in N : TRUE
      BY <1>3, <1>8
    <3>2. at[j] < s \/ at[j] = s
      BY <1>10, <1>11, <1>3
    <3> QED BY <1>3, <1>8, <3>2
  <2>2. nodes[k].kind = "section"
    BY <1>6, <1>8, <2>1
  <2>3. k <= i
    BY <1>9, <2>2
  <2>4. ~(k < i)
    <3>1. SUFFICES ASSUME k < i PROVE FALSE
      OBVIOUS
    <3>2. s < at[i] /\ at[i] <= s /\ at[i] \in Nat /\ s \in Nat
      BY <1>3, <1>8, <1>9, <1>10, <1>11, <2>1, <3>1
    <3> QED BY <3>2
  <2>5. k = i
    BY <1>9, <2>3, <2>4
  <2> QED BY <2>1, <2>5
<1>13. ASSUME NEW j \in N, j # i PROVE at[j] # s
  <2>1. j < i \/ i < j
    BY <1>9, <1>13
  <2>2. at[j] < at[i] \/ at[i] < at[j]
    BY <1>8, <1>9, <2>1
  <2>3. at[j] \in Nat /\ at[i] \in Nat
    BY <1>9, <1>10, <1>11
  <2> QED BY <1>12, <2>2, <2>3
<1>14. ASSUME NEW j \in N
       PROVE  /\ other[j].kind = Entry(before, more, at[j]).kind
              /\ other[j].lines = Entry(before, more, at[j]).lines
  <2> DEFINE r == at[j]
  <2>1. /\ r \in S /\ nodes[j].kind = Entry(before, lines, r).kind
        /\ nodes[j].lines = Entry(before, lines, r).lines
    BY <1>8, <1>11
  <2>2. j = i => r = s
    BY <1>12
  <2>3. j # i => r # s
    BY <1>13
  <2> HIDE DEF r
  <2>4. CASE j = i
    <3>1. Entry(before, more, s).kind = "section"
      BY <1>3, <1>4, <1>6
    <3> QED BY <1>5, <2>1, <2>2, <2>4, <3>1 DEF r
  <2>5. CASE j # i
    <3>1. other[j] = nodes[j]
      BY <1>9, <2>5
    <3> QED BY <1>4, <1>5, <2>1, <2>3, <2>5, <3>1 DEF r
  <2> QED BY <2>4, <2>5
<1>15. Aligned(before, more, other, at)
  BY <1>2, <1>8, <1>9, <1>14 DEF Aligned, O, S, T
<1> QED
  BY <1>2, <1>7, <1>9, <1>15 DEF Shown, O, S, T, more

-----------------------------------------------------------------------------
(* The view of a text, line by line *)

(* The page's tail shows the entries of the lines, and knows of them what  *)
(* it takes to go on: the log's type and whether a section is open.        *)
ShowsText(before, lines, t) ==
    /\ t.logType = TypeAt(before, lines, Len(lines))
    /\ t.currentSection <=> StillOpen(before, lines)
    /\ t.currentSection => t.logType = ERROR_LOG
    /\ \E a \in Amounts : t.scrollBackBuffer = ScrollBack[a]
    /\ Shown(before, lines, t.nodes)

(* Other nodes, and nothing else. *)
LEMMA OtherNodes ==
    ASSUME NEW t \in TailObject, NEW nodes
    PROVE  /\ [t EXCEPT !.nodes = nodes].nodes = nodes
           /\ [t EXCEPT !.nodes = nodes].logType = t.logType
           /\ [t EXCEPT !.nodes = nodes].currentSection = t.currentSection
           /\ [t EXCEPT !.nodes = nodes].scrollBackBuffer = t.scrollBackBuffer
           /\ [t EXCEPT !.nodes = nodes].buffer = t.buffer
<1> HIDE DEF NodeType, Line, GrepTexts
<1> QED BY DEF TailObject

(* What addToTail adds is the last of the view, which keeps as much as it  *)
(* is to scroll back.                                                      *)
LEMMA AddedToTail ==
    ASSUME NEW u \in TailObject, NEW node \in NodeType, ~Remark(node)
    PROVE  \E new \in NodeType, first \in 1..(Len(u.nodes) + 1) :
              /\ new.kind = node.kind /\ new.lines = node.lines
              /\ first # 1 => Len(u.nodes) + 1 - first + 1 = u.scrollBackBuffer
              /\ addToTail(u, node) =
                    [u EXCEPT !.nodes =
                        SubSeq(Append(u.nodes, new), first, Len(u.nodes) + 1)]
<1> DEFINE shown == u.filterExpression # undefined => Matches(u.filterExpression, node.lines)
           new == WithDisplay(node, shown)
           longer == Append(u.nodes, new)
           first == IF Len(longer) > u.scrollBackBuffer
                    THEN Len(longer) - u.scrollBackBuffer + 1 ELSE 1
<1>1. u.nodes \in Seq(NodeType) /\ u.scrollBackBuffer \in Nat \ {0}
  BY DEF TailObject
<1>2. shown \in BOOLEAN
  <2>1. Matches(u.filterExpression, node.lines) \in BOOLEAN
    BY MatchesBoolean
  <2> QED BY <2>1, Zenon
<1>3. addToTail(u, node) = [u EXCEPT !.nodes = SubSeq(longer, first, Len(longer))]
  BY DEF addToTail
<1> HIDE DEF shown
<1>4. /\ new \in NodeType /\ new.kind = node.kind /\ new.lines = node.lines
  BY <1>2, NodeDisplayed
<1> HIDE DEF new
<1>5. Len(longer) = Len(u.nodes) + 1 /\ Len(u.nodes) \in Nat
  <2> HIDE DEF NodeType
  <2> QED BY <1>1, <1>4
<1> HIDE DEF longer
<1>6. /\ first \in 1..(Len(u.nodes) + 1)
      /\ first # 1 => Len(u.nodes) + 1 - first + 1 = u.scrollBackBuffer
  BY <1>1, <1>5
<1> HIDE DEF first
<1> QED
  BY <1>3, <1>4, <1>5, <1>6 DEF longer

(* A line that begins an entry. *)
LEMMA EntryAdded ==
    ASSUME NEW before, NEW lines \in Seq(Line), NEW line \in Line,
           ~(StillOpen(before, lines) /\ Continues(line)),
           NEW u \in TailObject, Shown(before, lines, u.nodes),
           \E a \in Amounts : u.scrollBackBuffer = ScrollBack[a],
           NEW node \in NodeType, ~Remark(node), node.lines = <<line>>,
           node.kind = Entry(before, Append(lines, line), Len(lines) + 1).kind
    PROVE  /\ Shown(before, Append(lines, line), addToTail(u, node).nodes)
           /\ addToTail(u, node).logType = u.logType
           /\ addToTail(u, node).currentSection = u.currentSection
           /\ addToTail(u, node).scrollBackBuffer = u.scrollBackBuffer
<1>1. PICK new \in NodeType, first \in 1..(Len(u.nodes) + 1) :
              /\ new.kind = node.kind /\ new.lines = node.lines
              /\ first # 1 => Len(u.nodes) + 1 - first + 1 = u.scrollBackBuffer
              /\ addToTail(u, node) =
                    [u EXCEPT !.nodes =
                        SubSeq(Append(u.nodes, new), first, Len(u.nodes) + 1)]
  BY AddedToTail
<1> DEFINE nodes == u.nodes
           longer == Append(nodes, new)
           rest == SubSeq(longer, first, Len(nodes) + 1)
<1>2. nodes \in Seq(NodeType) /\ Len(nodes) \in Nat /\ u.scrollBackBuffer \in Nat \ {0}
  <2>1. nodes \in Seq(NodeType) /\ u.scrollBackBuffer \in Nat \ {0}
    BY DEF TailObject
  <2> HIDE DEF NodeType
  <2> QED BY <2>1
<1>3. new.kind \notin {"info", "br"}
  BY <1>1 DEF Remark
<1>4. Shown(before, Append(lines, line), longer)
  <2>1. Shown(before, lines, nodes)
    OBVIOUS
  <2> HIDE DEF NodeType, nodes
  <2> QED BY <1>1, <1>2, <1>3, <2>1, ShownBegins
<1>5. /\ longer \in Seq(NodeType) /\ Len(longer) = Len(nodes) + 1
      /\ longer[Len(nodes) + 1] = new
  <2> HIDE DEF NodeType, nodes
  <2> QED BY <1>2
<1>6. Append(lines, line) \in Seq(Line)
  BY OneMore
<1> HIDE DEF longer, nodes
<1>7. Len(longer) \in Entries(longer)
  BY <1>2, <1>3, <1>5, NodesFacts
<1>8. first \in 1..Len(longer)
      /\ (first # 1 => \E a \in Amounts : Len(longer) - first + 1 >= ScrollBack[a])
  <2>1. first \in 1..Len(longer)
    BY <1>1, <1>5 DEF nodes
  <2>2. ASSUME first # 1 PROVE \E a \in Amounts : Len(longer) - first + 1 >= ScrollBack[a]
    <3>1. Len(longer) - first + 1 = u.scrollBackBuffer
      BY <1>1, <1>5, <2>2 DEF nodes
    <3>2. PICK a \in Amounts : u.scrollBackBuffer = ScrollBack[a]
      OBVIOUS
    <3> QED BY <1>2, <3>1, <3>2
  <2> QED BY <2>1, <2>2
<1>9. Shown(before, Append(lines, line), SubSeq(longer, first, Len(longer)))
  <2> DEFINE more == Append(lines, line)
  <2>1. more \in Seq(Line) /\ Shown(before, more, longer)
    BY <1>4, <1>6
  <2> HIDE DEF more
  <2>2. Shown(before, more, SubSeq(longer, first, Len(longer)))
    BY <1>5, <1>7, <1>8, <2>1, ShownDropped
  <2> QED BY <2>2 DEF more
<1>10. addToTail(u, node) = [u EXCEPT !.nodes = rest] /\ rest = SubSeq(longer, first, Len(longer))
  BY <1>1, <1>5 DEF longer, nodes
<1> HIDE DEF rest
<1>11. /\ addToTail(u, node).nodes = rest
       /\ addToTail(u, node).logType = u.logType
       /\ addToTail(u, node).currentSection = u.currentSection
       /\ addToTail(u, node).scrollBackBuffer = u.scrollBackBuffer
  BY <1>10, OtherNodes
<1> QED
  BY <1>9, <1>10, <1>11


(* The section that is extended is the last one. *)
LEMMA SectionIsLast ==
    ASSUME NEW t \in TailObject, NEW k \in DOMAIN t.nodes, t.nodes[k].kind = "section"
    PROVE  k <= SectionIndex(t)
<1> DEFINE n == Len(t.nodes)
           I == {i \in 1..n : t.nodes[i].kind = "section"}
<1>1. n \in Nat /\ DOMAIN t.nodes = 1..n
  <2>1. t.nodes \in Seq(NodeType)
    BY DEF TailObject
  <2> HIDE DEF NodeType
  <2> QED BY <2>1
<1>2. I \in SUBSET (1..n) /\ k \in I
  BY <1>1
<1>3. SectionIndex(t) = Max(I)
  BY <1>2 DEF SectionIndex, SelectLastInSeq
<1>4. \A y \in I : y <= OverLines!Max(I)
  BY <1>1, <1>2, OverLines!MaxExists
<1>5. Max(I) = OverLines!Max(I)
  BY DEF Max, OverLines!Max
<1> QED
  BY <1>2, <1>3, <1>4, <1>5

(* The last section, one line longer. *)
LEMMA SectionGrown ==
    ASSUME NEW t \in Views("("), t.currentSection, NEW line \in Line
    PROVE  \E nodes \in Seq(NodeType) :
              /\ addToSection(t, line) = [t EXCEPT !.nodes = nodes]
              /\ Len(nodes) = Len(t.nodes)
              /\ \E i \in 1..Len(t.nodes) :
                    /\ t.nodes[i].kind = "section" /\ nodes[i].kind = "section"
                    /\ nodes[i].lines = Append(t.nodes[i].lines, line)
                    /\ \A j \in 1..Len(t.nodes) : t.nodes[j].kind = "section" => j <= i
                    /\ \A j \in 1..Len(t.nodes) : j # i => nodes[j] = t.nodes[j]
<1> DEFINE i == SectionIndex(t)
           old == t.nodes[i]
           lines == Append(old.lines, line)
           shown == \/ old.shown
                    \/ /\ t.filterExpression # undefined
                       /\ Matches(t.filterExpression, lines)
           new == [old EXCEPT !.lines = lines, !.shown = shown]
           nodes == [t.nodes EXCEPT ![i] = new]
<1>1. /\ t \in TailObject /\ t.nodes \in Seq(NodeType) /\ Len(t.nodes) \in Nat
      /\ DOMAIN t.nodes = 1..Len(t.nodes)
      /\ \A k \in 1..Len(t.nodes) : t.nodes[k] \in NodeType
  BY ViewsFacts
<1>2. i \in 1..Len(t.nodes) /\ old.kind = "section"
  <2>1. \E k \in DOMAIN t.nodes : t.nodes[k].kind = "section"
    BY DEF Views
  <2> QED BY <1>1, <2>1, LastSection
<1>3. \A j \in 1..Len(t.nodes) : t.nodes[j].kind = "section" => j <= i
  BY <1>1, SectionIsLast
<1>4. old \in NodeType
  BY <1>1, <1>2
<1>5. addToSection(t, line) = [t EXCEPT !.nodes = nodes]
  <2>1. addToSection(t, line) = [t EXCEPT !.nodes[i].lines = lines, !.nodes[i].shown = shown]
    BY DEF addToSection
  <2>2. i \in DOMAIN t.nodes /\ t \in TailObject
    BY <1>1, <1>2
  <2>3. addToSection(t, line) = Extended(t, i, lines, shown)
    BY <2>1 DEF Extended
  <2>4. WithExtended(t, i, lines, shown, nodes)
    BY DEF WithExtended
  <2> HIDE DEF i, lines, shown, nodes
  <2> QED BY ONLY <2>2, <2>3, <2>4, ExtendedNodes
<1>6. addToSection(t, line) \in TailObject
  <2>1. "(" \in GrepTexts
    BY DEF GrepTexts
  <2> QED BY <2>1, SectionExtended, ViewsFacts
<1>7. nodes \in Seq(NodeType)
  <2> HIDE DEF nodes
  <2>1. addToSection(t, line).nodes = nodes
    BY <1>1, <1>5, OtherNodes
  <2> QED BY <1>6, <2>1 DEF TailObject
<1>8. new.kind = "section" /\ new.lines = lines
  <2> HIDE DEF lines, shown, old
  <2> QED BY <1>2, <1>4 DEF NodeType
<1> HIDE DEF new
<1>9. /\ Len(nodes) = Len(t.nodes) /\ nodes[i] = new
      /\ \A k \in 1..Len(t.nodes) : k # i => nodes[k] = t.nodes[k]
  <2> HIDE DEF i, NodeType
  <2> QED BY ONLY <1>1, <1>2, <1>7
<1>10. /\ old = t.nodes[i] /\ nodes[i].kind = "section"
       /\ nodes[i].lines = Append(t.nodes[i].lines, line)
  BY <1>8, <1>9
<1> HIDE DEF nodes, i, old
<1> QED
  BY <1>2, <1>3, <1>5, <1>7, <1>9, <1>10

(* Each line is shown with its entry, whichever that is. *)
LEMMA LineShown ==
    ASSUME NEW before, NEW lines \in Seq(Line), NEW line \in Line,
           NEW t \in Views("("), ShowsText(before, lines, t)
    PROVE  ShowsText(before, Append(lines, line), addLine(t, line))
<1> DEFINE more == Append(lines, line)
           n == Len(lines)
           first == IsSectionStart(line)
           request == IsRequest(line)
           type == TypeAt(before, more, n + 1)
<1>1. /\ n \in Nat /\ more \in Seq(Line) /\ Len(more) = n + 1 /\ n + 1 \in 1..Len(more)
      /\ more[n + 1] = line
  BY OneMore
<1>2. /\ t \in TailObject /\ t.nodes \in Seq(NodeType)
      /\ t.logType \in {undefined, ERROR_LOG, REQUEST_LOG} /\ t.currentSection \in BOOLEAN
  <2>1. t \in TailObject
    BY ViewsFacts
  <2> QED BY <2>1 DEF TailObject
<1>3. /\ t.logType = TypeAt(before, lines, n)
      /\ t.currentSection <=> StillOpen(before, lines)
      /\ t.currentSection => t.logType = ERROR_LOG
      /\ \E a \in Amounts : t.scrollBackBuffer = ScrollBack[a]
      /\ Shown(before, lines, t.nodes)
  BY DEF ShowsText
<1>4. type = IF t.logType # undefined THEN t.logType
             ELSE IF first THEN ERROR_LOG ELSE IF request THEN REQUEST_LOG ELSE undefined
  BY <1>3, TypeNext
<1>5. Opens(before, more, n + 1) <=> first /\ type = ERROR_LOG
  BY <1>1 DEF Opens
<1>6. StillOpen(before, more) <=>
          \/ StillOpen(before, lines) /\ Continues(line)
          \/ first /\ type = ERROR_LOG
  BY <1>5, StartsNext
<1>7. Entry(before, more, n + 1).kind =
          IF first /\ type = ERROR_LOG THEN "section"
          ELSE IF request /\ type = REQUEST_LOG THEN "request" ELSE "line"
  BY <1>1, <1>5, EntryIs
<1>8. ERROR_LOG # REQUEST_LOG /\ undefined # ERROR_LOG /\ undefined # REQUEST_LOG
  BY DEF ERROR_LOG, REQUEST_LOG, undefined
<1> HIDE DEF first, request, type, more, n
<1> DEFINE errors == t.logType \in {ERROR_LOG, undefined}
           requests == t.logType \in {REQUEST_LOG, undefined}
           ended == [t EXCEPT !.currentSection = FALSE]
           asErrors == [t EXCEPT !.logType = ERROR_LOG, !.currentSection = TRUE]
           asRequests == [ended EXCEPT !.logType = REQUEST_LOG]
           Continued == errors /\ t.currentSection /\ Continues(line)
<1>9. \A u \in {ended, asErrors, asRequests} :
          /\ u \in TailObject /\ u.nodes = t.nodes
          /\ u.scrollBackBuffer = t.scrollBackBuffer
  <2> HIDE DEF NodeType, Line, GrepTexts
  <2> QED BY <1>2 DEF TailObject
<1>10. /\ ended.logType = t.logType /\ ended.currentSection = FALSE
       /\ asErrors.logType = ERROR_LOG /\ asErrors.currentSection = TRUE
       /\ asRequests.logType = REQUEST_LOG /\ asRequests.currentSection = FALSE
  <2> HIDE DEF NodeType, Line, GrepTexts
  <2> QED BY <1>2 DEF TailObject
<1>11. addLine(t, line) =
          IF Continued THEN addToSection(t, line)
          ELSE IF errors /\ first THEN addToTail(asErrors, Node("section", <<line>>))
          ELSE IF requests /\ request THEN addToTail(asRequests, Node("request", <<line>>))
          ELSE addToTail(ended, Node("line", <<line>>))
  BY DEF addLine, first, request
<1>12. Continued <=> StillOpen(before, lines) /\ Continues(line)
  BY <1>3
<1> HIDE DEF ended, asErrors, asRequests
<1>13. \A kind \in {"section", "request", "line"} :
          LET node == Node(kind, <<line>>)
          IN  /\ node \in NodeType /\ ~Remark(node)
              /\ node.kind = kind /\ node.lines = <<line>>
  <2> DEFINE S == Seq(Tokens \cup {"file rotated", "file not found", "lost"})
  <2>1. line \in S
    <3> DEFINE A == Tokens \ {Newline}
               B == Tokens \cup {"file rotated", "file not found", "lost"}
    <3>1. A \subseteq B /\ line \in Seq(A)
      BY DEF Line
    <3> HIDE DEF A, B
    <3>2. line \in Seq(B)
      BY ONLY <3>1, WiderSeq
    <3> QED BY <3>2 DEF B
  <2> HIDE DEF S
  <2>2. <<line>> \in Seq(S)
    BY <2>1
  <2> QED BY <2>2 DEF Node, NodeType, Remark, S
<1>14. CASE Continued
  <2>1. PICK nodes \in Seq(NodeType) :
              /\ addToSection(t, line) = [t EXCEPT !.nodes = nodes]
              /\ Len(nodes) = Len(t.nodes)
              /\ \E i \in 1..Len(t.nodes) :
                    /\ t.nodes[i].kind = "section" /\ nodes[i].kind = "section"
                    /\ nodes[i].lines = Append(t.nodes[i].lines, line)
                    /\ \A j \in 1..Len(t.nodes) : t.nodes[j].kind = "section" => j <= i
                    /\ \A j \in 1..Len(t.nodes) : j # i => nodes[j] = t.nodes[j]
    BY <1>14, SectionGrown
  <2>2. StillOpen(before, lines) /\ Continues(line)
    BY <1>12, <1>14
  <2>3. Shown(before, more, nodes)
    <3> DEFINE shown == t.nodes
    <3>1. shown \in Seq(NodeType) /\ Shown(before, lines, shown)
      BY <1>2, <1>3
    <3>2. PICK i \in 1..Len(shown) :
                    /\ shown[i].kind = "section" /\ nodes[i].kind = "section"
                    /\ nodes[i].lines = Append(shown[i].lines, line)
                    /\ \A j \in 1..Len(shown) : shown[j].kind = "section" => j <= i
                    /\ \A j \in 1..Len(shown) : j # i => nodes[j] = shown[j]
      BY <2>1
    <3>3. Len(nodes) = Len(shown)
      BY <2>1
    <3> HIDE DEF shown, NodeType
    <3> QED BY <2>2, <3>1, <3>2, <3>3, ShownGrows DEF more
  <2>4. addLine(t, line) = [t EXCEPT !.nodes = nodes]
    BY <1>11, <1>14, <2>1
  <2>5. /\ addLine(t, line).nodes = nodes /\ addLine(t, line).logType = t.logType
        /\ addLine(t, line).currentSection = t.currentSection
        /\ addLine(t, line).scrollBackBuffer = t.scrollBackBuffer
    BY <1>2, <2>4, OtherNodes
  <2>6. type = t.logType /\ StillOpen(before, more) /\ t.currentSection
    BY <1>3, <1>4, <1>6, <1>8, <1>14, <2>2
  <2> QED BY <1>1, <1>3, <2>3, <2>5, <2>6 DEF ShowsText, more, n, type
<1>15. ASSUME ~Continued, NEW u \in {ended, asErrors, asRequests},
              NEW kind \in {"section", "request", "line"},
              addLine(t, line) = addToTail(u, Node(kind, <<line>>)),
              kind = Entry(before, more, n + 1).kind, u.logType = type,
              u.currentSection <=> first /\ type = ERROR_LOG
       PROVE  ShowsText(before, more, addLine(t, line))
  <2> DEFINE node == Node(kind, <<line>>)
             v == addToTail(u, node)
  <2>1. /\ node \in NodeType /\ ~Remark(node)
        /\ node.kind = kind /\ node.lines = <<line>>
    BY <1>13
  <2>2. /\ u \in TailObject /\ u.nodes = t.nodes
        /\ \E a \in Amounts : u.scrollBackBuffer = ScrollBack[a]
    BY <1>3, <1>9
  <2> HIDE DEF node
  <2>3. ~(StillOpen(before, lines) /\ Continues(line))
    BY <1>12, <1>15
  <2>4. /\ Shown(before, more, v.nodes) /\ v.logType = u.logType
        /\ v.currentSection = u.currentSection
        /\ v.scrollBackBuffer = u.scrollBackBuffer
    BY <1>3, <1>15, <2>1, <2>2, <2>3, EntryAdded DEF more, n
  <2>5. v = addLine(t, line)
    BY <1>15 DEF node
  <2> HIDE DEF v
  <2>6. StillOpen(before, more) <=> v.currentSection
    BY <1>6, <1>15, <2>3, <2>4
  <2>7. v.logType = TypeAt(before, more, Len(more))
    BY <1>1, <1>15, <2>4 DEF type
  <2>8. v.currentSection => v.logType = ERROR_LOG
    BY <1>15, <2>4
  <2>9. ShowsText(before, more, v)
    BY <2>2, <2>4, <2>6, <2>7, <2>8 DEF ShowsText
  <2> QED BY <2>5, <2>9
<1>16. CASE ~Continued /\ errors /\ first
  <2>1. /\ addLine(t, line) = addToTail(asErrors, Node("section", <<line>>))
        /\ type = ERROR_LOG /\ asErrors.logType = type
        /\ asErrors.currentSection <=> first /\ type = ERROR_LOG
        /\ Entry(before, more, n + 1).kind = "section"
    BY <1>4, <1>7, <1>8, <1>10, <1>11, <1>16
  <2> QED BY <1>15, <1>16, <2>1 DEF more
<1>17. CASE ~Continued /\ ~(errors /\ first) /\ requests /\ request
  <2>1. type = REQUEST_LOG
    BY <1>4, <1>8, <1>17
  <2>2. /\ addLine(t, line) = addToTail(asRequests, Node("request", <<line>>))
        /\ asRequests.logType = type
        /\ asRequests.currentSection <=> first /\ type = ERROR_LOG
        /\ Entry(before, more, n + 1).kind = "request"
    BY <1>7, <1>8, <1>10, <1>11, <1>17, <2>1
  <2> QED BY <1>15, <1>17, <2>2 DEF more
<1>18. CASE ~Continued /\ ~(errors /\ first) /\ ~(requests /\ request)
  <2>1. type = t.logType
    BY <1>2, <1>4, <1>8, <1>18
  <2>2. ~(first /\ type = ERROR_LOG) /\ ~(request /\ type = REQUEST_LOG)
    BY <1>18, <2>1
  <2>3. /\ addLine(t, line) = addToTail(ended, Node("line", <<line>>))
        /\ ended.logType = type
        /\ ended.currentSection <=> first /\ type = ERROR_LOG
        /\ Entry(before, more, n + 1).kind = "line"
    BY <1>7, <1>10, <1>11, <1>18, <2>1, <2>2
  <2> QED BY <1>15, <1>18, <2>3 DEF more
<1> QED
  BY <1>14, <1>16, <1>17, <1>18 DEF more


-----------------------------------------------------------------------------
(* The view of a text, message by message *)

(* The page's tail shows the lines of the text but the last, which waits.  *)
ShowsLines(before, text, t) ==
    /\ t.buffer = Last(Lines(text))
    /\ ShowsText(before, Front(Lines(text)), t)

(* The front and the last of what is concatenated. *)
LEMMA FrontConcat ==
    ASSUME NEW S, NEW s \in Seq(S), NEW t \in Seq(S), t # <<>>
    PROVE  Front(s \o t) = s \o Front(t) /\ Last(s \o t) = Last(t)
<1>1. /\ Len(s) \in Nat /\ Len(t) \in Nat /\ Len(t) >= 1 /\ s \o t \in Seq(S)
      /\ Len(s \o t) = Len(s) + Len(t)
      /\ \A i \in 1..Len(s) : (s \o t)[i] = s[i]
      /\ \A i \in 1..Len(t) : (s \o t)[Len(s) + i] = t[i]
  OBVIOUS
<1>2. Last(s \o t) = Last(t)
  BY <1>1 DEF Last
<1>3. /\ Front(t) \in Seq(S) /\ Len(Front(t)) = Len(t) - 1
      /\ t = Append(Front(t), Last(t)) /\ Last(t) \in S
  BY FrontLast
<1> DEFINE f == Front(t)
           l == Last(t)
           u == s \o f
<1> HIDE DEF f, l
<1>4. s \o Append(f, l) = Append(u, l)
  BY <1>3, OverLines!ConcatAppend DEF f, l
<1>5. s \o t = Append(u, l)
  BY <1>3, <1>4 DEF f, l
<1>6. u \in Seq(S)
  BY <1>3 DEF f
<1> HIDE DEF u
<1>7. Front(Append(u, l)) = u
  <2>1. l \in S /\ Len(u) \in Nat /\ Len(Append(u, l)) = Len(u) + 1
    BY <1>3, <1>6 DEF l
  <2>2. SubSeq(Append(u, l), 1, Len(u)) = SubSeq(u, 1, Len(u))
    BY <1>6, <2>1, PieceStays
  <2>3. SubSeq(u, 1, Len(u)) = u
    BY <1>6
  <2> QED BY <2>1, <2>2, <2>3 DEF Front
<1> QED
  BY <1>2, <1>5, <1>7 DEF u, f

(* However a text is cut, what is added to the view continues it           *)
(* (add, script.js 161-281).                                               *)
LEMMA TextAdded ==
    ASSUME NEW before, NEW text \in Seq(Tokens), NEW piece \in Seq(Tokens),
           NEW t \in Views("("), ShowsLines(before, text, t)
    PROVE  ShowsLines(before, text \o piece, add(t, piece))
<1> DEFINE f == Front(Lines(text))
           l == Last(Lines(text))
           M == Lines(l \o piece)
           g == Front(M)
           u == OverLines!Fold(t, g)
<1>1. /\ Lines(text \o piece) = f \o M /\ f \in Seq(Line) /\ l \in Seq(Tokens)
  BY LinesConcat
<1>2. /\ t.buffer = l /\ ShowsText(before, f, t)
  BY DEF ShowsLines
<1> HIDE DEF f, l
<1>3. l \o piece \in Seq(Tokens)
  <2> HIDE DEF Tokens
  <2> QED BY <1>1
<1>4. M \in Seq(Line) /\ M # <<>>
  BY <1>3, LinesType
<1>5. add(t, piece) = [u EXCEPT !.buffer = Last(M)]
  <2>1. add(t, piece) = [FoldLeft(addLine, t, Front(M)) EXCEPT !.buffer = Last(M)]
    BY <1>2 DEF add
  <2>2. FoldLeft(addLine, t, g) = u
    BY DEF FoldLeft, MapThenFoldSet, Max, OverLines!Fold, OverLines!FoldLeft,
           OverLines!MapThenFoldSet, OverLines!Max
  <2> QED BY <2>1, <2>2
<1> HIDE DEF M
<1>6. g \in Seq(Line) /\ Last(M) \in Line
  <2> HIDE DEF Line
  <2> QED BY <1>4, FrontLast
<1>7. Front(f \o M) = f \o g /\ Last(f \o M) = Last(M)
  <2> HIDE DEF Line
  <2> QED BY <1>1, <1>4, FrontConcat
<1> HIDE DEF g
<1> DEFINE V == Views("(")
           R == {p \in Seq(Line) \X V : ShowsText(before, p[1], p[2])}
<1>8. <<f, t>> \in R
  <2> DEFINE p == <<f, t>>
  <2>1. p \in Seq(Line) \X V /\ p[1] = f /\ p[2] = t
    BY <1>1
  <2> HIDE DEF p, V
  <2>2. p \in R
    BY <1>2, <2>1
  <2> QED BY <2>2 DEF p
<1>9. \A p \in R, x \in Line : <<Append(p[1], x), addLine(p[2], x)>> \in R
  <2> SUFFICES ASSUME NEW p \in R, NEW x \in Line
               PROVE  <<Append(p[1], x), addLine(p[2], x)>> \in R
    OBVIOUS
  <2> DEFINE a == p[1]
             v == p[2]
             q == <<Append(a, x), addLine(v, x)>>
  <2>1. a \in Seq(Line) /\ v \in V /\ ShowsText(before, a, v)
    OBVIOUS
  <2> HIDE DEF a, v
  <2>2. ShowsText(before, Append(a, x), addLine(v, x))
    BY <2>1, LineShown
  <2>3. addLine(v, x) \in V
    <3>1. "(" \in GrepTexts
      BY DEF GrepTexts
    <3> QED BY <2>1, <3>1, LineAdded
  <2>4. Append(a, x) \in Seq(Line)
    BY <2>1, OneMore
  <2> HIDE DEF V
  <2>5. q \in Seq(Line) \X V /\ q[1] = Append(a, x) /\ q[2] = addLine(v, x)
    BY <2>3, <2>4
  <2> HIDE DEF q
  <2>6. q \in R
    BY <2>2, <2>5
  <2> QED BY <2>6 DEF q, a, v
<1>10. R \subseteq Seq(Line) \X V
  OBVIOUS
<1>11. t \in V
  OBVIOUS
<1> HIDE DEF V
<1>12. <<f \o g, u>> \in R
  <2> HIDE DEF R, Line
  <2> QED BY <1>1, <1>6, <1>8, <1>9, <1>10, <1>11, OverLines!FoldFollows
<1> HIDE DEF u
<1>13. ShowsText(before, f \o g, u) /\ u \in V
  <2> DEFINE p == <<f \o g, u>>
  <2>1. p \in R /\ p[1] = f \o g /\ p[2] = u
    BY <1>12
  <2> HIDE DEF p
  <2>2. p[2] \in V /\ ShowsText(before, p[1], p[2])
    BY <2>1
  <2> QED BY <2>1, <2>2
<1>14. u \in TailObject
  BY <1>13, ViewsFacts DEF V
<1> DEFINE last == Last(M)
           w == [u EXCEPT !.buffer = last]
<1>15. /\ w.buffer = last /\ w.nodes = u.nodes /\ w.logType = u.logType
       /\ w.currentSection = u.currentSection /\ w.scrollBackBuffer = u.scrollBackBuffer
  <2> HIDE DEF NodeType, Line, GrepTexts, last
  <2> QED BY <1>14 DEF TailObject
<1>16. w = add(t, piece)
  BY <1>5
<1> HIDE DEF w, last
<1>17. ShowsText(before, f \o g, w)
  BY <1>13, <1>15 DEF ShowsText
<1>18. w.buffer = Last(f \o M) /\ Front(f \o M) = f \o g
  BY <1>7, <1>15 DEF last
<1> QED
  BY <1>1, <1>16, <1>17, <1>18 DEF ShowsLines

(* What changes neither the log's type nor the open section nor the waiting *)
(* line, and no node but by showing or hiding it, shows the same text,      *)
(* with remarks at its end or without.                                      *)
LEMMA TextStays ==
    ASSUME NEW before, NEW text, NEW t \in TailObject, NEW u \in TailObject,
           ShowsLines(before, text, t),
           u.logType = t.logType, u.currentSection = t.currentSection,
           u.buffer = t.buffer, \E a \in Amounts : u.scrollBackBuffer = ScrollBack[a],
           Len(u.nodes) >= Len(t.nodes),
           \A i \in 1..Len(t.nodes) :
               u.nodes[i].kind = t.nodes[i].kind /\ u.nodes[i].lines = t.nodes[i].lines,
           \A i \in (Len(t.nodes) + 1)..Len(u.nodes) : u.nodes[i].kind \in {"info", "br"}
    PROVE  ShowsLines(before, text, u)
<1> DEFINE lines == Front(Lines(text))
           old == t.nodes
           new == u.nodes
<1>1. old \in Seq(NodeType) /\ new \in Seq(NodeType)
  BY DEF TailObject
<1>2. ShowsText(before, lines, t) /\ t.buffer = Last(Lines(text))
  BY DEF ShowsLines
<1>3. Shown(before, lines, old)
  BY <1>2 DEF ShowsText
<1>4. /\ Len(new) >= Len(old)
      /\ \A i \in 1..Len(old) : new[i].kind = old[i].kind /\ new[i].lines = old[i].lines
      /\ \A i \in (Len(old) + 1)..Len(new) : new[i].kind \in {"info", "br"}
  OBVIOUS
<1> HIDE DEF lines, old, new, NodeType, TailObject
<1>5. Shown(before, lines, new)
  BY ONLY <1>1, <1>3, <1>4, ShownStays
<1>6. ShowsText(before, lines, u)
  BY <1>2, <1>5 DEF ShowsText, new
<1> QED
  BY <1>2, <1>6 DEF ShowsLines, lines


(* Nothing has been received, and nothing is shown. *)
LEMMA NothingShown ==
    ASSUME NEW t \in TailObject, t.nodes = <<>>, t.buffer = <<>>, ~t.currentSection,
           \E a \in Amounts : t.scrollBackBuffer = ScrollBack[a]
    PROVE  ShowsLines(t.logType, <<>>, t)
<1> DEFINE b == t.logType
<1>1. Lines(<<>>) = << <<>> >>
  <2>1. <<>> \in Line
    BY DEF Line
  <2> QED BY <2>1, LinesOfLine
<1>2. Last(<< <<>> >>) = <<>> /\ Front(<< <<>> >>) = <<>>
  BY DEF Last, Front
<1>3. TypeAt(b, <<>>, 0) = b
  <2>1. 1..0 = {}
    OBVIOUS
  <2>2. {k \in 1..0 : IsSectionStart(<<>>[k]) \/ IsRequest(<<>>[k])} = {}
    BY <2>1, Zenon
  <2> QED BY <2>2, Zenon DEF TypeAt
<1>4. Len(<<>>) = 0 /\ DOMAIN <<>> = {}
  OBVIOUS
<1>5. ~StillOpen(b, <<>>)
  <2>1. 1..0 = {}
    OBVIOUS
  <2> QED BY <1>4, <2>1, Zenon DEF StillOpen
<1>6. Entries(<<>>) = {} /\ Starts(b, <<>>) = {}
  BY <1>4, Zenon DEF Entries, Starts
<1>7. Shown(b, <<>>, <<>>)
  <2> DEFINE at == [i \in {} |-> 0]
  <2>1. at \in [{} -> {}]
    OBVIOUS
  <2> HIDE DEF at
  <2>2. Aligned(b, <<>>, <<>>, at)
    BY <1>6, Zenon DEF Aligned
  <2> QED BY <1>6, <2>1, <2>2, Zenon DEF Shown
<1> HIDE DEF b
<1>8. ShowsText(b, <<>>, t)
  BY <1>3, <1>4, <1>5, <1>7 DEF ShowsText, b
<1> QED
  BY <1>1, <1>2, <1>8 DEF ShowsLines, b

(* What is hidden or displayed remains what it is. *)
LEMMA Displayed ==
    ASSUME NEW old \in Seq(NodeType), NEW d \in [DOMAIN old -> BOOLEAN], NEW new,
           new = [i \in DOMAIN old |-> WithDisplay(old[i], d[i])]
    PROVE  /\ Len(new) = Len(old) /\ Len(old) \in Nat
           /\ \A i \in 1..Len(old) : new[i].kind = old[i].kind /\ new[i].lines = old[i].lines
<1>1. /\ Len(old) \in Nat /\ DOMAIN old = 1..Len(old)
      /\ \A i \in 1..Len(old) : old[i] \in NodeType
  <2> HIDE DEF NodeType
  <2> QED OBVIOUS
<1>2. \A i \in 1..Len(old) : new[i] = WithDisplay(old[i], d[i]) /\ d[i] \in BOOLEAN
  BY <1>1
<1>3. \A i \in 1..Len(old) : new[i].kind = old[i].kind /\ new[i].lines = old[i].lines
  BY <1>1, <1>2, NodeDisplayed
<1>4. DOMAIN new = 1..Len(old) /\ new = [i \in 1..Len(old) |-> new[i]]
  BY <1>1
<1>5. \A i \in 1..Len(old) : new[i] \in NodeType
  BY <1>1, <1>2, NodeDisplayed
<1> HIDE DEF NodeType
<1>6. new \in Seq(NodeType) /\ Len(new) = Len(old)
  BY ONLY <1>1, <1>4, <1>5, AsSequence
<1> QED
  BY <1>1, <1>3, <1>6

(* Another expression, and nothing else. *)
LEMMA OtherExpression ==
    ASSUME NEW t \in TailObject, NEW e \in ({undefined} \cup GrepTexts) \ {"", "("}
    PROVE  /\ [t EXCEPT !.filterExpression = e] \in TailObject
           /\ [t EXCEPT !.filterExpression = e].filterExpression = e
           /\ [t EXCEPT !.filterExpression = e].nodes = t.nodes
           /\ [t EXCEPT !.filterExpression = e].logType = t.logType
           /\ [t EXCEPT !.filterExpression = e].currentSection = t.currentSection
           /\ [t EXCEPT !.filterExpression = e].scrollBackBuffer = t.scrollBackBuffer
           /\ [t EXCEPT !.filterExpression = e].buffer = t.buffer
<1> HIDE DEF NodeType, Line, GrepTexts
<1> QED BY DEF TailObject

(* Filtering hides and displays, and does nothing else. *)
LEMMA TextFiltered ==
    ASSUME NEW before, NEW text, NEW t \in Views("("), ShowsLines(before, text, t),
           NEW g \in GrepTexts
    PROVE  ShowsLines(before, text, updateFilterExpressionFromUserInput(t, g))
<1> DEFINE u == updateFilterExpressionFromUserInput(t, g)
           old == t.nodes
<1>1. t \in TailObject /\ u \in TailObject /\ old \in Seq(NodeType)
  <2>1. t \in TailObject /\ u \in TailObject
    BY FilterUpdated, ViewsFacts
  <2> QED BY <2>1 DEF TailObject
<1>6. Len(old) \in Nat
  <2>1. \A nodes \in Seq(NodeType) : Len(nodes) \in Nat
    BY NodesFacts
  <2> QED BY <1>1, <2>1
<1>2. undefined \in ({undefined} \cup GrepTexts) \ {"", "("}
  BY DEF undefined
<1>3. ASSUME NEW e \in ({undefined} \cup GrepTexts) \ {"", "("}, NEW d \in [DOMAIN old -> BOOLEAN],
             u = [[t EXCEPT !.filterExpression = e] EXCEPT !.nodes =
                     [i \in DOMAIN old |-> WithDisplay(old[i], d[i])]]
      PROVE  /\ u.logType = t.logType /\ u.currentSection = t.currentSection
             /\ u.buffer = t.buffer /\ u.scrollBackBuffer = t.scrollBackBuffer
             /\ Len(u.nodes) = Len(old) /\ Len(old) \in Nat
             /\ \A i \in 1..Len(old) :
                   u.nodes[i].kind = old[i].kind /\ u.nodes[i].lines = old[i].lines
  <2> DEFINE v == [t EXCEPT !.filterExpression = e]
             new == [i \in DOMAIN old |-> WithDisplay(old[i], d[i])]
  <2>1. /\ v \in TailObject /\ v.logType = t.logType
        /\ v.currentSection = t.currentSection /\ v.buffer = t.buffer
        /\ v.scrollBackBuffer = t.scrollBackBuffer
    BY <1>1, OtherExpression
  <2>2. /\ Len(new) = Len(old) /\ Len(old) \in Nat
        /\ \A i \in 1..Len(old) : new[i].kind = old[i].kind /\ new[i].lines = old[i].lines
    <3> HIDE DEF old
    <3> QED BY <1>1, Displayed
  <2>3. u = [v EXCEPT !.nodes = new]
    BY <1>3
  <2> HIDE DEF v, new, u
  <2>4. /\ u.nodes = new /\ u.logType = v.logType /\ u.currentSection = v.currentSection
        /\ u.buffer = v.buffer /\ u.scrollBackBuffer = v.scrollBackBuffer
    BY <2>1, <2>3, OtherNodes
  <2> QED BY <2>1, <2>2, <2>4
<1>4. /\ u.logType = t.logType /\ u.currentSection = t.currentSection
      /\ u.buffer = t.buffer /\ u.scrollBackBuffer = t.scrollBackBuffer
      /\ Len(u.nodes) = Len(old) /\ Len(old) \in Nat
      /\ \A i \in 1..Len(old) :
            u.nodes[i].kind = old[i].kind /\ u.nodes[i].lines = old[i].lines
  <2>1. CASE g = ""
    <3> DEFINE v == [t EXCEPT !.filterExpression = undefined]
               d == [i \in DOMAIN old |-> TRUE]
    <3>1. u = [v EXCEPT !.nodes = [i \in DOMAIN v.nodes |-> WithDisplay(v.nodes[i], TRUE)]]
      BY <2>1 DEF updateFilterExpressionFromUserInput, showAllTailEntries
    <3>2. v.nodes = old
      BY <1>1, <1>2, OtherExpression
    <3>3. d \in [DOMAIN old -> BOOLEAN] /\ \A i \in DOMAIN old : d[i] = TRUE
      OBVIOUS
    <3> HIDE DEF d, v, u, old
    <3>4. [i \in DOMAIN v.nodes |-> WithDisplay(v.nodes[i], TRUE)]
             = [i \in DOMAIN old |-> WithDisplay(old[i], d[i])]
      BY <3>2, <3>3
    <3>5. u = [v EXCEPT !.nodes = [i \in DOMAIN old |-> WithDisplay(old[i], d[i])]]
      BY <3>1, <3>4
    <3> QED BY <1>2, <1>3, <3>3, <3>5 DEF v
  <2>2. CASE g = "("
    <3>1. u = [t EXCEPT !.filterExpression = undefined]
      BY <2>2 DEF updateFilterExpressionFromUserInput
    <3> HIDE DEF u, NodeType
    <3>2. /\ u.logType = t.logType /\ u.currentSection = t.currentSection
          /\ u.buffer = t.buffer /\ u.scrollBackBuffer = t.scrollBackBuffer
          /\ u.nodes = old
      BY <1>1, <1>2, <3>1, OtherExpression
    <3>3. Len(u.nodes) = Len(old)
      BY <3>2
    <3> QED BY <1>6, <3>2, <3>3
  <2>3. CASE g \notin {"", "("}
    <3> DEFINE v == [t EXCEPT !.filterExpression = g]
               d == [i \in DOMAIN old |-> Matches(g, old[i].lines)]
    <3>1. u = [v EXCEPT !.nodes = [i \in DOMAIN v.nodes |->
                WithDisplay(v.nodes[i], Matches(v.filterExpression, v.nodes[i].lines))]]
      BY <2>3 DEF updateFilterExpressionFromUserInput, applyFilterExpression
    <3>2. v.nodes = old /\ v.filterExpression = g
      BY <1>1, <2>3, OtherExpression
    <3>3. /\ d \in [DOMAIN old -> BOOLEAN]
          /\ \A i \in DOMAIN old : d[i] = Matches(g, old[i].lines)
      BY MatchesBoolean
    <3> HIDE DEF d, v, u, old
    <3>4. [i \in DOMAIN v.nodes |->
                WithDisplay(v.nodes[i], Matches(v.filterExpression, v.nodes[i].lines))]
             = [i \in DOMAIN old |-> WithDisplay(old[i], d[i])]
      BY <3>2, <3>3
    <3>5. u = [v EXCEPT !.nodes = [i \in DOMAIN old |-> WithDisplay(old[i], d[i])]]
      BY <3>1, <3>4
    <3> QED BY <1>3, <2>3, <3>3, <3>5 DEF v
  <2> QED BY <2>1, <2>2, <2>3
<1>5. \E a \in Amounts : t.scrollBackBuffer = ScrollBack[a]
  BY DEF ShowsLines, ShowsText
<1>7. \A i \in (Len(old) + 1)..Len(u.nodes) : u.nodes[i].kind \in {"info", "br"}
  <2> HIDE DEF u, old
  <2> QED BY <1>4
<1> HIDE DEF u, TailObject
<1>8. ShowsLines(before, text, u)
  BY <1>1, <1>4, <1>5, <1>7, TextStays
<1> QED
  BY <1>8 DEF u

(* A remark is no entry. *)
LEMMA TextRemarked ==
    ASSUME NEW before, NEW text, NEW t \in Views("("), ShowsLines(before, text, t),
           NEW remark \in Remarks
    PROVE  ShowsLines(before, text, info(t, remark))
<1> DEFINE T == Tokens \cup {"file rotated", "file not found", "lost"}
           old == t.nodes
           break == Node("br", <<>>)
           note == Node("info", <<<<remark>>>>)
           added == << break, note, break, break >>
           new == old \o added
           u == info(t, remark)
<1>1. t \in TailObject /\ u \in TailObject /\ old \in Seq(NodeType)
  <2>1. t \in TailObject /\ u \in TailObject
    BY Informed, ViewsFacts
  <2> QED BY <2>1 DEF TailObject
<1>2. u = [t EXCEPT !.nodes = new]
  BY DEF info
<1>3. break.kind = "br" /\ note.kind = "info"
  BY DEF Node
<1> HIDE DEF break, note
<1>4. /\ added \in Seq({break, note}) /\ Len(added) = 4
      /\ \A i \in 1..4 : added[i] \in {break, note}
  OBVIOUS
<1> HIDE DEF added, u
<1>5. /\ u.nodes = new /\ u.logType = t.logType /\ u.currentSection = t.currentSection
      /\ u.scrollBackBuffer = t.scrollBackBuffer /\ u.buffer = t.buffer
  BY <1>1, <1>2, OtherNodes
<1>6. /\ Len(new) = Len(old) + 4 /\ Len(old) \in Nat
      /\ \A i \in 1..Len(new) : new[i] = IF i <= Len(old) THEN old[i] ELSE added[i - Len(old)]
  <2> DEFINE N == NodeType \cup {break, note}
  <2>1. old \in Seq(N) /\ added \in Seq(N)
    <3>1. NodeType \subseteq N /\ {break, note} \subseteq N
      OBVIOUS
    <3> HIDE DEF N, NodeType, old
    <3> QED BY ONLY <1>1, <1>4, <3>1, WiderSeq
  <2> HIDE DEF N, old, NodeType
  <2>2. /\ Len(new) = Len(old) + Len(added)
        /\ \A i \in 1..Len(new) : new[i] = IF i <= Len(old) THEN old[i] ELSE added[i - Len(old)]
    <3>1. \E r : r = old \o added
      OBVIOUS
    <3> QED BY ONLY <2>1, <3>1, Concatenated
  <2>3. Len(old) \in Nat
    BY ONLY <2>1
  <2> QED BY <1>4, <2>2, <2>3
<1> HIDE DEF new
<1>7. \A i \in 1..Len(old) : new[i] = old[i]
  BY <1>6
<1>8. \A i \in (Len(old) + 1)..Len(new) : new[i].kind \in {"info", "br"}
  <2> SUFFICES ASSUME NEW i \in (Len(old) + 1)..Len(new) PROVE new[i].kind \in {"info", "br"}
    OBVIOUS
  <2>1. i \in 1..Len(new) /\ ~(i <= Len(old)) /\ i - Len(old) \in 1..4
    BY <1>6
  <2>2. new[i] \in {break, note}
    BY <1>4, <1>6, <2>1
  <2> QED BY <1>3, <2>2
<1>9. \E a \in Amounts : t.scrollBackBuffer = ScrollBack[a]
  BY DEF ShowsLines, ShowsText
<1>10. /\ Len(u.nodes) >= Len(t.nodes)
       /\ \A i \in 1..Len(t.nodes) :
             u.nodes[i].kind = t.nodes[i].kind /\ u.nodes[i].lines = t.nodes[i].lines
       /\ \A i \in (Len(t.nodes) + 1)..Len(u.nodes) : u.nodes[i].kind \in {"info", "br"}
  BY <1>5, <1>6, <1>7, <1>8
<1> HIDE DEF TailObject
<1>11. ShowsLines(before, text, u)
  BY <1>1, <1>5, <1>9, <1>10, TextStays
<1> QED
  BY <1>11 DEF u


-----------------------------------------------------------------------------
(* Whatever happens to the page *)

(* The page's tail shows what it has heard. *)
EntriesInv ==
    /\ heard \in [logType : {undefined, ERROR_LOG, REQUEST_LOG}, text : Seq(Tokens)]
    /\ ShowsLines(heard.logType, heard.text, tail)

(* A new page has heard nothing. *)
LEMMA EntriesInit == ASSUME Init PROVE EntriesInv
<1>1. PICK s \in Scenarios : grep \in s.greps /\ amount \in s.amounts
  BY DEF Init
<1> DEFINE size == ScrollBack[amount]
           t == InitialTail(size)
<1>2. amount \in Amounts /\ size \in Nat \ {0}
  BY <1>1, LogViewerAssumption
<1>3. t \in TailObject
  BY <1>2, InitialRight, ViewsFacts
<1>4. /\ t.nodes = <<>> /\ t.buffer = <<>> /\ t.currentSection = FALSE
      /\ t.logType = undefined /\ t.scrollBackBuffer = size
  BY DEF InitialTail
<1>5. tail = t /\ heard = [logType |-> undefined, text |-> <<>>]
  BY DEF Init
<1> HIDE DEF t
<1>6. ShowsLines(t.logType, <<>>, t)
  BY <1>2, <1>3, <1>4, NothingShown
<1>7. <<>> \in Seq(Tokens)
  OBVIOUS
<1> HIDE DEF Tokens
<1> QED
  BY <1>4, <1>5, <1>6, <1>7 DEF EntriesInv

(* What is heard anew, of a tail that was cleared. *)
LEMMA HeardAnew ==
    ASSUME NEW t \in TailObject, heard' = Heard(t), tail' \in TailObject,
           tail'.logType = t.logType, tail'.nodes = <<>>, tail'.buffer = <<>>,
           ~tail'.currentSection, \E a \in Amounts : tail'.scrollBackBuffer = ScrollBack[a]
    PROVE  EntriesInv'
<1>1. t.logType \in {undefined, ERROR_LOG, REQUEST_LOG}
  BY DEF TailObject
<1>2. ShowsLines(tail'.logType, <<>>, tail')
  BY NothingShown
<1>3. <<>> \in Seq(Tokens)
  OBVIOUS
<1> HIDE DEF Tokens
<1>4. /\ heard' \in [logType : {undefined, ERROR_LOG, REQUEST_LOG}, text : Seq(Tokens)]
      /\ heard'.logType = t.logType /\ heard'.text = <<>>
  BY <1>1, <1>3 DEF Heard
<1> QED
  BY <1>2, <1>4 DEF EntriesInv

(* Each step shows what is heard, and hears what is shown. *)
LEMMA EntriesNext ==
    ASSUME SystemInv, PageInv, EntriesInv, [Next]_vars
    PROVE  EntriesInv'
<1>0. /\ tail \in TailObject /\ tail \in Views("(") /\ grep \in GrepTexts
      /\ ShowsLines(heard.logType, heard.text, tail)
      /\ \E a \in Amounts : tail.scrollBackBuffer = ScrollBack[a]
      /\ heard \in [logType : {undefined, ERROR_LOG, REQUEST_LOG}, text : Seq(Tokens)]
  BY ViewsFacts DEF PageInv, EntriesInv, ShowsLines, ShowsText
<1>a. ASSUME UNCHANGED <<tail, heard>> PROVE EntriesInv'
  BY <1>a DEF EntriesInv
<1>b. ASSUME ShowsLines(heard.logType, heard.text, tail'), UNCHANGED heard PROVE EntriesInv'
  BY <1>0, <1>b DEF EntriesInv
<1>c. /\ Cleared(tail) \in TailObject
      /\ Cleared(tail).nodes = <<>> /\ Cleared(tail).buffer = <<>>
      /\ Cleared(tail).currentSection = FALSE /\ Cleared(tail).logType = tail.logType
      /\ Cleared(tail).scrollBackBuffer = tail.scrollBackBuffer
  <2>1. Cleared(tail) \in TailObject
    BY <1>0, ClearedRight, ViewsFacts
  <2> HIDE DEF NodeType, Line, GrepTexts
  <2> QED BY <1>0, <2>1 DEF TailObject, Cleared
<1>1. CASE FirstOpen \/ GrepTimer
  <2>1. tail' = updateFilterExpressionFromUserInput(tail, grep) /\ UNCHANGED heard
    BY <1>1 DEF FirstOpen, GrepTimer
  <2>2. ShowsLines(heard.logType, heard.text, tail')
    BY <1>0, <2>1, TextFiltered
  <2> QED BY <1>b, <2>1, <2>2
<1>2. CASE Open
  <2>1. tail' = Cleared(tail) /\ heard' = Heard(tail)
    BY <1>2 DEF Open
  <2> HIDE DEF TailObject
  <2> QED BY <1>0, <1>c, <2>1, HeardAnew
<1>3. CASE Lose
  <2>1. tail' = info(tail, "lost") /\ UNCHANGED heard /\ "lost" \in Remarks
    BY <1>3 DEF Lose, Remarks
  <2>2. ShowsLines(heard.logType, heard.text, tail')
    BY <1>0, <2>1, TextRemarked
  <2> QED BY <1>b, <2>1, <2>2
<1>4. CASE Receive
  <2> DEFINE message == Head(down[connection])
  <2>1. /\ down[connection] # <<>>
        /\ \/ /\ message.type = "bytes" /\ tail' = add(tail, message.data)
              /\ heard' = [heard EXCEPT !.text = @ \o message.data]
           \/ /\ message.type # "bytes" /\ tail' = info(tail, message.data[1])
              /\ UNCHANGED heard
    BY <1>4 DEF Receive
  <2>2. message \in Message
    <3>1. down[connection] \in Seq(Message)
      BY DEF SystemInv, ServerInv, ConnectionInv
    <3> HIDE DEF Message
    <3> QED BY <2>1, <3>1
  <2>3. CASE message.type = "bytes"
    <3> DEFINE piece == message.data
    <3>1. piece \in Seq(Tokens)
      BY <2>2, <2>3 DEF Message
    <3>2. tail' = add(tail, piece) /\ heard' = [heard EXCEPT !.text = @ \o piece]
      BY <2>1, <2>3
    <3> HIDE DEF message, piece, Tokens
    <3>3. heard.text \in Seq(Tokens)
      BY <1>0
    <3>4. ShowsLines(heard.logType, heard.text \o piece, tail')
      BY <1>0, <3>1, <3>2, <3>3, TextAdded
    <3>5. heard.text \o piece \in Seq(Tokens)
      BY <3>1, <3>3
    <3> DEFINE text == heard.text \o piece
    <3>6. heard' = [heard EXCEPT !.text = text]
      BY <3>2
    <3> HIDE DEF text
    <3>7. /\ heard' \in [logType : {undefined, ERROR_LOG, REQUEST_LOG}, text : Seq(Tokens)]
          /\ heard'.logType = heard.logType /\ heard'.text = text
      BY <1>0, <3>5, <3>6 DEF text
    <3> QED BY <3>4, <3>7 DEF EntriesInv, text
  <2>4. CASE message.type # "bytes"
    <3>1. message.data[1] \in Remarks
      <4> DEFINE data == message.data
      <4>1. data = <<"file rotated">> \/ data = <<"file not found">>
        BY <2>2, <2>4 DEF Message
      <4>2. <<"file rotated">>[1] = "file rotated" /\ <<"file not found">>[1] = "file not found"
        BY ONLY TRUE
      <4> HIDE DEF data
      <4>3. data[1] = "file rotated" \/ data[1] = "file not found"
        BY ONLY <4>1, <4>2, Zenon
      <4> QED BY ONLY <4>3 DEF data, Remarks
    <3>2. tail' = info(tail, message.data[1]) /\ UNCHANGED heard
      BY <2>1, <2>4
    <3> DEFINE remark == message.data[1]
    <3> HIDE DEF remark
    <3>3. ShowsLines(heard.logType, heard.text, tail')
      BY <1>0, <3>1, <3>2, TextRemarked DEF remark
    <3> QED BY <1>b, <3>2, <3>3
  <2> QED BY <2>3, <2>4
<1>5. CASE toggleFollowMode
  <2>1. \/ tail' = [tail EXCEPT !.followMode = FALSE] /\ UNCHANGED heard
        \/ tail' = [Cleared(tail) EXCEPT !.followMode = TRUE] /\ heard' = Heard(tail)
    BY <1>5 DEF toggleFollowMode
  <2>2. CASE tail' = [tail EXCEPT !.followMode = FALSE] /\ UNCHANGED heard
    <3>1. /\ tail'.logType = tail.logType /\ tail'.currentSection = tail.currentSection
          /\ tail'.buffer = tail.buffer /\ tail'.nodes = tail.nodes
          /\ tail'.scrollBackBuffer = tail.scrollBackBuffer
      <4> HIDE DEF NodeType, Line, GrepTexts
      <4> QED BY <1>0, <2>2 DEF TailObject
    <3>2. ShowsLines(heard.logType, heard.text, tail')
      BY <1>0, <3>1 DEF ShowsLines, ShowsText
    <3> QED BY <1>b, <2>2, <3>2
  <2>3. CASE tail' = [Cleared(tail) EXCEPT !.followMode = TRUE] /\ heard' = Heard(tail)
    <3> DEFINE c == Cleared(tail)
    <3> HIDE DEF c
    <3>1. c \in TailObject /\ tail' = [c EXCEPT !.followMode = TRUE]
      BY <1>c, <2>3 DEF c
    <3>2. /\ tail' \in TailObject
          /\ tail'.logType = c.logType /\ tail'.currentSection = c.currentSection
          /\ tail'.buffer = c.buffer /\ tail'.nodes = c.nodes
          /\ tail'.scrollBackBuffer = c.scrollBackBuffer
      <4> HIDE DEF NodeType, Line, GrepTexts
      <4> QED BY ONLY <3>1 DEF TailObject
    <3> HIDE DEF TailObject
    <3> QED BY <1>0, <1>c, <2>3, <3>2, HeardAnew DEF c
  <2> QED BY <2>1, <2>2, <2>3
<1>6. CASE EditGrep
  BY <1>6, <1>a DEF EditGrep
<1>7. CASE ChangeAmount
  <2> DEFINE size == ScrollBack[amount']
  <2>1. /\ tail' = [tail EXCEPT !.scrollBackBuffer = size]
        /\ amount' \in Amounts /\ UNCHANGED heard
    BY <1>7 DEF ChangeAmount
  <2>2. \E a \in Amounts : size = ScrollBack[a]
    BY <2>1
  <2> HIDE DEF size
  <2>3. /\ tail'.logType = tail.logType /\ tail'.currentSection = tail.currentSection
        /\ tail'.buffer = tail.buffer /\ tail'.nodes = tail.nodes
        /\ tail'.scrollBackBuffer = size
    <3> HIDE DEF NodeType, Line, GrepTexts
    <3> QED BY <1>0, <2>1 DEF TailObject
  <2>4. ShowsLines(heard.logType, heard.text, tail')
    BY <1>0, <2>2, <2>3 DEF ShowsLines, ShowsText
  <2> QED BY <1>b, <2>1, <2>4
<1>8. CASE logfileParametersChanged
  <2> DEFINE size == ScrollBack[amount]
             t == InitialTail(size)
  <2>1. tail' = t /\ heard' = Heard(tail')
    BY <1>8 DEF logfileParametersChanged
  <2>2. amount \in Amounts /\ size \in Nat \ {0}
    BY LogViewerAssumption DEF SystemInv, ConnectionInv
  <2>3. t \in TailObject
    BY <2>2, InitialRight, ViewsFacts
  <2>4. /\ t.nodes = <<>> /\ t.buffer = <<>> /\ t.currentSection = FALSE
        /\ t.scrollBackBuffer = size
    BY DEF InitialTail
  <2> HIDE DEF t, TailObject
  <2> QED BY <2>1, <2>2, <2>3, <2>4, HeardAnew
<1>9. CASE Reconnect \/ ReceiveCommand
  BY <1>9, <1>a DEF Reconnect, ReceiveCommand
<1>10. CASE (\E c \in Connections : Server(c)) \/ Program \/ UNCHANGED vars
  <2>1. CASE \E c \in Connections : Server(c)
    BY <1>a, <2>1 DEF Server, pageVars
  <2>2. CASE Program \/ UNCHANGED vars
    BY <1>a, <2>2 DEF Program, pageVars, vars
  <2> QED BY <1>10, <2>1, <2>2
<1> QED
  BY <1>1, <1>2, <1>3, <1>4, <1>5, <1>6, <1>7, <1>8, <1>9, <1>10 DEF Next


(* One to one between finite sets of numbers. *)
LEMMA OneToOne ==
    ASSUME NEW n \in Nat, NEW A, NEW B \in SUBSET (1..n), NEW f \in [A -> B],
           \A x, y \in A : f[x] = f[y] => x = y
    PROVE  /\ Cardinality(A) = Cardinality(B) <=> \A b \in B : \E a \in A : f[a] = b
           /\ Cardinality(A) <= Cardinality(B)
           /\ Cardinality(A) \in Nat /\ Cardinality(B) \in Nat
<1>1. IsFiniteSet(1..n)
  <2>1. 1 \in Int /\ n \in Int
    OBVIOUS
  <2> QED BY <2>1, FS_Interval
<1>2. IsFiniteSet(B)
  BY <1>1, FS_Subset
<1>3. f \in Injection(A, B)
  <2>1. DOMAIN f = A
    OBVIOUS
  <2> QED BY <2>1 DEF Injection, IsInjective
<1>4. /\ IsFiniteSet(A) /\ Cardinality(A) <= Cardinality(B)
      /\ Cardinality(A) = Cardinality(B) <=> f \in Surjection(A, B)
  BY <1>2, <1>3, FS_Injection
<1>5. Cardinality(A) \in Nat /\ Cardinality(B) \in Nat
  BY <1>2, <1>4, FS_CardinalityType
<1> QED
  BY <1>4, <1>5 DEF Surjection

(* What the page says of the entries it shows, counted from the end. *)
LEMMA WhatIsShown ==
    ASSUME NEW before, NEW lines \in Seq(Line), NEW nodes \in Seq(NodeType),
           Shown(before, lines, nodes)
    PROVE  LET starts == Starts(before, lines)
               shown == Entries(nodes)
               After(set, i) == Cardinality({j \in set : j > i})
           IN  /\ \A i \in shown : \E s \in starts :
                     /\ After(shown, i) = After(starts, s)
                     /\ nodes[i].kind = Entry(before, lines, s).kind
                     /\ nodes[i].lines = Entry(before, lines, s).lines
               /\ Cardinality(shown) < Cardinality(starts) =>
                     \E a \in Amounts : Len(nodes) >= ScrollBack[a]
<1> DEFINE N == Entries(nodes)
           S == Starts(before, lines)
           n == Len(lines)
<1>1. /\ n \in Nat /\ S \in SUBSET (1..n) /\ N \subseteq Nat
  <2>1. n \in Nat /\ DOMAIN lines = 1..n
    <3> HIDE DEF Line
    <3> QED OBVIOUS
  <2>2. S \subseteq DOMAIN lines
    BY DEF Starts
  <2>3. N \subseteq 1..Len(nodes) /\ Len(nodes) \in Nat
    BY NodesFacts
  <2> HIDE DEF S, N, n
  <2>4. N \subseteq Nat
    <3>1. 1..Len(nodes) \subseteq Nat
      BY <2>3
    <3> QED BY <2>3, <3>1
  <2> QED BY <2>1, <2>2, <2>4
<1>2. PICK at \in [N -> S] : Aligned(before, lines, nodes, at)
  BY DEF Shown
<1> HIDE DEF N, S, n
<1>3. /\ \A i, j \in N : i < j => at[i] < at[j]
      /\ \A i \in N, s \in S : at[i] < s => \E j \in N : at[j] = s
      /\ \A i \in N : /\ nodes[i].kind = Entry(before, lines, at[i]).kind
                      /\ nodes[i].lines = Entry(before, lines, at[i]).lines
      /\ \/ \A s \in S : \E j \in N : at[j] = s
         \/ \E a \in Amounts : Len(nodes) >= ScrollBack[a]
  BY <1>2 DEF Aligned, N, S
<1>4. \A i \in N : at[i] \in S /\ at[i] \in Nat /\ i \in Nat
  <2>1. 1..n \subseteq Nat
    BY <1>1
  <2>2. S \subseteq Nat
    BY <1>1, <2>1
  <2>3. \A i \in N : at[i] \in S
    BY <1>2
  <2> QED BY <1>1, <2>2, <2>3
<1>5. \A i, j \in N : at[i] = at[j] => i = j
  <2> SUFFICES ASSUME NEW i \in N, NEW j \in N, at[i] = at[j] PROVE i = j
    OBVIOUS
  <2>1. ~(i < j) /\ ~(j < i)
    <3>1. ~(at[i] < at[j]) /\ ~(at[j] < at[i])
      BY <1>4
    <3> QED BY <1>3, <3>1
  <2> QED BY <1>4, <2>1
<1>6. ASSUME NEW i \in N
      PROVE  Cardinality({j \in N : j > i}) = Cardinality({r \in S : r > at[i]})
  <2> DEFINE A == {j \in N : j > i}
             B == {r \in S : r > at[i]}
             f == [j \in A |-> at[j]]
  <2>1. B \in SUBSET (1..n)
    BY <1>1
  <2>2. \A j \in A : j \in N /\ at[j] \in S /\ at[i] < at[j]
    BY <1>3, <1>4
  <2>3. \A j \in A : f[j] = at[j] /\ f[j] \in B
    BY <1>4, <2>2
  <2>4. f \in [A -> B]
    BY <2>3
  <2>5. \A x, y \in A : f[x] = f[y] => x = y
    BY <1>5, <2>2, <2>3
  <2>6. \A b \in B : \E a \in A : f[a] = b
    <3> SUFFICES ASSUME NEW b \in B PROVE \E a \in A : f[a] = b
      OBVIOUS
    <3>1. b \in S /\ at[i] < b
      BY <1>1, <1>4
    <3>2. PICK j \in N : at[j] = b
      BY <1>3, <3>1
    <3>3. ~(j < i) /\ j # i
      <4>1. ~(at[j] < at[i]) /\ at[j] # at[i]
        BY <1>4, <3>1, <3>2
      <4> QED BY <1>3, <4>1
    <3>4. j \in A
      BY <1>4, <3>3
    <3> QED BY <2>3, <3>2, <3>4
  <2> HIDE DEF A, B, f
  <2>7. Cardinality(A) = Cardinality(B)
    BY <1>1, <2>1, <2>4, <2>5, <2>6, OneToOne
  <2> QED BY <2>7 DEF A, B
<1>7. ASSUME Cardinality(N) < Cardinality(S)
      PROVE  \E a \in Amounts : Len(nodes) >= ScrollBack[a]
  <2>1. SUFFICES ASSUME \A s \in S : \E j \in N : at[j] = s PROVE FALSE
    BY <1>3
  <2>2. Cardinality(N) = Cardinality(S)
    BY <1>1, <1>2, <1>5, <2>1, OneToOne
  <2>3. Cardinality(S) \in Nat
    <3>1. S \in SUBSET (1..n) /\ IsFiniteSet(1..n)
      <4>1. 1 \in Int /\ n \in Int
        BY <1>1
      <4> QED BY <1>1, <4>1, FS_Interval
    <3> QED BY <3>1, FS_Subset, FS_CardinalityType
  <2> QED BY <1>7, <2>2, <2>3
<1>8. ASSUME NEW i \in N
      PROVE  \E s \in S : /\ Cardinality({j \in N : j > i}) = Cardinality({r \in S : r > s})
                          /\ nodes[i].kind = Entry(before, lines, s).kind
                          /\ nodes[i].lines = Entry(before, lines, s).lines
  <2>1. at[i] \in S
    BY <1>4
  <2> QED BY <1>3, <1>6, <2>1
<1> QED
  BY <1>7, <1>8 DEF N, S


(* However the text is cut into messages, and whatever is filtered, cleared *)
(* and lost meanwhile, the view shows the last entries of what has been     *)
(* received, each with all of its lines and nothing but them, and the line  *)
(* that is not terminated waits (add, script.js 161-281).                   *)
THEOREM EntriesWhole == Spec => []EntriesAreWhole
<1>1. Init => ViewerInv /\ EntriesInv
  BY ViewerInit, EntriesInit
<1>2. ViewerInv /\ EntriesInv /\ [Next]_vars => (ViewerInv /\ EntriesInv)'
  <2> SUFFICES ASSUME ViewerInv, EntriesInv, [Next]_vars PROVE ViewerInv' /\ EntriesInv'
    OBVIOUS
  <2>1. SystemInv /\ PageInv
    BY DEF ViewerInv, FollowInv
  <2> QED BY <2>1, ViewerNext, EntriesNext
<1>3. ViewerInv /\ EntriesInv => EntriesAreWhole
  <2> SUFFICES ASSUME ViewerInv, EntriesInv PROVE EntriesAreWhole
    OBVIOUS
  <2> DEFINE before == heard.logType
             all == Lines(heard.text)
             lines == Front(all)
             nodes == tail.nodes
  <2>1. nodes \in Seq(NodeType)
    <3>1. tail \in TailObject
      BY ViewsFacts DEF ViewerInv, PageInv
    <3> QED BY <3>1 DEF TailObject
  <2>2. lines \in Seq(Line)
    <3>1. all \in Seq(Line) /\ all # <<>>
      BY LinesType DEF EntriesInv
    <3> HIDE DEF all, Line
    <3> QED BY <3>1, FrontLast
  <2>3. tail.buffer = Last(all) /\ Shown(before, lines, nodes)
    BY DEF EntriesInv, ShowsLines, ShowsText
  <2> HIDE DEF before, all, lines, nodes, NodeType, Line
  <2>4. LET starts == Starts(before, lines)
            shown == Entries(nodes)
            After(set, i) == Cardinality({j \in set : j > i})
        IN  /\ \A i \in shown : \E s \in starts :
                  /\ After(shown, i) = After(starts, s)
                  /\ nodes[i].kind = Entry(before, lines, s).kind
                  /\ nodes[i].lines = Entry(before, lines, s).lines
            /\ Cardinality(shown) < Cardinality(starts) =>
                  \E a \in Amounts : Len(nodes) >= ScrollBack[a]
    BY <2>1, <2>2, <2>3, WhatIsShown
  <2> QED BY <2>3, <2>4 DEF EntriesAreWhole, before, all, lines, nodes
<1> QED
  BY <1>1, <1>2, <1>3, PTL DEF Spec

================================================================================
