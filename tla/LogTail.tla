------------------------------- MODULE LogTail -------------------------------
(***************************************************************************)
(* The server of the log viewer: for every connection a TailSocket, whose  *)
(* executor with a single thread runs one Tail after the other, and the    *)
(* log file they read, which is rotated: it goes, and a new one comes.     *)
(*                                                                         *)
(* A Tail keeps the channel of the file it has opened, and asks the file   *)
(* system about the file of that name: exists, length and read are three   *)
(* moments.  It ends where it looks at its flag, not where it is stopped.  *)
(***************************************************************************)
EXTENDS Integers, SequencesExt

CONSTANTS
    Connections,    \* 1..n, in the order they are made
    Chunk           \* what is read at once

ASSUME ChunkAssumption == Chunk \in Nat \ {0}

TAIL == "tail"
FOLLOW == "follow"

VARIABLES
    files,      \* the contents of the file and of those it replaces, the last one last
    exists,     \* whether there is a file of that name
    jobs,       \* per connection, the Tails of its executor: the first is run
    lost,       \* the connections that carry nothing any more
    closed,     \* those of them the server has been told about
    down        \* per connection, the messages on the way to the page

serverVars == <<files, exists, jobs, lost, closed, down>>

Bytes(text) == [type |-> "bytes", data |-> text]
String(text) == [type |-> "string", data |-> <<text>>]

length == IF exists THEN Len(Last(files)) ELSE 0

-----------------------------------------------------------------------------
(* TailSocket *)

NewTail(mode, bytesToTail) ==
    [mode |-> mode, bytesToTail |-> bytesToTail, stopped |-> FALSE,
     pc |-> "open", channel |-> 0, position |-> 0, totalBytesRead |-> 0]

\* Only the last Tail may not have been stopped before.
stopTail(tails) ==
    IF tails = <<>> THEN tails ELSE [tails EXCEPT ![Len(tails)].stopped = TRUE]

startTail(c, command) ==
    jobs' = [jobs EXCEPT ![c] =
                Append(stopTail(@), NewTail(command.mode, command.amount))]

\* A tail command, or stop.  A file that is not there is not found among the
\* log files: the command is ignored.
onWebSocketText(c, command) ==
    /\ IF command.mode = "stop" THEN jobs' = [jobs EXCEPT ![c] = stopTail(@)]
       ELSE IF exists THEN startTail(c, command)
       ELSE UNCHANGED jobs
    /\ UNCHANGED <<files, exists, closed>>

\* shutdownNow drops the Tails that wait and interrupts the one that runs.
onWebSocketClose(c) ==
    /\ c \in lost \ closed
    /\ closed' = closed \cup {c}
    /\ jobs' = [jobs EXCEPT ![c] = SubSeq(stopTail(@), 1, IF @ = <<>> THEN 0 ELSE 1)]
    /\ UNCHANGED <<files, exists, lost, down>>

-----------------------------------------------------------------------------
(* Tail.run: what happens to the first of a connection's Tails *)

Running(c, pc) == jobs[c] # <<>> /\ Head(jobs[c]).pc = pc

Resume(c, job) == jobs' = [jobs EXCEPT ![c] = <<job>> \o Tail(@)]

End(c) == jobs' = [jobs EXCEPT ![c] = Tail(@)]

\* What is sent where the connection is lost does not arrive.
Send(c, message) ==
    down' = IF c \in lost THEN down ELSE [down EXCEPT ![c] = Append(@, message)]

\* newByteChannel throws an exception where there is no file: nothing is said.
OpenChannel(c) ==
    /\ Running(c, "open")
    /\ IF exists
       THEN Resume(c, [Head(jobs[c]) EXCEPT !.pc = "locate", !.channel = Len(files)])
       ELSE End(c)
    /\ UNCHANGED <<files, exists, lost, closed, down>>

Locate(c) ==
    /\ Running(c, "locate")
    /\ LET job == Head(jobs[c])
           start == IF length > job.bytesToTail THEN length - job.bytesToTail ELSE 0
       IN  Resume(c, [job EXCEPT !.pc = "check", !.position = start])
    /\ UNCHANGED <<files, exists, lost, closed, down>>

CheckStopped(c) ==
    /\ Running(c, "check")
    /\ LET job == Head(jobs[c])
       IN  IF job.stopped THEN End(c) ELSE Resume(c, [job EXCEPT !.pc = "exists"])
    /\ UNCHANGED <<files, exists, lost, closed, down>>

\* The second look: there may have been a second between it and the first,
\* which only decides about that.
CheckExists(c) ==
    /\ Running(c, "exists")
    /\ IF exists
       THEN Resume(c, [Head(jobs[c]) EXCEPT !.pc = "length"]) /\ UNCHANGED down
       ELSE End(c) /\ Send(c, String("file not found"))
    /\ UNCHANGED <<files, exists, lost, closed>>

CheckLength(c) ==
    /\ Running(c, "length")
    /\ LET job == Head(jobs[c])
       IN  IF job.position > length THEN
               /\ Send(c, String("file rotated"))
               /\ IF exists
                  THEN Resume(c, [job EXCEPT !.pc = "read", !.position = 0,
                                             !.channel = Len(files)])
                  ELSE End(c)
           ELSE Resume(c, [job EXCEPT !.pc = "read"]) /\ UNCHANGED down
    /\ UNCHANGED <<files, exists, lost, closed>>

(* Slip: a tail ends only when it has read the amount it was asked for. *)
ReadToAmount(c) ==
    /\ Running(c, "read")
    /\ LET job == Head(jobs[c])
           available == Len(files[job.channel]) - job.position
           read == IF available > Chunk THEN Chunk ELSE available
           total == job.totalBytesRead + read
           position == job.position + read
       IN  IF available <= 0 THEN
               Resume(c, [job EXCEPT !.pc = "check"]) /\ UNCHANGED down
           ELSE
               /\ Send(c, Bytes(SubSeq(files[job.channel], job.position + 1, position)))
               /\ IF job.mode = TAIL /\ total >= job.bytesToTail THEN End(c)
                  ELSE Resume(c, [job EXCEPT !.pc = "check", !.position = position,
                                             !.totalBytesRead = total])
    /\ UNCHANGED <<files, exists, lost, closed>>

\* At the end of the channel a follower sleeps and begins again.
Read(c) ==
    /\ Running(c, "read")
    /\ LET job == Head(jobs[c])
           available == Len(files[job.channel]) - job.position
           read == IF available > Chunk THEN Chunk ELSE available
           total == job.totalBytesRead + read
           position == job.position + read
       IN  IF available <= 0 THEN
               /\ IF job.mode = TAIL THEN End(c)
                  ELSE Resume(c, [job EXCEPT !.pc = "check"])
               /\ UNCHANGED down
           ELSE
               /\ Send(c, Bytes(SubSeq(files[job.channel], job.position + 1, position)))
               /\ IF job.mode = TAIL /\ total >= job.bytesToTail THEN End(c)
                  ELSE Resume(c, [job EXCEPT !.pc = "check", !.position = position,
                                             !.totalBytesRead = total])
    /\ UNCHANGED <<files, exists, lost, closed>>

\* The interrupt of shutdownNow, or an exception of the closed connection.
Interrupt(c) ==
    /\ c \in closed /\ jobs[c] # <<>>
    /\ End(c)
    /\ UNCHANGED <<files, exists, lost, closed, down>>

Step(c) ==
    \/ OpenChannel(c)
    \/ Locate(c)
    \/ CheckStopped(c)
    \/ CheckExists(c)
    \/ CheckLength(c)
    \/ Read(c)
    \/ Interrupt(c)

-----------------------------------------------------------------------------
(* The program whose log it is *)

Write(token) ==
    /\ exists
    /\ files' = [files EXCEPT ![Len(files)] = Append(@, token)]
    /\ UNCHANGED <<exists, jobs, lost, closed, down>>

RotateAway ==
    /\ exists
    /\ exists' = FALSE
    /\ UNCHANGED <<files, jobs, lost, closed, down>>

Create ==
    /\ ~exists
    /\ exists' = TRUE
    /\ files' = Append(files, <<>>)
    /\ UNCHANGED <<jobs, lost, closed, down>>

==============================================================================
