----------------------------- MODULE MCLogViewer -----------------------------
(***************************************************************************)
(* A reader, for whom a file with every content of four tokens is read in  *)
(* pieces of two while the filter or the amount is changed, and followers  *)
(* who turn follow mode on and off while the file is written and rotated,  *)
(* while the connection is lost, or before they go to another page.        *)
(***************************************************************************)
EXTENDS LogViewer, TLC

None == [what \in {"load", "lose", "toggle", "grep", "amount", "write", "rotate"} |-> 0]

Reader == [contents |-> SeqOf(Tokens, 4), greps |-> {"", "x$"}, amounts |-> {4},
           budget |-> [None EXCEPT !["grep"] = 1]]

Follower == [contents |-> {<<Marker, Newline, Word>>}, greps |-> {""}, amounts |-> {1},
             budget |-> [None EXCEPT !["toggle"] = 1]]

MCScenarios ==
    { Reader,
      [Follower EXCEPT !.budget["toggle"] = 2, !.budget["write"] = 2,
                       !.budget["rotate"] = 1],
      [Follower EXCEPT !.budget["toggle"] = 3],
      [Follower EXCEPT !.budget["toggle"] = 2, !.budget["lose"] = 1],
      [Follower EXCEPT !.budget["load"] = 1],
      [Follower EXCEPT !.budget["amount"] = 1, !.budget["grep"] = 1] }

MCScrollBack == 1 :> 1 @@ 4 :> 3
==============================================================================
