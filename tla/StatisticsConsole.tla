--------------------------- MODULE StatisticsConsole ---------------------------
(***************************************************************************)
(* The page of the model statistics console: the filter field with its     *)
(* completion menu (jQuery UI, external) and the plots, one per model that *)
(* passes the filter.  A new filter fades out what is shown, asks the      *)
(* server for the statistics and shows those that pass; an answer that     *)
(* arrives shows its plots beside what is there.                           *)
(*                                                                         *)
(* Texts are told apart by what the parser says of them (FilterParser).    *)
(* Everything here runs in the one thread of the page: an action is the    *)
(* handling of one event.                                                  *)
(***************************************************************************)
EXTENDS Integers, FiniteSets

CONSTANTS
    Filters,        \* texts the parser accepts
    Rejected,       \* texts the parser rejects, of these
    Blanked,        \* ... those that begin with a blank
    Broken,         \* ... those on which an action of the parser throws
    MaxShows        \* bound on the number of visualisations

ASSUME TextsAssumption ==
    /\ Filters \cap Rejected = {}
    /\ {"", "default", "undefined"} \cap (Filters \cup Rejected) = {}
    /\ Blanked \subseteq Rejected
    /\ Broken \subseteq Rejected
    /\ MaxShows \in Nat \ {0}

Default == "default"        \* the text shown in the empty field
Undefined == "undefined"    \* no value, no filter

Texts == Filters \cup Rejected \cup {""}

Shown == Filters \cup {""}  \* what can be visualised, "" for all models

VARIABLES
    text,           \* filter.val()
    focused,        \* whether the field has the focus
    menuOpen,       \* whether the completion menu is open: ~filter.autoApply
    valid,          \* filter.valid
    lastValue,
    plots,          \* the wrappers, as the answers they stem from: [id, filter]
    fade,           \* the filter whose visualisation waits for the fading
    requests,       \* the requests under way: [id, filter]
    wanted,         \* history: the filter visualised last
    answered,       \* history: the filter of the answer that arrived last
    pasted,         \* history: the text was changed with the mouse, and has
                    \* not been processed since
    shows,          \* history: the number of visualisations
    hasty           \* history: one was begun before the one before was done

field == <<text, focused, menuOpen, valid, lastValue, pasted>>
view == <<plots, fade, requests, wanted, shows, hasty>>
vars == <<field, view, answered>>

Answer == [id : 1..MaxShows, filter : Shown]

TypeOK ==
    /\ text \in Texts \cup {Default}
    /\ focused \in BOOLEAN /\ menuOpen \in BOOLEAN /\ valid \in BOOLEAN
    /\ lastValue \in Texts \cup {Undefined}
    /\ plots \subseteq Answer /\ requests \subseteq Answer
    /\ fade \in Shown \cup {Undefined}
    /\ wanted \in Shown \cup {Undefined} /\ answered \in Shown \cup {Undefined}
    /\ shows \in 1..MaxShows
    /\ hasty \in BOOLEAN /\ pasted \in BOOLEAN

-----------------------------------------------------------------------------
(* Slip: plots that are there are not faded out. *)
VisualizeBeside(f) ==
    IF f = Undefined THEN UNCHANGED view
    ELSE /\ shows < MaxShows /\ shows' = shows + 1
         /\ wanted' = f
         /\ hasty' = (hasty \/ requests # {} \/ fade # Undefined)
         /\ requests' = requests \cup {[id |-> shows', filter |-> f]}
         /\ UNCHANGED <<plots, fade>>

(* visualize: a newer fading of the same elements ends the older one, which *)
(* then never asks the server.                                              *)
Visualize(f) ==
    IF f = Undefined THEN UNCHANGED view
    ELSE /\ shows < MaxShows /\ shows' = shows + 1
         /\ wanted' = f
         /\ hasty' = (hasty \/ requests # {} \/ fade # Undefined)
         /\ IF plots = {}
            THEN /\ requests' = requests \cup {[id |-> shows', filter |-> f]}
                 /\ UNCHANGED fade
            ELSE fade' = f /\ UNCHANGED requests
         /\ UNCHANGED plots

(* Slip: the text is processed as it is, whatever has been before. *)
ProcessAsItIs(t, force) ==
    IF t \in Rejected THEN [last |-> t, valid |-> FALSE, show |-> Undefined]
                      ELSE [last |-> t, valid |-> TRUE, show |-> t]

(* processFilterExpression(force): what it remembers, the mark it sets and  *)
(* what it visualises.                                                      *)
Process(t, force) ==
    LET any == plots # {}
        changed == IF t = "" THEN lastValue \notin {Undefined, ""} ELSE t # lastValue
        val == IF t = Default THEN "" ELSE t
        nothing == [last |-> lastValue, valid |-> valid, show |-> Undefined]
    IN  IF any /\ ~changed THEN nothing
        ELSE IF ~force /\ t = Default
             THEN [last |-> lastValue, valid |-> TRUE, show |-> IF any THEN Undefined ELSE ""]
        ELSE IF ~force /\ t = lastValue THEN nothing
        ELSE IF val \in Rejected THEN [last |-> val, valid |-> FALSE, show |-> Undefined]
        ELSE [last |-> val, valid |-> TRUE, show |-> val]

\* Nothing is done with a text that is known.  It may then keep the mark of
\* another one, that was pasted and gone before it was processed.
Known(t, force) ==
    LET done == Process(t, force) IN done.valid /\ done.show = Undefined

Handle(t, force) ==
    LET done == Process(t, force)
    IN  /\ lastValue' = done.last
        /\ valid' = done.valid
        /\ Visualize(done.show)

\* The text becomes t and is processed.
Apply(t, force) ==
    /\ text' = t
    /\ pasted' = (pasted /\ Known(t, force))
    /\ Handle(t, force)

(* Slip: the changes made with the menu open are not applied. *)
CloseMenuOnly(t, ifEmpty) ==
    /\ menuOpen' = FALSE
    /\ text' = IF t = "" THEN ifEmpty ELSE t
    /\ UNCHANGED <<lastValue, valid, pasted, view>>

(* The handler of close, with the text t: the text is processed, and if it  *)
(* is not valid the widget asks for suggestions.  If there are any the menu *)
(* opens again; a text that is accepted, which was known, is valid after    *)
(* all.                                                                     *)
CloseMenu(t, ifEmpty) ==
    LET done == Process(t, FALSE)
        again == ~done.valid /\ t \in Rejected \ Broken
        left == IF again /\ t \in Blanked THEN "" ELSE t
    IN  /\ menuOpen' = again
        /\ text' = IF left = "" THEN ifEmpty ELSE left
        /\ pasted' = (pasted /\ Known(t, FALSE))
        /\ lastValue' = done.last
        /\ valid' = (done.valid \/ t \in Filters)
        /\ Visualize(done.show)

-----------------------------------------------------------------------------
(* The page is loaded: processFilterExpression(), provideDefaultValue(). *)
Init ==
    /\ text = Default /\ focused = FALSE /\ menuOpen = FALSE
    /\ valid = TRUE /\ lastValue = ""
    /\ plots = {} /\ fade = Undefined
    /\ requests = {[id |-> 1, filter |-> ""]}
    /\ wanted = "" /\ answered = Undefined /\ shows = 1
    /\ hasty = FALSE /\ pasted = FALSE

Focus ==
    /\ ~focused
    /\ focused' = TRUE
    /\ text' = IF text = Default THEN "" ELSE text
    /\ UNCHANGED <<menuOpen, valid, lastValue, pasted, view, answered>>

\* The widget's own handler comes first and closes the menu.
BlurMenu ==
    /\ focused /\ menuOpen
    /\ focused' = FALSE
    /\ CloseMenu(text, Default)
    /\ UNCHANGED answered

\* Without a menu.  If the text is not the one of the focus the browser reports
\* a change, which processes it.
Blur ==
    /\ focused /\ ~menuOpen
    /\ focused' = FALSE
    /\ text' = IF text = "" THEN Default ELSE text
    /\ \/ pasted' = (pasted /\ Known(text, FALSE)) /\ Handle(text, FALSE)
       \/ UNCHANGED <<pasted, lastValue, valid, view>>
    /\ UNCHANGED <<menuOpen, answered>>

\* A key or a click in the field, with or without a change of the text, or an
\* item of the menu that gets the focus.
Type(t) ==
    /\ focused
    /\ IF menuOpen THEN text' = t /\ UNCHANGED <<valid, lastValue, pasted, view>>
                   ELSE Apply(t, FALSE)
    /\ UNCHANGED <<focused, menuOpen, answered>>

\* The text is changed with the mouse alone.  The event of a paste comes before
\* the change, so it is the text there was that is processed; cutting, and
\* dropping a text on the field, are not listened to.
Paste(t) ==
    /\ focused
    /\ text' = t /\ pasted' = TRUE
    /\ \/ ~menuOpen /\ Handle(text, FALSE)
       \/ UNCHANGED <<lastValue, valid, view>>
    /\ UNCHANGED <<focused, menuOpen, answered>>

\* Some time after a key the widget asks for suggestions; if there are none
\* the menu closes.
Search ==
    /\ focused
    /\ IF text \in Rejected
       THEN /\ valid' = FALSE
            /\ menuOpen' = (menuOpen \/ text \notin Broken)
            /\ text' = IF text \in Blanked \ Broken THEN "" ELSE text
            /\ UNCHANGED <<lastValue, pasted, view>>
       ELSE IF menuOpen
       THEN CloseMenu(text, "")
       ELSE /\ valid' = (valid \/ text # "")
            /\ UNCHANGED <<text, menuOpen, lastValue, pasted, view>>
    /\ UNCHANGED <<focused, answered>>

\* The widget gives the field the focus again.
SelectItem(t) ==
    /\ menuOpen
    /\ focused' = TRUE
    /\ CloseMenu(t, "")
    /\ UNCHANGED answered

\* The return key: the menu stays as it is.
Submit ==
    /\ focused
    /\ Apply(text, FALSE)
    /\ UNCHANGED <<focused, menuOpen, answered>>

ChooseExample(t) ==
    /\ ~focused
    /\ Apply(t, FALSE)
    /\ UNCHANGED <<focused, menuOpen, answered>>

\* The server has reset the statistics.
ResetStatistics ==
    /\ Apply(text, TRUE)
    /\ UNCHANGED <<focused, menuOpen, answered>>

-----------------------------------------------------------------------------
(* Slip: the end of the fading is missed. *)
FadeEndMissed ==
    /\ fade # Undefined
    /\ plots' = {}
    /\ fade' = Undefined
    /\ UNCHANGED <<field, requests, wanted, answered, shows, hasty>>

\* The last plot has faded out and is removed.
FadeEnd ==
    /\ fade # Undefined
    /\ plots' = {}
    /\ requests' = requests \cup {[id |-> shows, filter |-> fade]}
    /\ fade' = Undefined
    /\ UNCHANGED <<field, wanted, answered, shows, hasty>>

\* visualizeData: the plots of the models that pass, if any, are added and all
\* plots fade in, which ends a fading out that is under way.
Arrive(q) ==
    /\ q \in requests
    /\ requests' = requests \ {q}
    /\ plots' \in {plots, plots \cup {q}}
    /\ fade' = Undefined
    /\ answered' = q.filter
    /\ UNCHANGED <<field, wanted, shows, hasty>>

\* The request fails, or evaluating the filter throws.
Fail(q) ==
    /\ q \in requests
    /\ requests' = requests \ {q}
    /\ answered' = q.filter
    /\ UNCHANGED <<field, plots, fade, wanted, shows, hasty>>

Next ==
    \/ Focus
    \/ BlurMenu
    \/ Blur
    \/ \E t \in Texts : Type(t) \/ Paste(t) \/ SelectItem(t)
    \/ Search
    \/ Submit
    \/ \E t \in Filters : ChooseExample(t)
    \/ ResetStatistics
    \/ FadeEnd
    \/ \E q \in requests : Arrive(q) \/ Fail(q)

(* The browser ends every fading and every request. *)
Fairness ==
    /\ WF_vars(FadeEnd)
    /\ WF_vars(\E q \in requests : Arrive(q) \/ Fail(q))

Spec == Init /\ [][Next]_vars /\ Fairness

-----------------------------------------------------------------------------
Agrees ==
    IF text \in Rejected THEN ~valid
    ELSE wanted = (IF text = Default THEN "" ELSE text)

(* While the menu is open changes are not applied; whatever was typed and   *)
(* chosen meanwhile, once it is closed the field agrees with the view: it   *)
(* names the filter visualised last, or it is marked as not valid.  Only a  *)
(* text pasted with the mouse is left to the next event (script.js 130-170, *)
(* 417-448).                                                                *)
FieldAgrees == ~menuOpen /\ ~pasted => Agrees

(* script.js:358: by default, without the menu, any change to the filter    *)
(* field is applied automatically.                                          *)
AnyChangeApplied == ~menuOpen => Agrees

(* A user who waits for the plots before changing the filter again sees the *)
(* plots of one answer only, and when nothing is under way they are those   *)
(* of the filter (script.js 171-328).                                       *)
PatientSeesFilter ==
    ~hasty =>
        /\ Cardinality(plots) <= 1 /\ (requests # {} => plots = {})
        /\ requests = {} /\ fade = Undefined => \A p \in plots : p.filter = wanted

\* The inductive invariant behind PatientSeesFilter: one thing at a time, fading
\* out, a request or plots, is about what is wanted.
OneAtATime ==
    ~hasty =>
        /\ fade # Undefined => fade = wanted /\ requests = {}
        /\ \A p \in plots : plots = {p}
        /\ \A q \in requests : requests = {q} /\ q.filter = wanted /\ plots = {}
        /\ requests = {} /\ fade = Undefined => \A p \in plots : p.filter = wanted

(* ... and does see them: what is wanted is asked for and answered.         *)
PatientIsAnswered ==
    \A f \in Shown : wanted = f ~> (answered = f \/ wanted # f \/ hasty)

(* The comment of script.js 315-316: previously rendered diagrams are faded *)
(* out and removed before the new ones are shown.                           *)
OnlyNewDiagrams == \A p, q \in plots : p.filter = q.filter
==============================================================================
