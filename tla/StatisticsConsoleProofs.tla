------------------------ MODULE StatisticsConsoleProofs ------------------------
(***************************************************************************)
(* For all texts, and any number of visualisations: who waits for the      *)
(* plots before entering another filter sees those of the filter.  The     *)
(* argument is OneAtATime: a fading out, a request and an answer follow    *)
(* one another, and each is about the filter that is wanted.               *)
(* And the field agrees with the view: FieldInv says what was processed    *)
(* last has to do with the text, the mark and the filter that is wanted.   *)
(***************************************************************************)
EXTENDS StatisticsConsole, FiniteSetTheorems, TLAPS

Inv == TypeOK /\ OneAtATime

AnyText == Texts \cup {Default}

LEMMA SomeShows == MaxShows \in Nat /\ 1 <= MaxShows
  <1>1. MaxShows \in Nat \ {0}
    BY TextsAssumption
  <1> QED
    BY <1>1

-----------------------------------------------------------------------------
(* What processing a text gives: what is remembered and shown is a text the *)
(* parser was asked about, never the default value.                         *)
LEMMA ProcessRemembers ==
    ASSUME TypeOK, NEW t \in AnyText, NEW force
    PROVE  Process(t, force).last \in Texts \cup {Undefined}
  BY DEF TypeOK, Process, Texts, AnyText, Default

LEMMA ProcessShows ==
    ASSUME TypeOK, NEW t \in AnyText, NEW force
    PROVE  Process(t, force).show \in Shown \cup {Undefined}
  BY DEF TypeOK, Process, Texts, AnyText, Shown, Default

LEMMA ProcessMarks ==
    ASSUME TypeOK, NEW t \in AnyText, NEW force
    PROVE  Process(t, force).valid \in BOOLEAN
  BY Zenon DEF TypeOK, Process

-----------------------------------------------------------------------------
(* The view, and what becomes of it. *)

ViewOK ==
    /\ plots \subseteq Answer /\ requests \subseteq Answer
    /\ fade \in Shown \cup {Undefined}
    /\ wanted \in Shown \cup {Undefined}
    /\ shows \in 1..MaxShows
    /\ hasty \in BOOLEAN

LEMMA VisualizeTypes ==
    ASSUME TypeOK, NEW f \in Shown \cup {Undefined}, Visualize(f)
    PROVE  ViewOK'
  <1>1. CASE f = Undefined
    BY <1>1 DEF Visualize, view, ViewOK, TypeOK
  <1>2. CASE f # Undefined
    <2>1. shows' = shows + 1 /\ shows < MaxShows /\ wanted' = f
      BY <1>2 DEF Visualize
    <2>2. shows' \in 1..MaxShows
      <3>1. shows \in 1..MaxShows
        BY DEF TypeOK
      <3> QED
        BY <2>1, <3>1, SomeShows
    <2>3. f \in Shown
      BY <1>2
    <2>4. [id |-> shows', filter |-> f] \in Answer
      BY <2>2, <2>3 DEF Answer
    <2>5. requests' = requests \/ requests' = requests \cup {[id |-> shows', filter |-> f]}
      BY <1>2 DEF Visualize
    <2>6. requests' \subseteq Answer
      BY <2>4, <2>5 DEF TypeOK
    <2>7. plots' = plots /\ (fade' = fade \/ fade' = f)
      BY <1>2 DEF Visualize
    <2>8. hasty' \in BOOLEAN
      BY <1>2, Zenon DEF Visualize
    <2> QED
      BY <2>1, <2>2, <2>3, <2>6, <2>7, <2>8 DEF ViewOK, TypeOK
  <1> QED
    BY <1>1, <1>2

LEMMA VisualizeOne ==
    ASSUME OneAtATime, NEW f \in Shown \cup {Undefined}, Visualize(f)
    PROVE  OneAtATime'
  <1>1. CASE f = Undefined
    BY <1>1 DEF Visualize, view, OneAtATime
  <1>2. CASE f # Undefined
    <2>1. SUFFICES ASSUME ~hasty'
                   PROVE  /\ fade' # Undefined => fade' = wanted' /\ requests' = {}
                          /\ \A p \in plots' : plots' = {p}
                          /\ \A q \in requests' : requests' = {q} /\ q.filter = wanted'
                                                  /\ plots' = {}
                          /\ requests' = {} /\ fade' = Undefined =>
                                \A p \in plots' : p.filter = wanted'
      BY DEF OneAtATime
    <2>2. ~hasty /\ requests = {} /\ fade = Undefined
      BY <1>2, <2>1, Zenon DEF Visualize
    <2>3. \A p \in plots : plots = {p}
      BY <2>2 DEF OneAtATime
    <2>4. plots' = plots /\ wanted' = f
      BY <1>2 DEF Visualize
    <2>5. CASE plots = {}
      <3>1. requests' = {[id |-> shows', filter |-> f]} /\ fade' = Undefined
        BY <1>2, <2>2, <2>5 DEF Visualize
      <3> QED
        BY <2>4, <2>5, <3>1
    <2>6. CASE plots # {}
      <3>1. requests' = {} /\ fade' = f
        BY <1>2, <2>2, <2>6 DEF Visualize
      <3> QED
        BY <1>2, <2>3, <2>4, <3>1
    <2> QED
      BY <2>5, <2>6
  <1> QED
    BY <1>1, <1>2

\* What is done with a text that is processed.
LEMMA HandleKeepsInv ==
    ASSUME Inv, NEW t \in AnyText, NEW force, Handle(t, force), answered' = answered,
           text' \in AnyText, focused' \in BOOLEAN, menuOpen' \in BOOLEAN,
           pasted' \in BOOLEAN
    PROVE  Inv'
  <1> DEFINE done == Process(t, force)
  <1>1. done.last \in Texts \cup {Undefined} /\ done.show \in Shown \cup {Undefined}
    BY ProcessRemembers, ProcessShows DEF Inv
  <1>2. done.valid \in BOOLEAN
    BY ProcessMarks DEF Inv
  <1>3. lastValue' = done.last /\ valid' = done.valid /\ Visualize(done.show)
    BY DEF Handle
  <1> HIDE DEF done
  <1>4. ViewOK' /\ OneAtATime'
    BY <1>1, <1>3, VisualizeTypes, VisualizeOne DEF Inv
  <1>5. valid' \in BOOLEAN
    BY <1>2, <1>3
  <1> QED
    BY <1>1, <1>3, <1>4, <1>5 DEF Inv, TypeOK, ViewOK, AnyText

LEMMA HandlesUnforced ==
    ASSUME Inv, NEW t \in AnyText, Handle(t, FALSE), answered' = answered,
           text' \in AnyText, focused' \in BOOLEAN, menuOpen' \in BOOLEAN,
           pasted' \in BOOLEAN
    PROVE  Inv'
  <1>1. PICK force : force = FALSE
    OBVIOUS
  <1>2. Handle(t, force)
    BY <1>1, Zenon
  <1> QED
    BY <1>2, HandleKeepsInv

LEMMA ApplyKeepsInv ==
    ASSUME Inv, NEW t \in AnyText, NEW force \in BOOLEAN, Apply(t, force),
           answered' = answered, focused' \in BOOLEAN, menuOpen' \in BOOLEAN
    PROVE  Inv'
  <1>1. text' = t /\ Handle(t, force)
    BY DEF Apply
  <1>2. pasted' \in BOOLEAN
    BY Zenon DEF Apply
  <1> QED
    BY <1>1, <1>2, HandleKeepsInv

LEMMA CloseMenuKeepsInv ==
    ASSUME Inv, NEW t \in AnyText, NEW ifEmpty \in {"", Default}, CloseMenu(t, ifEmpty),
           answered' = answered, focused' \in BOOLEAN
    PROVE  Inv'
  <1> DEFINE done == Process(t, FALSE)
             again == ~done.valid /\ t \in Rejected \ Broken
             left == IF again /\ t \in Blanked THEN "" ELSE t
  <1>1. PICK force : force = FALSE
    OBVIOUS
  <1>2. Process(t, force).last \in Texts \cup {Undefined}
        /\ Process(t, force).show \in Shown \cup {Undefined}
    BY ProcessRemembers, ProcessShows DEF Inv
  <1>4. done = Process(t, force)
    BY <1>1, Zenon
  <1>5. /\ menuOpen' = again /\ text' = (IF left = "" THEN ifEmpty ELSE left)
        /\ lastValue' = done.last /\ valid' = (done.valid \/ t \in Filters)
        /\ Visualize(done.show)
    BY DEF CloseMenu
  <1>6. again \in BOOLEAN /\ left \in AnyText
    BY Zenon DEF Texts, AnyText
  <1> HIDE DEF done, again, left
  <1>7. ViewOK' /\ OneAtATime'
    BY <1>2, <1>4, <1>5, VisualizeTypes, VisualizeOne DEF Inv
  <1>8. valid' \in BOOLEAN /\ menuOpen' \in BOOLEAN /\ pasted' \in BOOLEAN
    BY <1>5, <1>6, Zenon DEF CloseMenu
  <1>9. text' \in Texts \cup {Default} /\ lastValue' \in Texts \cup {Undefined}
    BY <1>2, <1>4, <1>5, <1>6 DEF Texts, AnyText
  <1> QED
    BY <1>7, <1>8, <1>9 DEF Inv, TypeOK, ViewOK

\* What changes of the field alone leave as it was.
LEMMA ViewStays ==
    ASSUME Inv, UNCHANGED view
    PROVE  ViewOK' /\ OneAtATime'
  BY DEF Inv, TypeOK, view, ViewOK, OneAtATime

-----------------------------------------------------------------------------
LEMMA InvInit == Init => Inv
  <1> SUFFICES ASSUME Init PROVE Inv
    OBVIOUS
  <1>1. shows = 1 /\ 1 \in 1..MaxShows
    <2>1. shows = 1
      BY Zenon DEF Init
    <2> QED
      BY <2>1, SomeShows
  <1>2. [id |-> 1, filter |-> ""] \in Answer
    BY <1>1 DEF Answer, Shown
  <1>3. requests = {[id |-> 1, filter |-> ""]} /\ wanted = "" /\ plots = {}
        /\ fade = Undefined
    BY DEF Init
  <1>4. OneAtATime
    <2> DEFINE first == [id |-> 1, filter |-> ""]
    <2>1. first.filter = wanted /\ requests = {first}
      BY <1>3
    <2> HIDE DEF first
    <2> QED
      BY <1>3, <2>1 DEF OneAtATime
  <1>5. focused \in BOOLEAN /\ menuOpen \in BOOLEAN /\ valid \in BOOLEAN /\ hasty \in BOOLEAN
        /\ pasted \in BOOLEAN
    BY Zenon DEF Init
  <1>6. text = Default /\ lastValue = "" /\ answered = Undefined
    BY DEF Init
  <1>7. text \in Texts \cup {Default} /\ lastValue \in Texts \cup {Undefined}
        /\ wanted \in Shown /\ answered \in Shown \cup {Undefined}
    BY <1>3, <1>6 DEF Texts, Shown
  <1> QED
    BY <1>1, <1>2, <1>3, <1>4, <1>5, <1>7 DEF Inv, TypeOK

-----------------------------------------------------------------------------
(* The events of the field. *)

\* What they find.
LEMMA FieldTypes ==
    ASSUME Inv
    PROVE  /\ text \in AnyText /\ answered \in Shown \cup {Undefined}
           /\ lastValue \in Texts \cup {Undefined}
           /\ focused \in BOOLEAN /\ menuOpen \in BOOLEAN /\ valid \in BOOLEAN
           /\ pasted \in BOOLEAN
  BY DEF Inv, TypeOK, AnyText

\* What only changes the field.
LEMMA FieldOnly ==
    ASSUME Inv, UNCHANGED view, answered' = answered, text' \in AnyText,
           focused' \in BOOLEAN, menuOpen' \in BOOLEAN, valid' \in BOOLEAN,
           pasted' \in BOOLEAN, lastValue' = lastValue
    PROVE  Inv'
  <1>1. ViewOK' /\ OneAtATime'
    BY ViewStays
  <1>2. answered' \in Shown \cup {Undefined} /\ lastValue' \in Texts \cup {Undefined}
    BY FieldTypes
  <1> QED
    BY <1>1, <1>2 DEF Inv, TypeOK, ViewOK, AnyText

LEMMA FocusKeepsInv == ASSUME Inv, Focus PROVE Inv'
  <1>1. /\ UNCHANGED view /\ answered' = answered /\ lastValue' = lastValue
        /\ menuOpen' = menuOpen /\ valid' = valid /\ pasted' = pasted
    BY DEF Focus
  <1>2. text' \in AnyText
    BY FieldTypes DEF Focus, AnyText, Texts
  <1>3. focused' \in BOOLEAN
    BY Zenon DEF Focus
  <1>4. menuOpen' \in BOOLEAN /\ valid' \in BOOLEAN /\ pasted' \in BOOLEAN
    BY <1>1, FieldTypes
  <1> QED
    BY <1>1, <1>2, <1>3, <1>4, FieldOnly

LEMMA BlurMenuKeepsInv == ASSUME Inv, BlurMenu PROVE Inv'
  <1>1. focused' \in BOOLEAN /\ answered' = answered /\ CloseMenu(text, Default)
    BY Zenon DEF BlurMenu
  <1> QED
    BY <1>1, FieldTypes, CloseMenuKeepsInv

LEMMA BlurKeepsInv == ASSUME Inv, Blur PROVE Inv'
  <1>1. /\ text' = (IF text = "" THEN Default ELSE text)
        /\ menuOpen' = menuOpen /\ answered' = answered
    BY DEF Blur
  <1>2. focused' \in BOOLEAN
    BY Zenon DEF Blur
  <1>3. text' \in AnyText /\ menuOpen' \in BOOLEAN
    BY <1>1, FieldTypes DEF AnyText
  <1>4. CASE pasted' = (pasted /\ Known(text, FALSE)) /\ Handle(text, FALSE)
    <2>1. pasted' \in BOOLEAN
      BY <1>4, Zenon
    <2> QED
      BY <1>1, <1>2, <1>3, <1>4, <2>1, FieldTypes, HandlesUnforced
  <1>5. CASE UNCHANGED <<pasted, lastValue, valid, view>>
    <2>1. pasted' \in BOOLEAN /\ valid' \in BOOLEAN /\ UNCHANGED view /\ lastValue' = lastValue
      BY <1>5, FieldTypes
    <2> QED
      BY <1>1, <1>2, <1>3, <2>1, FieldOnly
  <1> QED
    BY <1>4, <1>5 DEF Blur

LEMMA TypeKeepsInv == ASSUME Inv, NEW t \in Texts, Type(t) PROVE Inv'
  <1>1. focused' = focused /\ menuOpen' = menuOpen /\ answered' = answered
    BY DEF Type
  <1>2. focused' \in BOOLEAN /\ menuOpen' \in BOOLEAN /\ t \in AnyText
    BY <1>1, FieldTypes DEF AnyText
  <1>3. CASE menuOpen
    <2>1. /\ text' = t /\ valid' = valid /\ lastValue' = lastValue /\ pasted' = pasted
          /\ UNCHANGED view
      BY <1>3 DEF Type
    <2>2. valid' \in BOOLEAN /\ pasted' \in BOOLEAN
      BY <2>1, FieldTypes
    <2> QED
      BY <1>1, <1>2, <2>1, <2>2, FieldOnly
  <1>4. CASE ~menuOpen
    <2>1. PICK force \in BOOLEAN : force = FALSE
      OBVIOUS
    <2>2. Apply(t, force)
      BY <1>4, <2>1, Zenon DEF Type
    <2> QED
      BY <1>1, <1>2, <2>2, ApplyKeepsInv
  <1> QED
    BY <1>3, <1>4

LEMMA PasteKeepsInv == ASSUME Inv, NEW t \in Texts, Paste(t) PROVE Inv'
  <1>1. /\ focused' = focused /\ menuOpen' = menuOpen /\ answered' = answered
        /\ text' = t /\ pasted' = TRUE
    BY DEF Paste
  <1>2. /\ focused' \in BOOLEAN /\ menuOpen' \in BOOLEAN /\ text' \in AnyText
        /\ pasted' \in BOOLEAN
    BY <1>1, FieldTypes DEF AnyText
  <1>3. CASE Handle(text, FALSE)
    BY <1>1, <1>2, <1>3, FieldTypes, HandlesUnforced
  <1>4. CASE UNCHANGED <<lastValue, valid, view>>
    <2>1. valid' \in BOOLEAN /\ UNCHANGED view /\ lastValue' = lastValue
      BY <1>4, FieldTypes
    <2> QED
      BY <1>1, <1>2, <2>1, FieldOnly
  <1> QED
    BY <1>3, <1>4 DEF Paste

LEMMA SearchKeepsInv == ASSUME Inv, Search PROVE Inv'
  <1>1. focused' = focused /\ answered' = answered
    BY DEF Search
  <1>2. focused' \in BOOLEAN
    BY <1>1, FieldTypes
  <1>3. CASE text \in Rejected
    <2>1. UNCHANGED view /\ lastValue' = lastValue /\ pasted' = pasted
      BY <1>3 DEF Search
    <2>2. text' \in AnyText
      BY <1>3, FieldTypes DEF Search, AnyText, Texts
    <2>3. valid' \in BOOLEAN /\ menuOpen' \in BOOLEAN
      BY <1>3, Zenon DEF Search
    <2> QED
      BY <1>1, <1>2, <2>1, <2>2, <2>3, FieldTypes, FieldOnly
  <1>4. CASE text \notin Rejected /\ menuOpen
    <2>1. CloseMenu(text, "")
      BY <1>4 DEF Search
    <2> QED
      BY <1>1, <1>2, <2>1, FieldTypes, CloseMenuKeepsInv
  <1>5. CASE text \notin Rejected /\ ~menuOpen
    <2>1. /\ UNCHANGED view /\ lastValue' = lastValue /\ pasted' = pasted
          /\ text' = text /\ menuOpen' = menuOpen
      BY <1>5 DEF Search
    <2>2. text' \in AnyText /\ menuOpen' \in BOOLEAN
      BY <2>1, FieldTypes
    <2>3. valid' \in BOOLEAN
      BY <1>5, Zenon DEF Search
    <2> QED
      BY <1>1, <1>2, <2>1, <2>2, <2>3, FieldTypes, FieldOnly
  <1> QED
    BY <1>3, <1>4, <1>5

LEMMA SelectItemKeepsInv == ASSUME Inv, NEW t \in Texts, SelectItem(t) PROVE Inv'
  <1>1. focused' \in BOOLEAN /\ answered' = answered /\ CloseMenu(t, "")
    BY Zenon DEF SelectItem
  <1> QED
    BY <1>1, CloseMenuKeepsInv DEF AnyText

LEMMA OthersKeepInv ==
    ASSUME Inv,
           Submit \/ ResetStatistics \/ \E t \in Filters : ChooseExample(t)
    PROVE  Inv'
  <1>1. PICK t \in AnyText, force \in BOOLEAN :
            /\ Apply(t, force)
            /\ focused' = focused /\ menuOpen' = menuOpen /\ answered' = answered
    <2>1. CASE Submit
      BY <2>1, FieldTypes DEF Submit
    <2>2. CASE ResetStatistics
      BY <2>2, FieldTypes DEF ResetStatistics
    <2>3. CASE \E t \in Filters : ChooseExample(t)
      <3>1. PICK t \in Filters : ChooseExample(t)
        BY <2>3
      <3>2. t \in AnyText
        BY DEF AnyText, Texts
      <3> QED
        BY <3>1, <3>2 DEF ChooseExample
    <2> QED
      BY <2>1, <2>2, <2>3
  <1>2. focused' \in BOOLEAN /\ menuOpen' \in BOOLEAN
    BY <1>1, FieldTypes
  <1> QED
    BY <1>1, <1>2, ApplyKeepsInv

-----------------------------------------------------------------------------
(* The events of the view. *)

\* They leave the field alone.
LEMMA ViewOnly ==
    ASSUME Inv, UNCHANGED field, answered' \in Shown \cup {Undefined},
           ViewOK', OneAtATime'
    PROVE  Inv'
  <1>1. /\ text' = text /\ focused' = focused /\ menuOpen' = menuOpen
        /\ valid' = valid /\ lastValue' = lastValue /\ pasted' = pasted
    BY DEF field
  <1> QED
    BY <1>1 DEF Inv, TypeOK, ViewOK

LEMMA FadeEndKeepsInv == ASSUME Inv, FadeEnd PROVE Inv'
  <1> DEFINE new == [id |-> shows, filter |-> fade]
  <1>1. /\ fade # Undefined /\ plots' = {} /\ requests' = requests \cup {new}
        /\ fade' = Undefined
        /\ UNCHANGED <<field, wanted, answered, shows, hasty>>
    BY DEF FadeEnd
  <1>2. new \in Answer
    BY <1>1 DEF Answer, Inv, TypeOK
  <1>3. new.filter = fade
    OBVIOUS
  <1> HIDE DEF new
  <1>4. ViewOK'
    BY <1>1, <1>2 DEF ViewOK, Inv, TypeOK
  <1>5. OneAtATime'
    BY <1>1, <1>3 DEF OneAtATime, Inv
  <1> QED
    BY <1>1, <1>4, <1>5, ViewOnly, FieldTypes

LEMMA AnswerKeepsInv ==
    ASSUME Inv, NEW q \in requests, Arrive(q) \/ Fail(q)
    PROVE  Inv'
  <1>1. /\ requests' = requests \ {q}
        /\ plots' = plots \/ plots' = plots \cup {q}
        /\ fade' = Undefined \/ (fade' = fade /\ plots' = plots)
        /\ answered' = q.filter
        /\ UNCHANGED <<field, wanted, shows, hasty>>
    BY DEF Arrive, Fail
  <1>2. q \in Answer
    BY DEF Inv, TypeOK
  <1>3. q.filter \in Shown
    BY <1>2 DEF Answer
  <1>4. ViewOK'
    BY <1>1, <1>2 DEF ViewOK, Inv, TypeOK
  <1>5. OneAtATime'
    BY <1>1 DEF OneAtATime, Inv
  <1> QED
    BY <1>1, <1>3, <1>4, <1>5, ViewOnly

-----------------------------------------------------------------------------
LEMMA InvStep == Inv /\ [Next]_vars => Inv'
  <1> SUFFICES ASSUME Inv, [Next]_vars PROVE Inv'
    OBVIOUS
  <1>1. CASE UNCHANGED vars
    <2>1. UNCHANGED field /\ UNCHANGED view /\ answered' = answered
      BY <1>1 DEF vars
    <2> QED
      BY <2>1, ViewStays, ViewOnly, FieldTypes
  <1>2. CASE \E t \in Texts : Type(t) \/ Paste(t) \/ SelectItem(t)
    BY <1>2, TypeKeepsInv, PasteKeepsInv, SelectItemKeepsInv
  <1>3. CASE Submit \/ ResetStatistics \/ \E t \in Filters : ChooseExample(t)
    BY <1>3, OthersKeepInv
  <1>4. CASE \E q \in requests : Arrive(q) \/ Fail(q)
    BY <1>4, AnswerKeepsInv
  <1> QED
    BY <1>1, <1>2, <1>3, <1>4, FocusKeepsInv, BlurMenuKeepsInv, BlurKeepsInv,
       SearchKeepsInv, FadeEndKeepsInv DEF Next

LEMMA Invariance == Spec => []Inv
  BY InvInit, InvStep, PTL DEF Spec

(* The types of the state of field and view (modelstatistics script.js).    *)
THEOREM TypeCorrect == Spec => []TypeOK
  BY Invariance, PTL DEF Inv

(* Who waits sees the plots of one answer only, and in the end those of the *)
(* filter, for all filters and any number of visualisations (script.js      *)
(* 171-328).                                                                *)
THEOREM PatientSees == Spec => []PatientSeesFilter
  <1>1. ASSUME Inv PROVE PatientSeesFilter
    <2>1. \A p \in plots : plots = {p} => Cardinality(plots) = 1
      BY FS_Singleton
    <2>2. plots = {} => Cardinality(plots) = 0
      BY FS_EmptySet
    <2>3. ~hasty => Cardinality(plots) <= 1
      BY <1>1, <2>1, <2>2 DEF Inv, OneAtATime
    <2> QED
      BY <1>1, <2>3 DEF Inv, OneAtATime, PatientSeesFilter
  <1> QED
    BY <1>1, Invariance, PTL

-----------------------------------------------------------------------------
(* The field.  What was processed last decides what is wanted and, unless   *)
(* another text was pasted since, the mark, and is then the text of the     *)
(* field unless the menu is open.  The default value stands in the field    *)
(* only without the focus: it is never processed but when the statistics    *)
(* are reset, and then it is the empty text.                                *)

Entered(t) == IF t = Default THEN "" ELSE t

LastValueRules ==
    /\ lastValue \in Texts
    /\ lastValue \in Rejected /\ ~pasted => ~valid
    /\ lastValue \notin Rejected => wanted = lastValue

FieldInv ==
    /\ focused => text # Default
    /\ LastValueRules
    /\ ~menuOpen /\ ~pasted => lastValue = Entered(text)

LEMMA SpecialTexts ==
    /\ "" \notin Rejected /\ Default \notin Rejected /\ Default \notin Texts
    /\ Undefined \notin Texts
    /\ \A t \in Filters : t \notin Rejected /\ Entered(t) = t
  BY TextsAssumption DEF Default, Undefined, Texts, Entered

LEMMA ProcessedLast ==
    ASSUME LastValueRules, NEW t \in AnyText, NEW force \in BOOLEAN,
           force \/ t # Default
    PROVE  LET done == Process(t, force)
           IN  /\ done.last = Entered(t) /\ done.last \in Texts
               /\ \/ done.last = lastValue /\ done.valid = valid /\ done.show = Undefined
                  \/ done.last \in Rejected /\ done.valid = FALSE /\ done.show = Undefined
                  \/ done.last \notin Rejected /\ done.show = done.last
  <1> DEFINE val == Entered(t)
             changed == IF t = "" THEN lastValue \notin {Undefined, ""} ELSE t # lastValue
             nothing == [last |-> lastValue, valid |-> valid, show |-> Undefined]
             default == [last |-> lastValue, valid |-> TRUE,
                         show |-> IF plots # {} THEN Undefined ELSE ""]
             rejected == [last |-> val, valid |-> FALSE, show |-> Undefined]
             accepted == [last |-> val, valid |-> TRUE, show |-> val]
             idle == plots # {} /\ ~changed
             skipped == ~force /\ t = Default
             same == ~force /\ t = lastValue
  <1>1. val \in Texts /\ lastValue \in Texts
    BY DEF Entered, LastValueRules, AnyText, Texts
  <1>2. Process(t, force) = IF idle THEN nothing ELSE IF skipped THEN default
                            ELSE IF same THEN nothing
                            ELSE IF val \in Rejected THEN rejected ELSE accepted
    BY Zenon DEF Process, Entered
  <1>3. ~skipped
    OBVIOUS
  <1>4. idle \/ same => lastValue = val
    BY <1>1, SpecialTexts DEF Entered, Default
  <1>5. nothing.last = lastValue /\ nothing.valid = valid /\ nothing.show = Undefined
    OBVIOUS
  <1>6. rejected.last = val /\ rejected.valid = FALSE /\ rejected.show = Undefined
    OBVIOUS
  <1>7. accepted.last = val /\ accepted.show = val
    OBVIOUS
  <1>8. val = Entered(t)
    OBVIOUS
  <1> HIDE DEF idle, skipped, same, nothing, rejected, accepted, default, val
  <1>9. \/ Process(t, force) = nothing /\ lastValue = val
        \/ Process(t, force) = rejected /\ val \in Rejected
        \/ Process(t, force) = accepted /\ val \notin Rejected
    BY <1>2, <1>3, <1>4, Zenon
  <1> QED
    BY <1>1, <1>5, <1>6, <1>7, <1>8, <1>9, Zenon

LEMMA ProcessingKeepsRules ==
    ASSUME LastValueRules, NEW t \in AnyText, NEW force \in BOOLEAN,
           force \/ t # Default,
           lastValue' = Process(t, force).last,
           valid' => Process(t, force).valid \/ t \in Filters,
           Visualize(Process(t, force).show),
           ~pasted' => ~pasted \/ ~Known(t, force)
    PROVE  LastValueRules' /\ lastValue' = Entered(t)
  <1> DEFINE done == Process(t, force)
  <1>1. done.last = Entered(t) /\ done.last \in Texts
    BY ProcessedLast
  <1>2. \/ done.last = lastValue /\ done.valid = valid /\ done.show = Undefined
        \/ done.last \in Rejected /\ done.valid = FALSE /\ done.show = Undefined
        \/ done.last \notin Rejected /\ done.show = done.last
    BY ProcessedLast
  <1>3. /\ lastValue' = done.last /\ Visualize(done.show)
        /\ valid' => done.valid \/ t \in Filters
    OBVIOUS
  <1>4. ~pasted' => ~pasted \/ ~(done.valid /\ done.show = Undefined)
    BY Zenon DEF Known
  <1> HIDE DEF done
  <1>5. t \in Filters => done.last \notin Rejected
    BY <1>1, SpecialTexts
  <1>6. done.show = Undefined => wanted' = wanted
    BY <1>3 DEF Visualize, view
  <1>7. done.show # Undefined => wanted' = done.show
    BY <1>3 DEF Visualize
  <1>8. CASE done.last = lastValue /\ done.valid = valid /\ done.show = Undefined
    BY <1>1, <1>3, <1>4, <1>5, <1>6, <1>8 DEF LastValueRules
  <1>9. CASE done.last \in Rejected /\ done.valid = FALSE /\ done.show = Undefined
    BY <1>1, <1>3, <1>5, <1>9 DEF LastValueRules
  <1>10. CASE done.last \notin Rejected /\ done.show = done.last
    BY <1>1, <1>3, <1>7, <1>10, SpecialTexts DEF LastValueRules
  <1> QED
    BY <1>1, <1>2, <1>3, <1>8, <1>9, <1>10

LEMMA ApplyKeepsFieldInv ==
    ASSUME FieldInv, NEW t \in AnyText, NEW force \in BOOLEAN, Apply(t, force),
           force \/ t # Default, focused' => t # Default
    PROVE  FieldInv'
  <1>1. ~pasted' => ~pasted \/ ~Known(t, force)
    BY Zenon DEF Apply
  <1>2. LastValueRules' /\ lastValue' = Entered(t)
    BY <1>1, ProcessingKeepsRules DEF Apply, Handle, FieldInv
  <1>3. text' = t
    BY DEF Apply
  <1> QED
    BY <1>2, <1>3 DEF FieldInv, Entered

LEMMA CloseMenuKeepsFieldInv ==
    ASSUME FieldInv, NEW t \in Texts, NEW ifEmpty \in {"", Default}, CloseMenu(t, ifEmpty),
           focused' => ifEmpty = ""
    PROVE  FieldInv'
  <1> DEFINE again == ~Process(t, FALSE).valid /\ t \in Rejected \ Broken
             left == IF again /\ t \in Blanked THEN "" ELSE t
  <1>1. t \in AnyText /\ t # Default /\ Entered(t) = t
    BY SpecialTexts DEF AnyText, Entered
  <1>2. /\ lastValue' = Process(t, FALSE).last
        /\ valid' = (Process(t, FALSE).valid \/ t \in Filters)
        /\ Visualize(Process(t, FALSE).show)
        /\ pasted' = (pasted /\ Known(t, FALSE))
    BY DEF CloseMenu
  <1>3. valid' => Process(t, FALSE).valid \/ t \in Filters
    BY <1>2, Zenon
  <1>4. ~pasted' => ~pasted \/ ~Known(t, FALSE)
    BY <1>2, Zenon
  <1>5. LastValueRules' /\ lastValue' = t
    BY <1>1, <1>2, <1>3, <1>4, ProcessingKeepsRules DEF FieldInv
  <1>6. menuOpen' = again /\ text' = IF left = "" THEN ifEmpty ELSE left
    BY DEF CloseMenu
  <1>7. left = t \/ (left = "" /\ again)
    OBVIOUS
  <1> HIDE DEF again, left
  <1>8. focused' => text' # Default
    BY <1>1, <1>6, <1>7 DEF Default
  <1>9. ~menuOpen' => lastValue' = Entered(text')
    BY <1>1, <1>5, <1>6, <1>7 DEF Entered
  <1> QED
    BY <1>5, <1>8, <1>9 DEF FieldInv

LEMMA FieldInvInit == Init => FieldInv
  BY SpecialTexts DEF Init, FieldInv, LastValueRules, Entered, Texts

LEMMA FocusKeepsFieldInv == ASSUME FieldInv, Focus PROVE FieldInv'
  BY DEF Focus, FieldInv, LastValueRules, Entered, view, Default

LEMMA BlurMenuKeepsFieldInv == ASSUME Inv, FieldInv, BlurMenu PROVE FieldInv'
  <1>1. text \in Texts /\ ~focused' /\ CloseMenu(text, Default)
    BY FieldTypes DEF BlurMenu, FieldInv, AnyText
  <1> QED
    BY <1>1, CloseMenuKeepsFieldInv

LEMMA BlurKeepsFieldInv == ASSUME Inv, FieldInv, Blur PROVE FieldInv'
  <1>1. /\ text \in Texts /\ text \in AnyText /\ text # Default /\ ~focused'
        /\ menuOpen' = menuOpen /\ text' = (IF text = "" THEN Default ELSE text)
    BY FieldTypes DEF Blur, FieldInv, AnyText
  <1>2. Entered(text') = text /\ Entered(text) = text
    BY <1>1 DEF Entered, Default
  <1>3. CASE pasted' = (pasted /\ Known(text, FALSE)) /\ Handle(text, FALSE)
    <2>1. ~pasted' => ~pasted \/ ~Known(text, FALSE)
      BY <1>3, Zenon
    <2>2. LastValueRules' /\ lastValue' = Entered(text)
      BY <1>1, <1>3, <2>1, ProcessingKeepsRules DEF Handle, FieldInv
    <2> QED
      BY <1>1, <1>2, <2>2 DEF FieldInv
  <1>4. CASE UNCHANGED <<pasted, lastValue, valid, view>>
    BY <1>1, <1>2, <1>4 DEF FieldInv, LastValueRules, view
  <1> QED
    BY <1>3, <1>4 DEF Blur

LEMMA TypeKeepsFieldInv == ASSUME FieldInv, NEW t \in Texts, Type(t) PROVE FieldInv'
  <1>1. t \in AnyText /\ t # Default
    BY SpecialTexts DEF AnyText
  <1>2. CASE menuOpen
    BY <1>1, <1>2 DEF Type, FieldInv, LastValueRules, view
  <1>3. CASE ~menuOpen
    <2>1. Apply(t, FALSE)
      BY <1>3 DEF Type
    <2> QED
      BY <1>1, <2>1, ApplyKeepsFieldInv
  <1> QED
    BY <1>2, <1>3

LEMMA PasteKeepsFieldInv == ASSUME Inv, FieldInv, NEW t \in Texts, Paste(t) PROVE FieldInv'
  <1>1. /\ text \in AnyText /\ text # Default /\ t # Default
        /\ text' = t /\ pasted'
    BY FieldTypes, SpecialTexts DEF Paste, FieldInv
  <1>2. CASE Handle(text, FALSE)
    <2>1. LastValueRules'
      BY <1>1, <1>2, ProcessingKeepsRules DEF Handle, FieldInv
    <2> QED
      BY <1>1, <2>1 DEF FieldInv
  <1>3. CASE UNCHANGED <<lastValue, valid, view>>
    BY <1>1, <1>3 DEF FieldInv, LastValueRules, view
  <1> QED
    BY <1>2, <1>3 DEF Paste

LEMMA SearchKeepsFieldInv == ASSUME Inv, FieldInv, Search PROVE FieldInv'
  <1>1. focused /\ text \in Texts /\ text # Default /\ Entered(text) = text
    BY FieldTypes DEF Search, FieldInv, AnyText, Entered
  <1>2. CASE text \in Rejected
    <2>1. /\ valid' = FALSE /\ lastValue' = lastValue /\ wanted' = wanted
          /\ pasted' = pasted
          /\ menuOpen' \/ (~menuOpen /\ text \in Broken)
          /\ text' = IF text \in Blanked \ Broken THEN "" ELSE text
      BY <1>2 DEF Search, view
    <2> QED
      BY <1>1, <2>1 DEF FieldInv, LastValueRules, Default
  <1>3. CASE text \notin Rejected /\ menuOpen
    <2>1. CloseMenu(text, "")
      BY <1>3 DEF Search
    <2> QED
      BY <1>1, <2>1, CloseMenuKeepsFieldInv
  <1>4. CASE text \notin Rejected /\ ~menuOpen
    <2>1. ~pasted => lastValue = text
      BY <1>1, <1>4 DEF FieldInv
    <2>2. UNCHANGED <<text, menuOpen, lastValue, pasted, wanted>>
      BY <1>4 DEF Search, view
    <2> QED
      BY <1>1, <1>4, <2>1, <2>2 DEF FieldInv, LastValueRules
  <1> QED
    BY <1>2, <1>3, <1>4

LEMMA SelectItemKeepsFieldInv == ASSUME FieldInv, NEW t \in Texts, SelectItem(t) PROVE FieldInv'
  BY CloseMenuKeepsFieldInv DEF SelectItem

LEMMA OthersKeepFieldInv ==
    ASSUME Inv, FieldInv,
           Submit \/ ResetStatistics \/ \E t \in Filters : ChooseExample(t)
    PROVE  FieldInv'
  <1>1. CASE Submit
    BY <1>1, FieldTypes, ApplyKeepsFieldInv DEF Submit, FieldInv
  <1>2. CASE ResetStatistics
    BY <1>2, FieldTypes, ApplyKeepsFieldInv DEF ResetStatistics, FieldInv
  <1>3. CASE \E t \in Filters : ChooseExample(t)
    <2>1. PICK t \in Filters : ChooseExample(t)
      BY <1>3
    <2>2. t \in AnyText /\ t # Default
      BY SpecialTexts DEF AnyText, Texts
    <2> QED
      BY <2>1, <2>2, ApplyKeepsFieldInv DEF ChooseExample
  <1> QED
    BY <1>1, <1>2, <1>3

\* Neither fading nor answers touch the field, nor what is wanted.
LEMMA RestKeepsFieldInv ==
    ASSUME FieldInv, UNCHANGED <<field, wanted>>
    PROVE  FieldInv'
  BY DEF FieldInv, LastValueRules, field

LEMMA FieldInvStep == Inv /\ FieldInv /\ [Next]_vars => FieldInv'
  <1> SUFFICES ASSUME Inv, FieldInv, [Next]_vars PROVE FieldInv'
    OBVIOUS
  <1>1. CASE UNCHANGED vars \/ FadeEnd \/ \E q \in requests : Arrive(q) \/ Fail(q)
    <2>1. UNCHANGED <<field, wanted>>
      BY <1>1 DEF vars, view, FadeEnd, Arrive, Fail
    <2> QED
      BY <2>1, RestKeepsFieldInv
  <1>2. CASE \E t \in Texts : Type(t) \/ Paste(t) \/ SelectItem(t)
    BY <1>2, TypeKeepsFieldInv, PasteKeepsFieldInv, SelectItemKeepsFieldInv
  <1>3. CASE Submit \/ ResetStatistics \/ \E t \in Filters : ChooseExample(t)
    BY <1>3, OthersKeepFieldInv
  <1> QED
    BY <1>1, <1>2, <1>3, FocusKeepsFieldInv, BlurMenuKeepsFieldInv,
       BlurKeepsFieldInv, SearchKeepsFieldInv DEF Next

LEMMA FieldInvariance == Spec => []FieldInv
  BY Invariance, FieldInvInit, FieldInvStep, PTL DEF Spec

(* Once the menu is closed the field names the filter visualised last, or   *)
(* is marked as not valid, whatever was typed, chosen and reset meanwhile,  *)
(* unless it holds a text pasted with the mouse that no event has followed  *)
(* (script.js 130-170, 417-448).                                            *)
THEOREM FieldFollowed == Spec => []FieldAgrees
  <1>1. FieldInv => FieldAgrees
    BY SpecialTexts DEF FieldInv, LastValueRules, Entered, FieldAgrees, Agrees
  <1> QED
    BY <1>1, FieldInvariance, PTL
==============================================================================
