--------------------------- MODULE RegistryConsole ---------------------------
(***************************************************************************)
(* The page of the model registry console: a table with a row per mapping  *)
(* of a resource type to a model, whose rows two controls hide and show    *)
(* independently - the toggle "Show models for unresolvable types" and the *)
(* filter by resource and model type, which asks the server.               *)
(*                                                                         *)
(* A row remembers in hiddenBy which of the two has hidden it: the other   *)
(* one then neither hides nor shows it.  Answers of the server arrive in   *)
(* any order: filterTable does not wait for an earlier one.                *)
(***************************************************************************)
EXTENDS Integers, FiniteSets

CONSTANTS
    Rows,           \* the rows of the table's body
    ModelTypes,     \* the values of data-modeltype
    ModelTypeOf,    \* the model type of a row
    Resolvable,     \* the rows with a component icon: their type is resolvable
    Answers,        \* what the server may answer: sets of model types
    MaxRequests     \* bound on the number of requests

ASSUME RowsAssumption ==
    /\ ModelTypeOf \in [Rows -> ModelTypes]
    /\ Resolvable \subseteq Rows
    /\ Answers \subseteq SUBSET ModelTypes
    /\ MaxRequests \in Nat

Toggle == "toggleUnresolvedResourceTypes"
Filter == "filterTable"
Nobody == "undefined"

VARIABLES
    showOnlyUnresolved,
    hiddenBy,           \* the property hiddenBy of the rows' nodes
    visible,            \* whether a row is displayed
    requests,           \* requests on the way: [id, typeNames]
    asked,              \* the number of requests so far
    applied             \* history: the answer applied last

vars == <<showOnlyUnresolved, hiddenBy, visible, requests, asked, applied>>

Request == [id : 1..MaxRequests, typeNames : Answers]

TypeOK ==
    /\ showOnlyUnresolved \in BOOLEAN
    /\ hiddenBy \in [Rows -> {Toggle, Filter, Nobody}]
    /\ visible \in [Rows -> BOOLEAN]
    /\ requests \subseteq Request
    /\ asked \in 0..MaxRequests
    /\ applied \in SUBSET ModelTypes

Init ==
    /\ showOnlyUnresolved = FALSE
    /\ hiddenBy = [r \in Rows |-> Nobody]
    /\ visible = [r \in Rows |-> TRUE]
    /\ requests = {}
    /\ asked = 0
    /\ applied = ModelTypes

-----------------------------------------------------------------------------
(* visibility(source): who may show and hide a row *)

MayShow(source, r) == hiddenBy[r] \in {Nobody, source}

MayHide(r) == hiddenBy[r] = Nobody

(* Slip: a hidden row notes that it is hidden, not by whom. *)
HideAnonymously(source, shown, hidden) ==
    /\ hiddenBy' = [r \in Rows |-> IF r \in hidden /\ MayHide(r) THEN "hidden"
                                   ELSE hiddenBy[r]]
    /\ visible' = [r \in Rows |-> r \notin hidden]

\* Shows the rows of one set and hides those of another, as far as the source
\* may: the loops of the two controls touch every row at most once.
ShowAndHide(source, shown, hidden) ==
    LET showing == {r \in shown : MayShow(source, r)}
        hiding == {r \in hidden : MayHide(r)}
    IN  /\ hiddenBy' = [r \in Rows |-> IF r \in showing THEN Nobody
                                       ELSE IF r \in hiding THEN source
                                       ELSE hiddenBy[r]]
        /\ visible' = [r \in Rows |-> IF r \in showing THEN TRUE
                                      ELSE IF r \in hiding THEN FALSE
                                      ELSE visible[r]]

-----------------------------------------------------------------------------
(* Slip: the toggle forgets to bring back what it has hidden. *)
ToggleOnlyHiding ==
    /\ showOnlyUnresolved' = ~showOnlyUnresolved
    /\ ShowAndHide(Toggle, {}, IF showOnlyUnresolved' THEN Resolvable ELSE {})
    /\ UNCHANGED <<requests, asked, applied>>

ToggleUnresolvedResourceTypes ==
    /\ showOnlyUnresolved' = ~showOnlyUnresolved
    /\ IF showOnlyUnresolved'
       THEN ShowAndHide(Toggle, {}, Resolvable)
       ELSE ShowAndHide(Toggle, Resolvable, {})
    /\ UNCHANGED <<requests, asked, applied>>

\* A click on "apply" or the return key; what the server answers depends on
\* the fields and on its models when it gets to the request.
RequestFilter ==
    /\ asked < MaxRequests
    /\ asked' = asked + 1
    /\ \E typeNames \in Answers :
          requests' = requests \cup {[id |-> asked', typeNames |-> typeNames]}
    /\ UNCHANGED <<showOnlyUnresolved, hiddenBy, visible, applied>>

(* Slip: the filter tests for any model at all. *)
PassingAny(typeNames) == {r \in Rows : typeNames # {}}

Passing(typeNames) == {r \in Rows : ModelTypeOf[r] \in typeNames}

\* The function filterTable gives to getJSON.
ApplyFilter(q) ==
    /\ q \in requests
    /\ requests' = requests \ {q}
    /\ applied' = q.typeNames
    /\ ShowAndHide(Filter, Passing(q.typeNames), Rows \ Passing(q.typeNames))
    /\ UNCHANGED <<showOnlyUnresolved, asked>>

\* The server fails or the connection does: getJSON has no error handler.
LoseRequest(q) ==
    /\ q \in requests
    /\ requests' = requests \ {q}
    /\ UNCHANGED <<showOnlyUnresolved, hiddenBy, visible, asked, applied>>

Next ==
    \/ ToggleUnresolvedResourceTypes
    \/ RequestFilter
    \/ \E q \in requests : ApplyFilter(q) \/ LoseRequest(q)

Spec == Init /\ [][Next]_vars

-----------------------------------------------------------------------------
(* A row is hidden only for a reason that stands: the toggle is on and its  *)
(* type is resolvable, or the answer applied last excludes it.  So whatever *)
(* the two controls do to each other, no row is lost: undoing both brings   *)
(* back every row (visibility, script.js 21-46).                            *)
HiddenForAReason ==
    \A r \in Rows : ~visible[r] =>
        \/ hiddenBy[r] = Toggle /\ showOnlyUnresolved /\ r \in Resolvable
        \/ hiddenBy[r] = Filter /\ ModelTypeOf[r] \notin applied

(* A control that has just acted has its way with what it hides: the filter *)
(* leaves no row it excludes, the toggle no resolvable row, whoever hid     *)
(* them (script.js 75-81, 51-58).                                           *)
NothingLeftOver ==
    [][/\ \A q \in requests : ApplyFilter(q) =>
             \A r \in Rows : visible'[r] => ModelTypeOf[r] \in applied'
       /\ showOnlyUnresolved' /\ ~showOnlyUnresolved =>
             \A r \in Rows : visible'[r] => r \notin Resolvable]_vars

-----------------------------------------------------------------------------
(* The inductive invariant behind HiddenForAReason. *)
OwnerKnown == \A r \in Rows : visible[r] <=> hiddenBy[r] = Nobody

ReasonStands ==
    \A r \in Rows :
        /\ hiddenBy[r] = Toggle => showOnlyUnresolved /\ r \in Resolvable
        /\ hiddenBy[r] = Filter => ModelTypeOf[r] \notin applied

IInv == TypeOK /\ OwnerKnown /\ ReasonStands

==============================================================================
