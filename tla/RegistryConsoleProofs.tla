------------------------- MODULE RegistryConsoleProofs -------------------------
(***************************************************************************)
(* For every table, every answers of the server and any number of requests *)
(* whose answers arrive in any order: no row of the console is lost.  The  *)
(* argument is the inductive invariant IInv: a row is hidden just if it    *)
(* has an owner, and the owner's reason stands.                            *)
(***************************************************************************)
EXTENDS RegistryConsole, TLAPS

-----------------------------------------------------------------------------
LEMMA IInvInit == Init => IInv
  <1> SUFFICES ASSUME Init PROVE IInv
    OBVIOUS
  <1>1. TypeOK
    <2>1. asked \in 0..MaxRequests
      BY RowsAssumption DEF Init
    <2>2. /\ showOnlyUnresolved \in BOOLEAN /\ visible \in [Rows -> BOOLEAN]
          /\ applied \in SUBSET ModelTypes /\ requests \subseteq Request
          /\ hiddenBy \in [Rows -> {Toggle, Filter, Nobody}]
      BY Zenon DEF Init
    <2> QED
      BY <2>1, <2>2 DEF TypeOK
  <1>2. OwnerKnown
    BY DEF Init, OwnerKnown
  <1>3. ReasonStands
    BY DEF Init, ReasonStands, Nobody, Toggle, Filter
  <1> QED
    BY <1>1, <1>2, <1>3 DEF IInv

\* Whom a row belongs to when a control has shown and hidden rows.
LEMMA OwnerAfter ==
    ASSUME NEW source, NEW shown, NEW hidden, ShowAndHide(source, shown, hidden),
           NEW r \in Rows
    PROVE  hiddenBy'[r] = IF r \in shown /\ MayShow(source, r) THEN Nobody
                          ELSE IF r \in hidden /\ MayHide(r) THEN source
                          ELSE hiddenBy[r]
  BY DEF ShowAndHide

\* A row that is shown or hidden is visible accordingly.
LEMMA VisibleAfter ==
    ASSUME NEW source, NEW shown, NEW hidden, ShowAndHide(source, shown, hidden),
           NEW r \in Rows
    PROVE  /\ r \in shown /\ MayShow(source, r) => visible'[r]
           /\ ~(r \in shown /\ MayShow(source, r)) =>
                 /\ r \in hidden /\ MayHide(r) => ~visible'[r]
                 /\ ~(r \in hidden /\ MayHide(r)) => visible'[r] = visible[r]
  BY Zenon DEF ShowAndHide

\* Showing and hiding keeps the types and every row's owner known.
LEMMA ShowAndHideTypes ==
    ASSUME hiddenBy \in [Rows -> {Toggle, Filter, Nobody}], visible \in [Rows -> BOOLEAN],
           NEW source \in {Toggle, Filter}, NEW shown, NEW hidden,
           ShowAndHide(source, shown, hidden)
    PROVE  /\ hiddenBy' \in [Rows -> {Toggle, Filter, Nobody}]
           /\ visible' \in [Rows -> BOOLEAN]
  BY DEF ShowAndHide

LEMMA ShowAndHideOwners ==
    ASSUME OwnerKnown, NEW source \in {Toggle, Filter}, NEW shown, NEW hidden,
           ShowAndHide(source, shown, hidden)
    PROVE  OwnerKnown'
  <1>1. SUFFICES ASSUME NEW r \in Rows PROVE visible'[r] <=> hiddenBy'[r] = Nobody
    BY DEF OwnerKnown
  <1>2. source # Nobody
    BY DEF Toggle, Filter, Nobody
  <1>3. visible[r] <=> hiddenBy[r] = Nobody
    BY DEF OwnerKnown
  <1> QED
    <2>1. CASE r \in shown /\ MayShow(source, r)
      BY <2>1, OwnerAfter, VisibleAfter
    <2>2. CASE ~(r \in shown /\ MayShow(source, r)) /\ r \in hidden /\ MayHide(r)
      BY <1>2, <2>2, OwnerAfter, VisibleAfter
    <2>3. CASE ~(r \in shown /\ MayShow(source, r)) /\ ~(r \in hidden /\ MayHide(r))
      <3>1. hiddenBy'[r] = hiddenBy[r]
        BY <2>3, OwnerAfter
      <3>2. visible'[r] = visible[r]
        BY <2>3, VisibleAfter
      <3> QED
        BY <1>3, <3>1, <3>2, Zenon
    <2> QED
      BY <2>1, <2>2, <2>3

-----------------------------------------------------------------------------
LEMMA ToggleKeepsIInv ==
    ASSUME IInv, ToggleUnresolvedResourceTypes
    PROVE  IInv'
  <1> DEFINE shown == IF showOnlyUnresolved' THEN {} ELSE Resolvable
             hidden == IF showOnlyUnresolved' THEN Resolvable ELSE {}
  <1>1. ShowAndHide(Toggle, shown, hidden)
    <2>1. CASE showOnlyUnresolved'
      BY <2>1 DEF ToggleUnresolvedResourceTypes
    <2>2. CASE ~showOnlyUnresolved'
      BY <2>2 DEF ToggleUnresolvedResourceTypes
    <2> QED
      BY <2>1, <2>2
  <1>2. TypeOK'
    <2>1. /\ hiddenBy' \in [Rows -> {Toggle, Filter, Nobody}]
          /\ visible' \in [Rows -> BOOLEAN]
      BY <1>1, ShowAndHideTypes DEF IInv, TypeOK
    <2> QED
      BY <2>1 DEF IInv, TypeOK, ToggleUnresolvedResourceTypes
  <1>3. OwnerKnown'
    BY <1>1, ShowAndHideOwners DEF IInv
  <1>4. ReasonStands'
    <2>1. SUFFICES ASSUME NEW r \in Rows
                   PROVE  /\ hiddenBy'[r] = Toggle => showOnlyUnresolved' /\ r \in Resolvable
                          /\ hiddenBy'[r] = Filter => ModelTypeOf[r] \notin applied'
      BY DEF ReasonStands
    <2>2. /\ hiddenBy[r] = Toggle => showOnlyUnresolved /\ r \in Resolvable
          /\ hiddenBy[r] = Filter => ModelTypeOf[r] \notin applied
      BY DEF IInv, ReasonStands
    <2>3. applied' = applied /\ Toggle # Filter /\ Toggle # Nobody /\ Filter # Nobody
      BY DEF ToggleUnresolvedResourceTypes, Toggle, Filter, Nobody
    <2>4. CASE showOnlyUnresolved'
      <3>1. shown = {} /\ hidden = Resolvable
        BY <2>4
      <3> HIDE DEF shown, hidden
      <3>2. \/ hiddenBy'[r] = Toggle /\ r \in Resolvable
            \/ hiddenBy'[r] = hiddenBy[r]
        BY <1>1, <3>1, OwnerAfter
      <3> QED
        BY <2>2, <2>3, <2>4, <3>2
    <2>5. CASE ~showOnlyUnresolved'
      <3>1. shown = Resolvable /\ hidden = {}
        BY <2>5
      <3> HIDE DEF shown, hidden
      <3>2. hiddenBy[r] = Toggle => hiddenBy'[r] = Nobody
        BY <1>1, <2>2, <3>1, OwnerAfter DEF MayShow
      <3>3. hiddenBy'[r] \in {Nobody, hiddenBy[r]}
        BY <1>1, <3>1, OwnerAfter
      <3> QED
        BY <2>2, <2>3, <3>2, <3>3
    <2> QED
      BY <2>4, <2>5
  <1> QED
    BY <1>2, <1>3, <1>4 DEF IInv

LEMMA ApplyKeepsIInv ==
    ASSUME IInv, NEW q \in requests, ApplyFilter(q)
    PROVE  IInv'
  <1> DEFINE passing == Passing(q.typeNames)
  <1>1. ShowAndHide(Filter, passing, Rows \ passing)
    BY DEF ApplyFilter
  <1>2. TypeOK'
    <2>1. /\ hiddenBy' \in [Rows -> {Toggle, Filter, Nobody}]
          /\ visible' \in [Rows -> BOOLEAN]
      BY <1>1, ShowAndHideTypes DEF IInv, TypeOK
    <2>2. q.typeNames \in SUBSET ModelTypes
      BY RowsAssumption DEF IInv, TypeOK, Request
    <2>3. requests' \subseteq Request /\ applied' \in SUBSET ModelTypes
      BY <2>2 DEF IInv, TypeOK, ApplyFilter
    <2> QED
      BY <2>1, <2>3 DEF IInv, TypeOK, ApplyFilter
  <1>3. OwnerKnown'
    BY <1>1, ShowAndHideOwners DEF IInv
  <1>4. ReasonStands'
    <2>1. SUFFICES ASSUME NEW r \in Rows
                   PROVE  /\ hiddenBy'[r] = Toggle => showOnlyUnresolved' /\ r \in Resolvable
                          /\ hiddenBy'[r] = Filter => ModelTypeOf[r] \notin applied'
      BY DEF ReasonStands
    <2>2. hiddenBy[r] = Toggle => showOnlyUnresolved /\ r \in Resolvable
      BY DEF IInv, ReasonStands
    <2>3. /\ applied' = q.typeNames /\ showOnlyUnresolved' = showOnlyUnresolved
          /\ Toggle # Filter /\ Toggle # Nobody /\ Filter # Nobody
      BY DEF ApplyFilter, Toggle, Filter, Nobody
    <2>4. r \in passing <=> ModelTypeOf[r] \in applied'
      BY <2>3 DEF Passing
    <2> HIDE DEF passing
    <2>5. CASE r \in passing
      <3>1. hiddenBy[r] = Filter => hiddenBy'[r] = Nobody
        BY <1>1, <2>5, OwnerAfter DEF MayShow
      <3>2. hiddenBy'[r] \in {Nobody, hiddenBy[r]}
        BY <1>1, <2>5, OwnerAfter
      <3> QED
        BY <2>2, <2>3, <3>1, <3>2
    <2>6. CASE r \notin passing
      <3>1. hiddenBy'[r] \in {Filter, hiddenBy[r]}
        BY <1>1, <2>6, OwnerAfter
      <3> QED
        BY <2>2, <2>3, <2>4, <2>6, <3>1
    <2> QED
      BY <2>5, <2>6
  <1> QED
    BY <1>2, <1>3, <1>4 DEF IInv

LEMMA IInvStep == IInv /\ [Next]_vars => IInv'
  <1> SUFFICES ASSUME IInv, [Next]_vars PROVE IInv'
    OBVIOUS
  <1>1. CASE ToggleUnresolvedResourceTypes
    BY <1>1, ToggleKeepsIInv
  <1>2. CASE RequestFilter
    <2>1. /\ showOnlyUnresolved' = showOnlyUnresolved /\ hiddenBy' = hiddenBy
          /\ visible' = visible /\ applied' = applied
      BY <1>2 DEF RequestFilter
    <2>2. asked' \in 1..MaxRequests
      BY <1>2, RowsAssumption DEF RequestFilter, IInv, TypeOK
    <2>3. requests' \subseteq Request
      <3>1. PICK typeNames \in Answers :
                requests' = requests \cup {[id |-> asked', typeNames |-> typeNames]}
        BY <1>2 DEF RequestFilter
      <3>2. [id |-> asked', typeNames |-> typeNames] \in Request
        BY <2>2 DEF Request
      <3> QED
        BY <3>1, <3>2 DEF IInv, TypeOK
    <2>4. TypeOK'
      BY <2>1, <2>2, <2>3 DEF IInv, TypeOK
    <2>5. OwnerKnown' /\ ReasonStands'
      BY <2>1 DEF IInv, OwnerKnown, ReasonStands
    <2> QED
      BY <2>4, <2>5 DEF IInv
  <1>3. ASSUME NEW q \in requests, ApplyFilter(q)
        PROVE  IInv'
    BY <1>3, ApplyKeepsIInv
  <1>4. ASSUME NEW q \in requests, LoseRequest(q)
        PROVE  IInv'
    <2>1. /\ showOnlyUnresolved' = showOnlyUnresolved /\ hiddenBy' = hiddenBy
          /\ visible' = visible /\ applied' = applied /\ asked' = asked
          /\ requests' \subseteq requests
      BY <1>4 DEF LoseRequest
    <2> QED
      BY <2>1 DEF IInv, TypeOK, OwnerKnown, ReasonStands
  <1>5. CASE UNCHANGED vars
    BY <1>5 DEF vars, IInv, TypeOK, OwnerKnown, ReasonStands
  <1> QED
    BY <1>1, <1>2, <1>3, <1>4, <1>5 DEF Next

LEMMA Invariance == Spec => []IInv
  BY IInvInit, IInvStep, PTL DEF Spec

(* The types of the page's state: rows know who has hidden them, requests   *)
(* are answered with model types (visibility, script.js 21-46).             *)
THEOREM TypeCorrect == Spec => []TypeOK
  BY Invariance, PTL DEF IInv

(* A row is hidden only while the reason of the control that has hidden it  *)
(* stands (visibility, script.js 21-46).                                    *)
THEOREM NoRowLost == Spec => []HiddenForAReason
  <1>1. IInv => HiddenForAReason
    BY DEF IInv, TypeOK, OwnerKnown, ReasonStands, HiddenForAReason
  <1> QED
    BY <1>1, Invariance, PTL

-----------------------------------------------------------------------------
\* A row that is to be hidden and not to be shown is hidden, by whomever.
LEMMA HiddenStays ==
    ASSUME IInv', NEW source, source # Nobody, NEW shown, NEW hidden,
           ShowAndHide(source, shown, hidden), NEW r \in Rows,
           r \in hidden, r \notin shown
    PROVE  ~visible'[r]
  <1>1. hiddenBy'[r] # Nobody
    BY OwnerAfter DEF MayHide
  <1>2. visible'[r] <=> hiddenBy'[r] = Nobody
    BY DEF IInv, OwnerKnown
  <1> QED
    BY <1>1, <1>2

(* What a control hides when it acts is hidden, whoever may bring it back   *)
(* (script.js 75-81, 51-58).                                                *)
LEMMA NothingLeft ==
    ASSUME IInv, IInv', [Next]_vars
    PROVE  /\ \A q \in requests : ApplyFilter(q) =>
                 \A r \in Rows : visible'[r] => ModelTypeOf[r] \in applied'
           /\ showOnlyUnresolved' /\ ~showOnlyUnresolved =>
                 \A r \in Rows : visible'[r] => r \notin Resolvable
  <1>1. ASSUME NEW q \in requests, ApplyFilter(q), NEW r \in Rows,
               ModelTypeOf[r] \notin applied'
        PROVE  ~visible'[r]
    <2>1. ShowAndHide(Filter, Passing(q.typeNames), Rows \ Passing(q.typeNames))
      BY <1>1 DEF ApplyFilter
    <2>2. r \notin Passing(q.typeNames)
      BY <1>1 DEF ApplyFilter, Passing
    <2> QED
      BY <1>1, <2>1, <2>2, HiddenStays DEF Filter, Nobody
  <1>2. ASSUME showOnlyUnresolved', ~showOnlyUnresolved,
               NEW r \in Rows, r \in Resolvable
        PROVE  ~visible'[r]
    <2>1. ToggleUnresolvedResourceTypes
      BY <1>2 DEF Next, RequestFilter, ApplyFilter, LoseRequest, vars
    <2>2. ShowAndHide(Toggle, {}, Resolvable)
      BY <1>2, <2>1 DEF ToggleUnresolvedResourceTypes
    <2> QED
      BY <1>2, <2>2, HiddenStays DEF Toggle, Nobody
  <1> QED
    BY <1>1, <1>2

(* The action property of that name, for every table and all answers.       *)
THEOREM ControlsHaveTheirWay == Spec => NothingLeftOver
  <1> DEFINE A == /\ \A q \in requests : ApplyFilter(q) =>
                        \A r \in Rows : visible'[r] => ModelTypeOf[r] \in applied'
                  /\ showOnlyUnresolved' /\ ~showOnlyUnresolved =>
                        \A r \in Rows : visible'[r] => r \notin Resolvable
  <1>1. IInv /\ IInv' /\ [Next]_vars => A
    BY NothingLeft
  <1>2. NothingLeftOver <=> [][A]_vars
    BY DEF NothingLeftOver
  <1> HIDE DEF A
  <1> QED
    BY <1>1, <1>2, Invariance, PTL DEF Spec
==============================================================================
