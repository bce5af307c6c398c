------------------------- MODULE ModelRegistryProofs -------------------------
(***************************************************************************)
(* The lookup cache of the ModelRegistry is coherent: for every set of     *)
(* types, models, bundles, resources, request threads and hierarchies, and *)
(* for any number of changes of the content.  The first part is about the  *)
(* traversal of a type hierarchy that nothing disturbs, the second about   *)
(* the threads that share the cache.                                       *)
(***************************************************************************)
EXTENDS ModelRegistry, TLAPS

IsQuestion(q) ==
    /\ q.start \in Types \cup {NoType}
    /\ q.further \in Seq(Types)

-----------------------------------------------------------------------------
(* The types above a type contain it, are closed under the super type ... *)
LEMMA LineClosed ==
    ASSUME NEW sup \in Hierarchies, NEW y \in Types
    PROVE  /\ y \in Line[sup][y]
           /\ Line[sup][y] \subseteq Types
           /\ \A z \in Line[sup][y] : sup[z] # NoType => sup[z] \in Line[sup][y]
<1>1. \A z \in Types : sup[z] # NoType => sup[z] \in Types
  BY HierarchyAssumption
<1> QED
  BY <1>1 DEF Line

(* ... and are contained in every set that does and is. *)
LEMMA LineLeast ==
    ASSUME NEW sup \in Hierarchies, NEW y \in Types, NEW S \in SUBSET Types,
           y \in S, \A z \in S : sup[z] # NoType => sup[z] \in S
    PROVE  Line[sup][y] \subseteq S
BY DEF Line

(* The types above a type are the type and the types above its super type. *)
LEMMA LineUnfolds ==
    ASSUME NEW sup \in Hierarchies, NEW y \in Types
    PROVE  Line[sup][y] = {y} \cup (IF sup[y] = NoType THEN {} ELSE Line[sup][sup[y]])
<1>1. CASE sup[y] = NoType
  <2>1. Line[sup][y] \subseteq {y}
    BY <1>1, LineLeast, {y} \in SUBSET Types
  <2> QED
    BY <1>1, <2>1, LineClosed
<1>2. CASE sup[y] # NoType
  <2>1. sup[y] \in Types
    BY <1>2, HierarchyAssumption
  <2>2. Line[sup][y] \subseteq {y} \cup Line[sup][sup[y]]
    <3> DEFINE S == {y} \cup Line[sup][sup[y]]
    <3>1. S \in SUBSET Types
      BY <2>1, LineClosed
    <3>2. \A z \in S : sup[z] # NoType => sup[z] \in S
      BY <2>1, LineClosed
    <3> HIDE DEF S
    <3>3. y \in S
      BY DEF S
    <3>4. Line[sup][y] \subseteq S
      BY <3>1, <3>2, <3>3, LineLeast
    <3> QED
      BY <3>4 DEF S
  <2>3. Line[sup][sup[y]] \subseteq Line[sup][y]
    BY <1>2, <2>1, LineClosed, LineLeast
  <2> QED
    BY <1>2, <2>2, <2>3, LineClosed
<1> QED
  BY <1>1, <1>2

(* No two types are above each other. *)
LEMMA LineAntisymmetric ==
    ASSUME NEW sup \in Hierarchies, NEW x \in Types, NEW y \in Types,
           x \in Line[sup][y], y \in Line[sup][x]
    PROVE  x = y
<1> SUFFICES ASSUME x # y PROVE FALSE
  OBVIOUS
<1>1. sup[y] # NoType /\ x \in Line[sup][sup[y]]
  BY LineUnfolds
<1>2. sup[y] \in Types
  BY <1>1, HierarchyAssumption
<1>3. Line[sup][x] \subseteq Line[sup][sup[y]]
  BY <1>1, <1>2, LineClosed, LineLeast
<1> QED
  BY <1>1, <1>3, HierarchyAssumption

-----------------------------------------------------------------------------
(* What positions look like. *)
LEMMA PositionShape ==
    ASSUME NEW q, IsQuestion(q), NEW p \in Positions(q)
    PROVE  /\ p.type \in Types
           /\ p.index \in 0 .. Len(q.further)
           /\ p = [type |-> p.type, index |-> p.index]
           /\ p.index # 0 => p = Further(q, p.index)
           /\ p # End
BY DEF IsQuestion, Positions, Further, End

LEMMA FurtherIsPosition ==
    ASSUME NEW q, IsQuestion(q), NEW i \in Nat \ {0}
    PROVE  /\ i <= Len(q.further) => /\ Further(q, i) \in Positions(q)
                                     /\ Further(q, i).index = i
                                     /\ Further(q, i) # End
           /\ i > Len(q.further) => Further(q, i) = End
<1>1. Len(q.further) \in Nat
  BY DEF IsQuestion
<1>2. CASE i <= Len(q.further)
  <2>1. i \in 1 .. Len(q.further)
    BY <1>1, <1>2
  <2>2. Further(q, i) = [type |-> q.further[i], index |-> i]
    BY <1>2 DEF Further
  <2> QED
    BY <1>2, <2>1, <2>2 DEF Positions, End
<1> QED
  BY <1>1, <1>2 DEF Further

(* A traversal starts and goes on at a position or ends. *)
LEMMA StepTypes ==
    ASSUME NEW q, IsQuestion(q), NEW sup \in Hierarchies
    PROVE  /\ First(q) \in Positions(q) \cup {End}
           /\ \A p \in Positions(q) : After(sup, q, p) \in Positions(q) \cup {End}
<1>1. \A i \in Nat \ {0} : Further(q, i) \in Positions(q) \cup {End}
  <2> TAKE i \in Nat \ {0}
  <2>1. Len(q.further) \in Nat
    BY DEF IsQuestion
  <2> QED
    BY <2>1, FurtherIsPosition
<1>2. \A y \in Types : [type |-> y, index |-> 0] \in Positions(q)
  BY DEF Positions
<1>3. First(q) \in Positions(q) \cup {End}
  BY <1>1, <1>2 DEF First, IsQuestion
<1>4. ASSUME NEW p \in Positions(q)
      PROVE  After(sup, q, p) \in Positions(q) \cup {End}
  <2>1. p.type \in Types /\ p.index + 1 \in Nat \ {0}
    <3>1. Len(q.further) \in Nat
      BY DEF IsQuestion
    <3> QED
      BY <3>1, PositionShape
  <2>2. sup[p.type] # NoType => sup[p.type] \in Types
    BY <2>1, HierarchyAssumption
  <2> QED
    BY <1>1, <1>2, <2>1, <2>2 DEF After
<1> QED
  BY <1>3, <1>4

-----------------------------------------------------------------------------
(* Where a traversal stands when it has moved on from p. *)
LEMMA AfterShape ==
    ASSUME NEW q, IsQuestion(q), NEW sup \in Hierarchies, NEW p \in Positions(q)
    PROVE  \/ /\ p.index = 0
              /\ sup[p.type] \in Types
              /\ sup[p.type] # NoType
              /\ After(sup, q, p) = [type |-> sup[p.type], index |-> 0]
              /\ After(sup, q, p) # End
           \/ /\ p.index = 0 => sup[p.type] = NoType
              /\ p.index < Len(q.further)
              /\ After(sup, q, p) = Further(q, p.index + 1)
              /\ After(sup, q, p).index = p.index + 1
              /\ After(sup, q, p) # End
           \/ /\ p.index = 0 => sup[p.type] = NoType
              /\ p.index = Len(q.further)
              /\ After(sup, q, p) = End
<1>1. p.type \in Types /\ p.index \in 0 .. Len(q.further) /\ Len(q.further) \in Nat
  BY PositionShape DEF IsQuestion
<1>2. sup[p.type] # NoType => sup[p.type] \in Types
  BY <1>1, HierarchyAssumption
<1>3. CASE p.index = 0 /\ sup[p.type] # NoType
  BY <1>2, <1>3 DEF After, End
<1>4. CASE ~ (p.index = 0 /\ sup[p.type] # NoType)
  <2>1. After(sup, q, p) = Further(q, p.index + 1) /\ p.index + 1 \in Nat \ {0}
    BY <1>1, <1>4 DEF After
  <2>2. CASE p.index < Len(q.further)
    BY <1>1, <1>4, <2>1, <2>2, FurtherIsPosition
  <2>3. CASE p.index = Len(q.further)
    BY <1>1, <1>4, <2>1, <2>3, FurtherIsPosition
  <2> QED
    BY <1>1, <2>2, <2>3
<1> QED
  BY <1>3, <1>4

(* Nothing precedes a position it is preceded by. *)
LEMMA PrecedesAsymmetric ==
    ASSUME NEW q, IsQuestion(q), NEW sup \in Hierarchies,
           NEW x \in Positions(q), NEW y \in Positions(q), Precedes(sup, x, y)
    PROVE  ~ Precedes(sup, y, x)
<1>1. /\ x.type \in Types /\ x.index \in Nat /\ x = [type |-> x.type, index |-> x.index]
      /\ y.type \in Types /\ y.index \in Nat /\ y = [type |-> y.type, index |-> y.index]
  BY PositionShape DEF IsQuestion
<1>2. SUFFICES ASSUME Precedes(sup, y, x) PROVE FALSE
  OBVIOUS
<1>3. /\ x.index = 0 /\ y.index = 0 /\ x # y
      /\ y.type \in Line[sup][x.type] /\ x.type \in Line[sup][y.type]
  BY <1>1, <1>2 DEF Precedes
<1>4. x.type = y.type
  BY <1>1, <1>3, LineAntisymmetric
<1> QED
  BY <1>1, <1>3, <1>4

(* The positions from p on are p and the positions from the next one on,   *)
(* and p precedes all of those.                                            *)
LEMMA FromUnfolds ==
    ASSUME NEW q, IsQuestion(q), NEW sup \in Hierarchies, NEW p \in Positions(q)
    PROVE  LET n == After(sup, q, p) IN
           /\ From(sup, q, p) = {p} \cup (IF n = End THEN {} ELSE From(sup, q, n))
           /\ n # End => \A x \in From(sup, q, n) : Precedes(sup, p, x)
<1> DEFINE n == After(sup, q, p)
<1> DEFINE rest == IF n = End THEN {} ELSE From(sup, q, n)
<1>1. \A x \in Positions(q) :
        /\ x.type \in Types
        /\ x.index \in 0 .. Len(q.further)
        /\ x = [type |-> x.type, index |-> x.index]
        /\ x.index # 0 => x = Further(q, x.index)
  BY PositionShape
<1>2. Len(q.further) \in Nat
  BY DEF IsQuestion
<1>3. SUFFICES \A x \in Positions(q) : Precedes(sup, p, x) <=> x \in rest
  <2>1. rest \subseteq Positions(q)
    BY DEF From
  <2>2. From(sup, q, p) = {p} \cup {x \in Positions(q) : Precedes(sup, p, x)}
    BY DEF From
  <2> HIDE DEF rest
  <2>3. From(sup, q, p) = {p} \cup rest /\ \A x \in rest : Precedes(sup, p, x)
    BY <1>3, <2>1, <2>2
  <2> QED
    BY <2>3 DEF rest
<1>4. CASE /\ p.index = 0 /\ sup[p.type] \in Types /\ sup[p.type] # NoType
           /\ n = [type |-> sup[p.type], index |-> 0] /\ n # End
  <2> TAKE x \in Positions(q)
  <2>1. Line[sup][p.type] = {p.type} \cup Line[sup][n.type]
    BY <1>1, <1>4, LineUnfolds
  <2>2. p.type \notin Line[sup][n.type]
    BY <1>1, <1>4, HierarchyAssumption
  <2>3. n.type \in Line[sup][n.type]
    BY <1>4, LineClosed
  <2>4. CASE x.index = 0
    <3>1. x.type = n.type <=> x = n
      BY <1>1, <1>4, <2>4
    <3>2. x.type = p.type <=> x = p
      BY <1>1, <1>4, <2>4
    <3>3. Precedes(sup, p, x) <=> x # p /\ x.type \in Line[sup][p.type]
      BY <1>4, <2>4 DEF Precedes
    <3>4. x \in rest <=> x = n \/ x.type \in Line[sup][n.type]
      BY <1>4, <2>4, <2>3 DEF Precedes, From
    <3> HIDE DEF rest, n
    <3> QED
      BY <2>1, <2>2, <2>3, <3>1, <3>2, <3>3, <3>4
  <2>5. CASE x.index # 0
    <3>1. x.index > 0 /\ x # n
      BY <1>1, <1>2, <1>4, <2>5
    <3>2. Precedes(sup, p, x) /\ Precedes(sup, n, x)
      BY <1>4, <3>1 DEF Precedes
    <3> QED
      BY <1>4, <3>2 DEF From
  <2> QED
    BY <2>4, <2>5
<1>5. CASE /\ p.index = 0 => sup[p.type] = NoType
           /\ p.index < Len(q.further) /\ n = Further(q, p.index + 1)
           /\ n.index = p.index + 1 /\ n # End
  <2> TAKE x \in Positions(q)
  <2>1. p.index \in Nat /\ x.index \in Nat /\ p.type \in Types
    BY <1>1, <1>2
  <2>2. p.index = 0 => Line[sup][p.type] = {p.type}
    BY <1>5, <2>1, LineUnfolds
  <2>3. Precedes(sup, p, x) <=> p.index < x.index
    BY <1>1, <2>1, <2>2 DEF Precedes
  <2>4. x.index = p.index + 1 => x = n
    BY <1>1, <1>5, <2>1
  <2>5. Precedes(sup, n, x) <=> p.index + 1 < x.index
    BY <1>5, <2>1 DEF Precedes
  <2>6. x \in rest <=> x = n \/ Precedes(sup, n, x)
    BY <1>5 DEF From
  <2> HIDE DEF rest, n
  <2> QED
    BY <1>5, <2>1, <2>3, <2>4, <2>5, <2>6
<1>6. CASE /\ p.index = 0 => sup[p.type] = NoType
           /\ p.index = Len(q.further) /\ n = End
  <2> TAKE x \in Positions(q)
  <2>1. p.index \in Nat /\ x.index \in Nat /\ x.index <= p.index /\ p.type \in Types
    BY <1>1, <1>2, <1>6
  <2>2. p.index = 0 => Line[sup][p.type] = {p.type}
    BY <1>6, <2>1, LineUnfolds
  <2>3. ~ Precedes(sup, p, x)
    BY <1>1, <2>1, <2>2 DEF Precedes
  <2> QED
    BY <1>6, <2>3
<1> QED
  BY <1>4, <1>5, <1>6, AfterShape

(* What a traversal finds from p on: the models of the type it stands at,  *)
(* and, unless it stops there, what it finds from the next position on.    *)
THEOREM FoundUnfolds ==
    ASSUME NEW q, IsQuestion(q), NEW sup \in Hierarchies, NEW src,
           NEW p \in Positions(q)
    PROVE  FoundFrom(src, sup, q, p) =
             ResolvedAt(src, q, p.type)
             \cup (IF Stops(src, q, p) THEN {}
                   ELSE FoundFrom(src, sup, q, After(sup, q, p)))
<1> DEFINE n == After(sup, q, p)
           rest == IF n = End THEN {} ELSE From(sup, q, n)
           Reached(P) == {y \in P : \A z \in P : Precedes(sup, z, y) => ~ Stops(src, q, z)}
<1>1. p # End
  BY PositionShape
<1>2. FoundFrom(src, sup, q, p) =
        UNION {ResolvedAt(src, q, x.type) : x \in Reached(From(sup, q, p))}
  BY <1>1 DEF FoundFrom
<1>3. FoundFrom(src, sup, q, n) = UNION {ResolvedAt(src, q, x.type) : x \in Reached(rest)}
  BY DEF FoundFrom
<1>4. From(sup, q, p) = {p} \cup rest /\ \A x \in rest : Precedes(sup, p, x)
  BY FromUnfolds
<1>5. \A x \in rest : ~ Precedes(sup, x, p)
  <2>1. rest \subseteq Positions(q)
    BY DEF From
  <2> QED
    BY <1>4, <2>1, PrecedesAsymmetric
<1>6. ~ Precedes(sup, p, p)
  BY PrecedesAsymmetric
<1> HIDE DEF rest, n
<1>7. Reached({p} \cup rest) = {p} \cup (IF Stops(src, q, p) THEN {} ELSE Reached(rest))
  BY <1>4, <1>5, <1>6
<1> HIDE DEF Reached
<1>8. FoundFrom(src, sup, q, p) =
        UNION {ResolvedAt(src, q, x.type) :
                  x \in {p} \cup (IF Stops(src, q, p) THEN {} ELSE Reached(rest))}
  BY <1>2, <1>4, <1>7
<1>9. CASE Stops(src, q, p)
  BY <1>8, <1>9
<1>10. CASE ~ Stops(src, q, p)
  BY <1>3, <1>8, <1>10 DEF n
<1> QED
  BY <1>9, <1>10

-----------------------------------------------------------------------------
(* Constants *)

LEMMA LookupFacts ==
    ASSUME NEW l \in Lookups
    PROVE  /\ KeyOf[l] \in Keys
           /\ IsQuestion(Question[l])
           /\ Question[l].kind \in {"any", "name", "type", "all"}
<1>1. /\ l.resource \in Resources
      /\ l.kind \in {"any", "name", "type", "all"}
  BY RegistryAssumption
<1>2. /\ ResourceType[l.resource] \in Types \cup {NoType}
      /\ FurtherTypes[l.resource] \in Seq(Types)
  BY <1>1, RegistryAssumption
<1>3. KeyOf[l] \in Keys
  BY DEF Keys
<1> QED
  BY <1>1, <1>2, <1>3 DEF Question, IsQuestion

LEMMA WriterFacts ==
    /\ Bundles \subseteq Writers
    /\ Writers \subseteq Clearers
    /\ Deactivator \in Writers
    /\ Worker \in Clearers
    /\ Worker \notin Writers
BY RegistryAssumption DEF Writers, Clearers

(* What is resolved at a type are resolved model sources. *)
LEMMA ResolvedAtType ==
    ASSUME NEW src \in [Types -> SUBSET Sources], NEW q, NEW y \in Types
    PROVE  ResolvedAt(src, q, y) \in Answer
BY DEF ResolvedAt, MatchesAt, Answer, ResolvedModelSource

-----------------------------------------------------------------------------
(* Type correctness *)

LEMMA InitTypeOK == Init => TypeOK
<1> SUFFICES ASSUME Init PROVE TypeOK
  OBVIOUS
<1>1. MaxChanges \in Nat
  BY RegistryAssumption
<1> QED
  BY <1>1 DEF Init, TypeOK, content, lookup, writing, Answer

LEMMA NextTypeOK == TypeOK /\ [Next]_vars => TypeOK'
<1> SUFFICES ASSUME TypeOK, [Next]_vars PROVE TypeOK'
  OBVIOUS
<1> USE DEF TypeOK
<1> USE WriterFacts
<1>1. ASSUME NEW b \in Bundles, NEW s \in Sources, BeginAdd(b, s)
      PROVE  TypeOK'
  <2>1. TypesOf[s] \in Seq(Types)
    BY RegistryAssumption
  <2> QED
    BY <1>1, <2>1 DEF BeginAdd, content, lookup
<1>2. ASSUME NEW b \in Bundles, DropDuplicate(b)
      PROVE  TypeOK'
  BY <1>2 DEF DropDuplicate, content, lookup, writing
<1>3. ASSUME NEW b \in Bundles, Insert(b)
      PROVE  TypeOK'
  <2>1. adding[b] \in Sources /\ Head(todo[b]) \in Types /\ Tail(todo[b]) \in Seq(Types)
    BY <1>3 DEF Insert
  <2>2. todo' \in [Writers -> Seq(Types)]
    BY <1>3, <2>1 DEF Insert
  <2>3. sources' \in [Types -> SUBSET Sources]
    BY <1>3, <2>1 DEF Insert
  <2> QED
    BY <1>3, <2>2, <2>3 DEF Insert, content, lookup
<1>4. ASSUME NEW b \in Bundles, BeginRemove(b)
      PROVE  TypeOK'
  BY <1>4 DEF BeginRemove, content, lookup
<1>5. ASSUME NEW b \in Bundles, RemoveSource(b)
      PROVE  TypeOK'
  BY <1>5 DEF RemoveSource, content, lookup, writing
<1>6. CASE BeginDeactivate
  BY <1>6 DEF BeginDeactivate, content, lookup
<1>7. CASE DropType
  BY <1>7 DEF DropType, content, lookup, writing
<1>8. ASSUME NEW w \in Writers, BeginClear(w)
      PROVE  TypeOK'
  BY <1>8 DEF BeginClear, content, lookup
<1>9. ASSUME NEW c \in Clearers, NEW k \in Keys, ClearKey(c, k)
      PROVE  TypeOK'
  BY <1>9 DEF ClearKey, content, lookup, writing
<1>10. ASSUME NEW t \in Requests, NEW l \in Lookups, Lookup(t, l)
       PROVE  TypeOK'
  <2>1. ask' \in [Requests -> Lookups \cup {NoLookup}] /\ DOMAIN pos' = Requests
    BY <1>10 DEF Lookup
  <2>2. found' \in [Requests -> Answer]
    BY <1>10, LookupFacts DEF Lookup
  <2>3. pc' \in [Requests -> {"idle", "compute", "visit", "collect", "advance",
                             "store", "return"}]
    <3>1. pc' = [pc EXCEPT ![t] = "return"] \/ pc' = [pc EXCEPT ![t] = "compute"]
      BY <1>10 DEF Lookup
    <3>2. pc \in [Requests -> {"idle", "compute", "visit", "collect", "advance",
                               "store", "return"}]
      OBVIOUS
    <3> HIDE DEF TypeOK
    <3> QED
      BY <3>1, <3>2
  <2>4. ASSUME NEW u \in Requests
        PROVE  /\ pc'[u] # "idle" => ask'[u] \in Lookups
               /\ pc'[u] \in {"visit", "collect", "advance"}
                    => pos'[u] \in Positions(Question[ask'[u]])
    <3>1. CASE u = t
      BY <1>10, <3>1 DEF Lookup
    <3>2. CASE u # t
      <4>1. pc'[u] = pc[u] /\ ask'[u] = ask[u] /\ pos'[u] = pos[u]
        BY <1>10, <3>2 DEF Lookup
      <4> QED
        BY <4>1
    <3> QED
      BY <3>1, <3>2
  <2> QED
    BY <1>10, <2>1, <2>2, <2>3, <2>4 DEF Lookup, content, writing
<1>11. ASSUME NEW t \in Requests, FindComputed(t)
       PROVE  TypeOK'
  BY <1>11, LookupFacts DEF FindComputed, content, writing
<1>12. ASSUME NEW t \in Requests, BeginTraversal(t)
       PROVE  TypeOK'
  <2>1. ask[t] \in Lookups
    BY <1>12 DEF BeginTraversal
  <2>2. First(Question[ask[t]]) \in Positions(Question[ask[t]]) \cup {End}
    BY <2>1, LookupFacts, StepTypes, <1>12
  <2> QED
    BY <1>12, <2>1, <2>2 DEF BeginTraversal, content, writing
<1>13. ASSUME NEW t \in Requests, VisitFiltered(t)
       PROVE  TypeOK'
  <2>1. ask[t] \in Lookups /\ pos[t] \in Positions(Question[ask[t]])
    BY <1>13 DEF VisitFiltered
  <2>2. pos[t].type \in Types
    BY <2>1, LookupFacts, PositionShape
  <2>3. ResolvedAt(sources, Question[ask[t]], pos[t].type) \in Answer
    BY <2>2, ResolvedAtType
  <2>4. found' \in [Requests -> Answer]
    BY <1>13, <2>3 DEF VisitFiltered, Answer
  <2>5. /\ pc' \in [Requests -> {"idle", "compute", "visit", "collect", "advance",
                                 "store", "return"}]
        /\ \A u \in Requests : u # t => pc'[u] = pc[u]
        /\ pc'[t] \in {"advance", "store"}
    BY <1>13 DEF VisitFiltered, AfterType
  <2> QED
    BY <1>13, <2>1, <2>4, <2>5 DEF VisitFiltered, content, writing
<1>14. ASSUME NEW t \in Requests, VisitUnfiltered(t)
       PROVE  TypeOK'
  BY <1>14 DEF VisitUnfiltered, content, writing
<1>15. ASSUME NEW t \in Requests, Collect(t)
       PROVE  TypeOK'
  <2>1. ask[t] \in Lookups /\ pos[t] \in Positions(Question[ask[t]])
    BY <1>15 DEF Collect
  <2>2. pos[t].type \in Types
    BY <2>1, LookupFacts, PositionShape
  <2>3. ResolvedAt(sources, Question[ask[t]], pos[t].type) \in Answer
    BY <2>2, ResolvedAtType
  <2>4. found' \in [Requests -> Answer]
    BY <1>15, <2>3 DEF Collect, Answer
  <2>5. /\ pc' \in [Requests -> {"idle", "compute", "visit", "collect", "advance",
                                 "store", "return"}]
        /\ \A u \in Requests : u # t => pc'[u] = pc[u]
        /\ pc'[t] \in {"advance", "store"}
    BY <1>15 DEF Collect, AfterType
  <2> QED
    BY <1>15, <2>1, <2>4, <2>5 DEF Collect, content, writing
<1>16. ASSUME NEW t \in Requests, Advance(t)
       PROVE  TypeOK'
  <2>1. ask[t] \in Lookups /\ pos[t] \in Positions(Question[ask[t]])
    BY <1>16 DEF Advance
  <2>2. After(super, Question[ask[t]], pos[t]) \in Positions(Question[ask[t]]) \cup {End}
    BY <2>1, LookupFacts, StepTypes
  <2> QED
    BY <1>16, <2>1, <2>2 DEF Advance, content, writing
<1>17. ASSUME NEW t \in Requests, Store(t)
       PROVE  TypeOK'
  BY <1>17, LookupFacts DEF Store, content, writing
<1>18. ASSUME NEW t \in Requests, Return(t)
       PROVE  TypeOK'
  BY <1>18 DEF Return, content, writing, Answer
<1>19. CASE ChangeHierarchy
  BY <1>19, RegistryAssumption DEF ChangeHierarchy, lookup, writing
<1>20. CASE HandleEvent
  BY <1>20 DEF HandleEvent, lookup, writing
<1>21. CASE Poll
  BY <1>21 DEF Poll, lookup, writing
<1>22. CASE UNCHANGED vars
  BY <1>22 DEF vars, content, lookup, writing
<1> QED
  BY <1>1, <1>2, <1>3, <1>4, <1>5, <1>6, <1>7, <1>8, <1>9, <1>10, <1>11, <1>12,
     <1>13, <1>14, <1>15, <1>16, <1>17, <1>18, <1>19, <1>20, <1>21, <1>22
     DEF Next, Write, Traverse

(* The variables of the registry and of its listener keep their types. *)
THEOREM TypeCorrect == Spec => []TypeOK
BY InitTypeOK, NextTypeOK, PTL DEF Spec

-----------------------------------------------------------------------------
(* One computation per key *)

LEMMA NextBeginnings == TypeOK /\ Beginnings /\ [Next]_vars => Beginnings'
<1> SUFFICES ASSUME TypeOK, Beginnings, [Next]_vars,
                    NEW u \in Requests
             PROVE  /\ pc'[u] \in {"idle", "compute"} => found'[u] = {}
                    /\ pc'[u] = "collect" => Question[ask'[u]].kind \in {"any", "all"}
  BY DEF Beginnings
<1> USE DEF TypeOK, Beginnings
<1>1. CASE UNCHANGED lookup
  BY <1>1 DEF lookup
<1>2. ASSUME NEW t \in Requests, NEW l \in Lookups, Lookup(t, l)
      PROVE  pc'[u] \in {"idle", "compute"} => found'[u] = {}
  BY <1>2 DEF Lookup
<1>3. ASSUME NEW t \in Requests, Traverse(t)
      PROVE  pc'[u] \in {"idle", "compute"} => found'[u] = {}
  BY <1>3 DEF Traverse, FindComputed, BeginTraversal, VisitFiltered, VisitUnfiltered,
              Collect, Advance, Store, Return, AfterType
<1>4. ASSUME NEW t \in Requests, NEW l \in Lookups, Lookup(t, l)
      PROVE  pc'[u] = "collect" => Question[ask'[u]].kind \in {"any", "all"}
  BY <1>4 DEF Lookup
<1>5. ASSUME NEW t \in Requests, Traverse(t)
      PROVE  pc'[u] = "collect" => Question[ask'[u]].kind \in {"any", "all"}
  BY <1>5 DEF Traverse, FindComputed, BeginTraversal, VisitFiltered, VisitUnfiltered,
              Collect, Advance, Store, Return, AfterType
<1>6. \/ UNCHANGED lookup
      \/ \E t \in Requests : (\E l \in Lookups : Lookup(t, l)) \/ Traverse(t)
  BY DEF Next, vars, Write, BeginAdd, DropDuplicate, Insert, BeginRemove, RemoveSource,
         BeginDeactivate, DropType, BeginClear, ClearKey, ChangeHierarchy, HandleEvent, Poll
<1> QED
  BY <1>1, <1>2, <1>3, <1>4, <1>5, <1>6

LEMMA NextOneComputation == TypeOK /\ OneComputation /\ [Next]_vars => OneComputation'
<1> SUFFICES ASSUME TypeOK, OneComputation, [Next]_vars,
                    NEW u \in Requests, Traversing(u)'
             PROVE  /\ cache'[KeyOf[ask'[u]]] = Absent
                    /\ \A v \in Requests :
                         Traversing(v)' /\ KeyOf[ask'[v]] = KeyOf[ask'[u]] => v = u
  BY DEF OneComputation
<1> USE DEF TypeOK, OneComputation, Traversing
<1>1. CASE UNCHANGED <<cache, lookup>>
  BY <1>1 DEF lookup
<1>2. ASSUME NEW c \in Clearers, NEW k \in Keys, ClearKey(c, k)
      PROVE  UNCHANGED lookup /\ cache'[KeyOf[ask[u]]] = Absent
  BY <1>2 DEF ClearKey, lookup, Computing
<1>3. ASSUME NEW t \in Requests, NEW l \in Lookups, Lookup(t, l)
      PROVE  \A v \in Requests : Traversing(v)' => Traversing(v) /\ ask'[v] = ask[v]
  BY <1>3 DEF Lookup
<1>4. ASSUME NEW t \in Requests,
             FindComputed(t) \/ VisitFiltered(t) \/ VisitUnfiltered(t) \/ Collect(t)
             \/ Advance(t) \/ Return(t)
      PROVE  /\ UNCHANGED cache
             /\ \A v \in Requests : Traversing(v)' => Traversing(v) /\ ask'[v] = ask[v]
  BY <1>4 DEF FindComputed, VisitFiltered, VisitUnfiltered, Collect, Advance, Return
<1>5. ASSUME NEW t \in Requests, BeginTraversal(t)
      PROVE  /\ UNCHANGED <<cache, ask>>
             /\ cache[KeyOf[ask[t]]] = Absent
             /\ ~ Computing(KeyOf[ask[t]])
             /\ \A v \in Requests : Traversing(v)' => Traversing(v) \/ v = t
  BY <1>5 DEF BeginTraversal
<1>6. ASSUME NEW t \in Requests, Store(t)
      PROVE  /\ \A v \in Requests : Traversing(v)' => Traversing(v) /\ v # t
             /\ UNCHANGED ask
             /\ Traversing(t)
             /\ \A k \in Keys : k # KeyOf[ask[t]] => cache'[k] = cache[k]
  BY <1>6 DEF Store
<1>7. \/ UNCHANGED <<cache, lookup>>
      \/ \E c \in Clearers : \E k \in Keys : ClearKey(c, k)
      \/ \E t \in Requests : (\E l \in Lookups : Lookup(t, l)) \/ Traverse(t)
  BY DEF Next, vars, Write, BeginAdd, DropDuplicate, Insert, BeginRemove, RemoveSource,
         BeginDeactivate, DropType, BeginClear, ChangeHierarchy, HandleEvent, Poll
<1>8. ASSUME NEW c \in Clearers, NEW k \in Keys, ClearKey(c, k)
      PROVE  /\ cache'[KeyOf[ask'[u]]] = Absent
             /\ \A v \in Requests :
                  Traversing(v)' /\ KeyOf[ask'[v]] = KeyOf[ask'[u]] => v = u
  BY <1>2, <1>8 DEF lookup
<1>9. ASSUME NEW t \in Requests, NEW l \in Lookups, Lookup(t, l)
      PROVE  /\ cache'[KeyOf[ask'[u]]] = Absent
             /\ \A v \in Requests :
                  Traversing(v)' /\ KeyOf[ask'[v]] = KeyOf[ask'[u]] => v = u
  <2>1. UNCHANGED cache
    BY <1>9 DEF Lookup
  <2> QED
    BY <1>3, <1>9, <2>1
<1>10. ASSUME NEW t \in Requests, Traverse(t)
       PROVE  /\ cache'[KeyOf[ask'[u]]] = Absent
              /\ \A v \in Requests :
                   Traversing(v)' /\ KeyOf[ask'[v]] = KeyOf[ask'[u]] => v = u
  <2>1. CASE BeginTraversal(t)
    <3>1. \A v \in Requests :
            Traversing(v)' /\ v # t => Traversing(v) /\ KeyOf[ask[v]] # KeyOf[ask[t]]
      BY <1>5, <2>1 DEF Computing
    <3>2. cache' = cache /\ ask' = ask /\ cache[KeyOf[ask[t]]] = Absent
      BY <1>5, <2>1
    <3>3. cache[KeyOf[ask[u]]] = Absent
      BY <3>1, <3>2
    <3>4. \A v \in Requests : Traversing(v)' /\ KeyOf[ask[v]] = KeyOf[ask[u]] => v = u
      BY <3>1
    <3> QED
      BY <3>2, <3>3, <3>4
  <2>2. CASE Store(t)
    <3>1. Traversing(u) /\ KeyOf[ask[u]] # KeyOf[ask[t]] /\ KeyOf[ask[u]] \in Keys
      BY <1>6, <2>2, LookupFacts
    <3> QED
      BY <1>6, <2>2, <3>1
  <2> QED
    BY <1>4, <1>10, <2>1, <2>2 DEF Traverse
<1> QED
  BY <1>1, <1>7, <1>8, <1>9, <1>10

-----------------------------------------------------------------------------
(* Coherence *)

(* While a writer writes, and until its clear has reached a key, the key   *)
(* is not settled; the same goes for a change of the content.              *)
LEMMA WritersUnsettle ==
    ASSUME TypeOK,
           \/ \E b \in Bundles : (\E s \in Sources : BeginAdd(b, s)) \/ BeginRemove(b) \/ Write(b)
           \/ BeginDeactivate \/ DropType
           \/ \E w \in Writers : BeginClear(w)
           \/ ChangeHierarchy \/ HandleEvent \/ Poll
    PROVE  /\ \A k \in Keys : ~ Settled(k)'
           /\ UNCHANGED <<cache, lookup>>
<1> USE WriterFacts DEF TypeOK, Settled
<1>1. ASSUME NEW b \in Bundles,
             (\E s \in Sources : BeginAdd(b, s)) \/ BeginRemove(b) \/ Write(b)
      PROVE  UNCHANGED <<cache, lookup>> /\ op'[b] # "idle"
  BY <1>1 DEF BeginAdd, BeginRemove, Write, DropDuplicate, Insert, RemoveSource, writing
<1>2. CASE BeginDeactivate \/ DropType
  <2>1. UNCHANGED <<cache, lookup>> /\ op'[Deactivator] # "idle"
    BY <1>2 DEF BeginDeactivate, DropType, writing
  <2> QED
    BY <2>1
<1>3. ASSUME NEW w \in Writers, BeginClear(w)
      PROVE  UNCHANGED <<cache, lookup>> /\ toClear'[w] = Keys
  BY <1>3 DEF BeginClear
<1>4. CASE ChangeHierarchy
  <2>1. UNCHANGED <<cache, lookup>> /\ events' # 0
    BY <1>4 DEF ChangeHierarchy
  <2> QED
    BY <2>1
<1>5. CASE HandleEvent
  <2>1. UNCHANGED <<cache, lookup>> /\ pending' # 0
    BY <1>5 DEF HandleEvent
  <2> QED
    BY <2>1
<1>6. CASE Poll
  <2>1. UNCHANGED <<cache, lookup>> /\ toClear'[Worker] = Keys
    BY <1>6 DEF Poll
  <2> QED
    BY <2>1
<1> QED
  BY <1>1, <1>2, <1>3, <1>4, <1>5, <1>6

(* A clear settles no key but the one it clears. *)
LEMMA ClearSettles ==
    ASSUME TypeOK, NEW c \in Clearers, NEW k \in Keys, ClearKey(c, k)
    PROVE  /\ \A j \in Keys : j # k /\ Settled(j)' => Settled(j) /\ cache'[j] = cache[j]
           /\ cache'[k] = Absent
           /\ ~ Computing(k)
           /\ UNCHANGED <<sources, super, lookup>>
BY DEF TypeOK, Settled, ClearKey, content, writing

(* The requests settle nothing and change nothing but the cache. *)
LEMMA RequestsSettleNothing ==
    ASSUME NEW t \in Requests, (\E l \in Lookups : Lookup(t, l)) \/ Traverse(t)
    PROVE  /\ \A k \in Keys : Settled(k)' <=> Settled(k)
           /\ UNCHANGED <<sources, super>>
           /\ Store(t) \/ UNCHANGED cache
<1>1. /\ UNCHANGED <<sources, content, writing, toClear>>
      /\ Store(t) \/ UNCHANGED cache
  BY DEF Lookup, Traverse, FindComputed, BeginTraversal, VisitFiltered, VisitUnfiltered,
         Collect, Advance, Store, Return
<1> QED
  BY <1>1 DEF Settled, content, writing

(* A step of one request leaves the traversals of the others alone. *)
LEMMA OthersOnCourse ==
    ASSUME TypeOK, NEW t \in Requests, (\E l \in Lookups : Lookup(t, l)) \/ Traverse(t),
           NEW u \in Requests, u # t, OnCourse(u)
    PROVE  OnCourse(u)'
<1>1. /\ pc'[u] = pc[u] /\ ask'[u] = ask[u] /\ pos'[u] = pos[u] /\ found'[u] = found[u]
  BY DEF TypeOK, Lookup, Traverse, FindComputed, BeginTraversal, VisitFiltered,
         VisitUnfiltered, Collect, Advance, Store, Return
<1>2. Traversing(u) => KeyOf[ask[u]] \in Keys
  BY LookupFacts DEF Traversing, TypeOK
<1> QED
  BY <1>1, <1>2, RequestsSettleNothing DEF OnCourse, Traversing, Remaining, Resolve

(* Where a traversal stands, it has still to find the models of the type,  *)
(* and those of the next position unless it stops.                         *)
LEMMA RemainingUnfolds ==
    ASSUME TypeOK, NEW t \in Requests, pc[t] \in {"visit", "collect"}
    PROVE  LET q == Question[ask[t]] IN
           /\ ask[t] \in Lookups
           /\ KeyOf[ask[t]] \in Keys
           /\ q.kind \in {"any", "name", "type", "all"}
           /\ FoundFrom(sources, super, q, pos[t]) =
                ResolvedAt(sources, q, pos[t].type)
                \cup (IF Stops(sources, q, pos[t]) THEN {}
                      ELSE FoundFrom(sources, super, q, After(super, q, pos[t])))
<1>1. /\ ask[t] \in Lookups
      /\ super \in Hierarchies
      /\ pos[t] \in Positions(Question[ask[t]])
  BY DEF TypeOK
<1> QED
  BY <1>1, LookupFacts, FoundUnfolds

(* A step of a traversal keeps it on course. *)
LEMMA StepOnCourse ==
    ASSUME TypeOK, Beginnings, NEW t \in Requests, OnCourse(t),
           (\E l \in Lookups : Lookup(t, l)) \/ Traverse(t)
    PROVE  OnCourse(t)'
<1> DEFINE q == Question[ask[t]]
           k == KeyOf[ask[t]]
           here == ResolvedAt(sources, q, pos[t].type)
           further == FoundFrom(sources, super, q, After(super, q, pos[t]))
<1>1. SUFFICES ASSUME Traversing(t)', Settled(KeyOf[ask[t]])', ask'[t] = ask[t]
               PROVE  /\ found'[t] \cup Remaining(t)' = Resolve(ask[t])
                      /\ pc'[t] = "collect" => sources[pos'[t].type] # {}
  <2>1. Traversing(t)' => ask'[t] = ask[t]
    BY DEF TypeOK, Lookup, Traverse, FindComputed, BeginTraversal, VisitFiltered,
           VisitUnfiltered, Collect, Advance, Store, Return, Traversing
  <2>2. UNCHANGED <<sources, super>>
    BY RequestsSettleNothing
  <2> QED
    BY <2>1, <2>2 DEF OnCourse, Resolve
<1>2. /\ UNCHANGED <<sources, super>>
      /\ ask[t] \in Lookups
      /\ Settled(k)
      /\ Traversing(t) => found[t] \cup Remaining(t) = Resolve(ask[t])
  <2>1. UNCHANGED <<sources, super>>
    BY RequestsSettleNothing
  <2>2. ask[t] \in Lookups
    BY <1>1 DEF TypeOK, Lookup, Traverse, FindComputed, BeginTraversal, VisitFiltered,
                VisitUnfiltered, Collect, Advance, Store, Return, Traversing
  <2>3. Settled(k)
    BY <1>1, <2>2, LookupFacts, RequestsSettleNothing
  <2> QED
    BY <2>1, <2>2, <2>3 DEF OnCourse
<1>3. Remaining(t)' =
        CASE pc'[t] \in {"visit", "collect"} -> FoundFrom(sources, super, q, pos'[t])
          [] pc'[t] = "advance" -> FoundFrom(sources, super, q, After(super, q, pos'[t]))
          [] OTHER -> {}
  BY <1>1, <1>2 DEF Remaining
<1>4. FoundFrom(sources, super, q, End) = {}
  BY DEF FoundFrom
<1>5. CASE BeginTraversal(t)
  <2>1. found'[t] = {} /\ pos'[t] = First(q)
    BY <1>5 DEF BeginTraversal, Beginnings, TypeOK
  <2>2. /\ pc'[t] = IF First(q) = End THEN "store" ELSE "visit"
    BY <1>5 DEF BeginTraversal, TypeOK
  <2> QED
    BY <1>3, <1>4, <2>1, <2>2 DEF Resolve, ResolveIn
<1>6. CASE VisitFiltered(t)
  <2>1. /\ pc[t] = "visit" /\ q.kind \in {"name", "type"} /\ pos'[t] = pos[t]
        /\ found'[t] = found[t] \cup here
        /\ pc'[t] = IF here # {} THEN "store" ELSE "advance"
    BY <1>6 DEF VisitFiltered, TypeOK, AfterType
  <2>2. found[t] \cup FoundFrom(sources, super, q, pos[t]) = Resolve(ask[t])
    BY <1>2, <2>1 DEF Traversing, Remaining
  <2>3. Stops(sources, q, pos[t]) <=> here # {}
    BY <2>1 DEF Stops, ResolvedAt
  <2> QED
    BY <1>3, <2>1, <2>2, <2>3, RemainingUnfolds
<1>7. CASE VisitUnfiltered(t)
  <2>1. /\ pc[t] = "visit" /\ pos'[t] = pos[t] /\ found'[t] = found[t]
        /\ pc'[t] = IF sources[pos[t].type] # {} THEN "collect" ELSE "advance"
    BY <1>7 DEF VisitUnfiltered, TypeOK
  <2>2. found[t] \cup FoundFrom(sources, super, q, pos[t]) = Resolve(ask[t])
    BY <1>2, <2>1 DEF Traversing, Remaining
  <2>3. CASE sources[pos[t].type] # {}
    BY <1>3, <2>1, <2>2, <2>3
  <2>4. CASE sources[pos[t].type] = {}
    <3>1. here = {} /\ ~ Stops(sources, q, pos[t])
      BY <2>4 DEF ResolvedAt, Stops, MatchesAt
    <3> QED
      BY <1>3, <2>1, <2>2, <2>4, <3>1, RemainingUnfolds
  <2> QED
    BY <2>3, <2>4
<1>8. CASE Collect(t)
  <2>1. /\ pc[t] = "collect" /\ q.kind \in {"any", "all"} /\ pos'[t] = pos[t]
        /\ found'[t] = found[t] \cup here
        /\ pc'[t] = IF q.kind = "all" THEN "advance" ELSE "store"
    BY <1>8 DEF Collect, TypeOK, AfterType, Beginnings
  <2>2. found[t] \cup FoundFrom(sources, super, q, pos[t]) = Resolve(ask[t])
    BY <1>2, <2>1 DEF Traversing, Remaining
  <2>3. sources[pos[t].type] # {}
    BY <1>2, <2>1 DEF OnCourse, Traversing
  <2>4. Stops(sources, q, pos[t]) <=> q.kind # "all"
    BY <2>1, <2>3 DEF Stops, MatchesAt, Accepts
  <2> QED
    BY <1>3, <2>1, <2>2, <2>4, RemainingUnfolds
<1>9. CASE Advance(t)
  <2>1. /\ pc[t] = "advance" /\ found'[t] = found[t]
        /\ pos'[t] = After(super, q, pos[t])
        /\ pc'[t] = IF After(super, q, pos[t]) = End THEN "store" ELSE "visit"
    BY <1>9 DEF Advance, TypeOK
  <2>2. found[t] \cup further = Resolve(ask[t])
    BY <1>2, <2>1 DEF Traversing, Remaining
  <2> QED
    BY <1>3, <1>4, <2>1, <2>2
<1>10. BeginTraversal(t) \/ VisitFiltered(t) \/ VisitUnfiltered(t) \/ Collect(t) \/ Advance(t)
  BY <1>1 DEF TypeOK, Lookup, Traverse, FindComputed, Store, Return, Traversing
<1> QED
  BY <1>5, <1>6, <1>7, <1>8, <1>9, <1>10

LEMMA NextTraversalOnCourse ==
    TypeOK /\ Beginnings /\ TraversalOnCourse /\ [Next]_vars => TraversalOnCourse'
<1> SUFFICES ASSUME TypeOK, Beginnings, TraversalOnCourse, [Next]_vars,
                    NEW u \in Requests
             PROVE  OnCourse(u)'
  BY DEF TraversalOnCourse
<1>1. OnCourse(u)
  BY DEF TraversalOnCourse
<1>2. Traversing(u) => KeyOf[ask[u]] \in Keys
  BY LookupFacts DEF Traversing, TypeOK
<1>3. CASE \E t \in Requests : (\E l \in Lookups : Lookup(t, l)) \/ Traverse(t)
  BY <1>1, <1>3, StepOnCourse, OthersOnCourse
<1>4. CASE \E c \in Clearers : \E k \in Keys : ClearKey(c, k)
  <2> PICK c \in Clearers, k \in Keys : ClearKey(c, k)
    BY <1>4
  <2>1. SUFFICES ASSUME Traversing(u), Settled(KeyOf[ask[u]])' PROVE OnCourse(u)'
    <3>1. UNCHANGED lookup
      BY ClearSettles
    <3> QED
      BY <3>1 DEF OnCourse, lookup, Traversing
  <2>2. KeyOf[ask[u]] # k
    BY <2>1, ClearSettles DEF Computing
  <2>3. Settled(KeyOf[ask[u]])
    BY <1>2, <2>1, <2>2 DEF Settled, ClearKey, TypeOK, content, writing, lookup
  <2>4. UNCHANGED <<sources, super, lookup>>
    BY ClearSettles
  <2> QED
    BY <1>1, <2>1, <2>3, <2>4 DEF OnCourse, lookup, Remaining, Resolve, Traversing
<1>5. CASE UNCHANGED vars
  <2>1. UNCHANGED <<sources, cache, super, events, pending, op, toClear, pc, ask, pos, found>>
    BY <1>5 DEF vars, content, lookup, writing
  <2> QED
    BY <1>1, <2>1 DEF OnCourse, Traversing, Settled, Remaining, Resolve
<1>6. CASE /\ \A k \in Keys : ~ Settled(k)'
           /\ UNCHANGED <<cache, lookup>>
  BY <1>2, <1>6 DEF OnCourse, Traversing, lookup
<1> QED
  BY <1>3, <1>4, <1>5, <1>6, WritersUnsettle DEF Next

LEMMA NextCacheCoherent ==
    ASSUME KeysSeparate, TypeOK, CacheCoherent, TraversalOnCourse, [Next]_vars
    PROVE  CacheCoherent'
<1> SUFFICES ASSUME NEW l \in Lookups, Settled(KeyOf[l])', cache'[KeyOf[l]] # Absent
             PROVE  cache'[KeyOf[l]] = Resolve(l)'
  BY DEF CacheCoherent
<1>1. KeyOf[l] \in Keys
  BY LookupFacts
<1>2. UNCHANGED <<sources, super>> => Resolve(l)' = Resolve(l)
  BY DEF Resolve
<1>3. ASSUME NEW t \in Requests, (\E m \in Lookups : Lookup(t, m)) \/ Traverse(t)
      PROVE  cache'[KeyOf[l]] = Resolve(l)'
  <2>1. Settled(KeyOf[l]) /\ UNCHANGED <<sources, super>>
    BY <1>1, <1>3, RequestsSettleNothing
  <2>2. CASE Store(t) /\ KeyOf[ask[t]] = KeyOf[l]
    <3>1. ask[t] \in Lookups /\ cache'[KeyOf[l]] = found[t]
      BY <1>1, <2>2 DEF Store, TypeOK
    <3>2. found[t] = Resolve(ask[t])
      BY <2>1, <2>2 DEF TraversalOnCourse, OnCourse, Store, Traversing, Remaining
    <3>3. Resolve(ask[t]) = Resolve(l)
      BY <2>2, <3>1 DEF KeysSeparate, Resolve
    <3> QED
      BY <1>2, <2>1, <3>1, <3>2, <3>3
  <2>3. CASE ~ (Store(t) /\ KeyOf[ask[t]] = KeyOf[l])
    <3>1. cache'[KeyOf[l]] = cache[KeyOf[l]]
      BY <1>1, <1>3, <2>3, RequestsSettleNothing DEF Store, TypeOK
    <3> QED
      BY <1>2, <2>1, <3>1 DEF CacheCoherent
  <2> QED
    BY <2>2, <2>3
<1>4. ASSUME NEW c \in Clearers, NEW k \in Keys, ClearKey(c, k)
      PROVE  cache'[KeyOf[l]] = Resolve(l)'
  <2>1. KeyOf[l] # k /\ UNCHANGED <<sources, super>>
    BY <1>4, ClearSettles
  <2>2. Settled(KeyOf[l]) /\ cache'[KeyOf[l]] = cache[KeyOf[l]]
    BY <1>1, <1>4, <2>1, ClearSettles
  <2> QED
    BY <1>2, <2>1, <2>2 DEF CacheCoherent
<1>5. CASE UNCHANGED vars
  <2>1. UNCHANGED <<sources, cache, super, events, pending, op, toClear>>
    BY <1>5 DEF vars, content, writing
  <2> QED
    BY <1>2, <2>1 DEF CacheCoherent, Settled
<1> QED
  BY <1>1, <1>3, <1>4, <1>5, WritersUnsettle DEF Next

LEMMA InitIInv == Init => IInv
<1> SUFFICES ASSUME Init PROVE IInv
  OBVIOUS
<1>1. \A t \in Requests : pc[t] = "idle" /\ found[t] = {}
  BY DEF Init
<1>2. \A l \in Lookups : cache[KeyOf[l]] = Absent
  BY LookupFacts DEF Init
<1> QED
  BY <1>1, <1>2, InitTypeOK
     DEF IInv, Beginnings, OneComputation, CacheCoherent, TraversalOnCourse, OnCourse,
         Traversing

(* A key is computed by one request at a time, whatever else is asked,      *)
(* written and cleared: ConcurrentHashMap.computeIfAbsent as it is used.    *)
THEOREM ComputedOnce == Spec => []OneComputation
<1>1. Init => OneComputation
  BY InitIInv DEF IInv
<1> QED
  BY <1>1, InitTypeOK, NextTypeOK, NextOneComputation, PTL DEF Spec

(* A traversal that no change has disturbed finds what it would find on a   *)
(* registry and hierarchy that stand still, also when other keys are being  *)
(* cleared and computed meanwhile.                                          *)
THEOREM TraversalsOnCourse == Spec => []TraversalOnCourse
<1>1. Init => TypeOK /\ Beginnings /\ TraversalOnCourse
  BY InitIInv DEF IInv
<1> QED
  BY <1>1, NextTypeOK, NextBeginnings, NextTraversalOnCourse, PTL DEF Spec

(* The invariant holds in every reachable state, provided that the keys    *)
(* tell apart what can be answered differently.                            *)
THEOREM Invariance == ASSUME KeysSeparate PROVE Spec => []IInv
<1>1. IInv /\ [Next]_vars => IInv'
  BY KeysSeparate, NextTypeOK, NextBeginnings, NextOneComputation, NextTraversalOnCourse,
     NextCacheCoherent
     DEF IInv
<1> QED
  BY <1>1, InitIInv, PTL DEF Spec

(* What the cache holds for a key that no pending change affects is what a *)
(* fresh traversal of registry and hierarchy finds, whatever the threads   *)
(* of ModelRegistry and its change listener do.                            *)
THEOREM Coherence == ASSUME KeysSeparate PROVE Spec => []CacheCoherent
<1>1. IInv => CacheCoherent
  BY DEF IInv
<1> QED
  BY <1>1, Invariance, PTL

-----------------------------------------------------------------------------
(* Answers given to callers *)

(* A lookup that returns while no change affects its key returns what a    *)
(* fresh traversal finds, from wherever it has its answer.                 *)
THEOREM FreshAnswers == ASSUME KeysSeparate PROVE Spec => ReturnsFresh
<1> DEFINE Fresh ==
        \A t \in Requests :
            pc[t] # "return" /\ pc'[t] = "return" /\ Settled(KeyOf[ask'[t]])
                => found'[t] = Resolve(ask'[t])
<1>1. ASSUME IInv, [Next]_vars PROVE Fresh
  <2> SUFFICES ASSUME NEW t \in Requests, pc[t] # "return", pc'[t] = "return",
                      Settled(KeyOf[ask'[t]])
               PROVE  found'[t] = Resolve(ask'[t])
    OBVIOUS
  <2> USE <1>1 DEF IInv, TypeOK
  <2>1. (\E l \in Lookups : Lookup(t, l)) \/ FindComputed(t) \/ Store(t)
    <3>1. ~ UNCHANGED lookup
      BY DEF lookup
    <3>2. \E u \in Requests : (\E l \in Lookups : Lookup(u, l)) \/ Traverse(u)
      BY <3>1 DEF Next, vars, Write, BeginAdd, DropDuplicate, Insert, BeginRemove,
                  RemoveSource, BeginDeactivate, DropType, BeginClear, ClearKey,
                  ChangeHierarchy, HandleEvent, Poll
    <3> QED
      BY <3>2 DEF Traverse, Lookup, FindComputed, BeginTraversal, VisitFiltered,
                  VisitUnfiltered, Collect, Advance, Store, Return, AfterType
  <2>2. ASSUME NEW l \in Lookups, Lookup(t, l)
        PROVE  found'[t] = Resolve(ask'[t])
    <3>1. ask'[t] = l /\ found'[t] = cache[KeyOf[l]] /\ cache[KeyOf[l]] # Absent
      BY <2>2 DEF Lookup
    <3> QED
      BY <3>1 DEF CacheCoherent
  <2>3. CASE FindComputed(t)
    <3>1. /\ ask[t] \in Lookups /\ ask'[t] = ask[t]
          /\ found'[t] = cache[KeyOf[ask[t]]] /\ cache[KeyOf[ask[t]]] # Absent
      BY <2>3 DEF FindComputed
    <3> QED
      BY <3>1 DEF CacheCoherent
  <2>4. CASE Store(t)
    <3>1. /\ ask'[t] = ask[t] /\ found'[t] = found[t]
          /\ Traversing(t) /\ Remaining(t) = {}
      BY <2>4 DEF Store, Traversing, Remaining
    <3> QED
      BY <3>1 DEF TraversalOnCourse, OnCourse
  <2> QED
    BY <2>1, <2>2, <2>3, <2>4
<1>2. IInv /\ [Next]_vars => [Fresh]_vars
  BY <1>1
<1> QED
  BY <1>2, Invariance, PTL DEF Spec, ReturnsFresh

-----------------------------------------------------------------------------
(* Refinement *)

LEMMA ResolveInType ==
    ASSUME NEW src \in [Types -> SUBSET Sources], NEW sup, NEW k \in Keys
    PROVE  ResolveIn(src, sup, QuestionOf[k]) \in Answer
<1> DEFINE l == CHOOSE l \in Lookups : KeyOf[l] = k
<1>1. l \in Lookups /\ QuestionOf[k] = Question[l]
  BY DEF Keys, QuestionOf
<1>2. IsQuestion(Question[l])
  BY <1>1, LookupFacts
<1>3. \A x \in Positions(Question[l]) : x.type \in Types
  BY <1>2, PositionShape
<1>4. \A x \in Positions(Question[l]) : ResolvedAt(src, Question[l], x.type) \in Answer
  BY <1>3, ResolvedAtType
<1> HIDE DEF l
<1> QED
  BY <1>1, <1>4 DEF ResolveIn, FoundFrom, From, Answer

LEMMA KeyQuestion ==
    ASSUME KeysSeparate, NEW l \in Lookups
    PROVE  QuestionOf[KeyOf[l]] = Question[l]
<1> DEFINE m == CHOOSE m \in Lookups : KeyOf[m] = KeyOf[l]
<1>1. m \in Lookups /\ KeyOf[m] = KeyOf[l]
  OBVIOUS
<1>2. QuestionOf[KeyOf[l]] = Question[m]
  BY LookupFacts DEF QuestionOf
<1> HIDE DEF m
<1> QED
  BY <1>1, <1>2 DEF KeysSeparate

LEMMA AbstractStep ==
    ASSUME KeysSeparate, IInv, TypeOK', [Next]_vars
    PROVE  [Abstract!Next]_(Abstract!vars)
<1> DEFINE truth == [k \in Keys |-> ResolveIn(sources, super, QuestionOf[k])]
           untrusted == {k \in Keys : ~ Settled(k)}
<1> USE DEF IInv
<1>1. UNCHANGED <<sources, super>> => truth' = truth
  OBVIOUS
<1>2. CASE (\A k \in Keys : ~ Settled(k)') /\ UNCHANGED <<cache, lookup>>
  <2>1. untrusted' = Keys /\ cache' = cache
    BY <1>2
  <2>2. truth' \in [Keys -> Answer]
    <3>1. sources' \in [Types -> SUBSET Sources]
      BY DEF TypeOK
    <3>2. \A k \in Keys : ResolveIn(sources', super', QuestionOf[k]) \in Answer
      BY <3>1, ResolveInType
    <3> QED
      BY <3>2
  <2> QED
    BY <2>1, <2>2 DEF Abstract!Next, Abstract!Change
<1>3. ASSUME NEW c \in Clearers, NEW k \in Keys, ClearKey(c, k)
      PROVE  Abstract!Next
  <2>1. cache' = [cache EXCEPT ![k] = Absent] /\ truth' = truth
    BY <1>1, <1>3, ClearSettles DEF ClearKey
  <2>2. \A j \in Keys : j # k => (Settled(j)' <=> Settled(j))
    BY <1>3 DEF Settled, ClearKey, TypeOK, content, writing
  <2>3. Settled(k) => Settled(k)'
    BY <1>3 DEF Settled, ClearKey, TypeOK, content, writing
  <2>4. untrusted' \in {untrusted, untrusted \ {k}}
    <3>1. untrusted' = IF Settled(k)' THEN untrusted \ {k} ELSE untrusted
      BY <2>2, <2>3
    <3> QED
      BY <3>1
  <2> QED
    BY <2>1, <2>4 DEF Abstract!Next, Abstract!Invalidate
<1>4. ASSUME NEW t \in Requests, (\E l \in Lookups : Lookup(t, l)) \/ Traverse(t)
      PROVE  [Abstract!Next]_(Abstract!vars)
  <2>1. truth' = truth /\ untrusted' = untrusted
    BY <1>1, <1>4, RequestsSettleNothing
  <2>2. CASE UNCHANGED cache
    BY <2>1, <2>2 DEF Abstract!vars
  <2>3. CASE Store(t)
    <3> DEFINE k == KeyOf[ask[t]]
    <3>1. /\ ask[t] \in Lookups /\ found[t] \in Answer
          /\ Traversing(t) /\ Remaining(t) = {}
          /\ cache' = [cache EXCEPT ![k] = found[t]]
      BY <2>3 DEF Store, TypeOK, Traversing, Remaining
    <3>2. k \in Keys /\ DOMAIN cache = Keys
      BY <3>1, LookupFacts DEF TypeOK
    <3>3. cache[k] = Absent
      BY <3>1 DEF OneComputation
    <3>4. found[t] # Absent
      BY <3>1, RegistryAssumption DEF Answer
    <3>5. Settled(k) => found[t] = truth[k]
      BY <3>1, <3>2, KeyQuestion DEF TraversalOnCourse, OnCourse, Resolve
    <3> HIDE DEF k, truth
    <3>6. Abstract!Fill(k)
      BY <2>1, <3>1, <3>2, <3>3, <3>4, <3>5 DEF Abstract!Fill, truth
    <3> QED
      BY <3>2, <3>6 DEF Abstract!Next
  <2> QED
    BY <1>4, <2>2, <2>3, RequestsSettleNothing
<1>5. CASE UNCHANGED vars
  <2>1. UNCHANGED <<sources, cache, super, events, pending, op, toClear>>
    BY <1>5 DEF vars, content, writing
  <2> QED
    BY <1>1, <2>1 DEF Abstract!vars, Settled
<1> QED
  BY <1>2, <1>3, <1>4, <1>5, WritersUnsettle DEF Next

(* The registry with all its threads implements the coherent cache: it     *)
(* hides that answers are computed while the registry is being written.    *)
THEOREM Refinement == ASSUME KeysSeparate PROVE Spec => ImplementsCoherentCache
<1>1. Init => Abstract!Init
  <2> SUFFICES ASSUME Init PROVE Abstract!Init
    OBVIOUS
  <2>1. \A k \in Keys : ResolveIn(sources, super, QuestionOf[k]) \in Answer
    BY InitTypeOK, ResolveInType DEF TypeOK
  <2> QED
    BY <2>1 DEF Abstract!Init, Init
<1>2. IInv /\ IInv' /\ [Next]_vars => [Abstract!Next]_(Abstract!vars)
  BY KeysSeparate, AbstractStep DEF IInv
<1> QED
  BY <1>1, <1>2, Invariance, PTL DEF Spec, ImplementsCoherentCache, Abstract!Spec
==============================================================================
