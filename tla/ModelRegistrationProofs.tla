----------------------- MODULE ModelRegistrationProofs -----------------------
(***************************************************************************)
(* What the registration of models guarantees for any number of factories, *)
(* bundles, models and events: types, and, for factories that are apart    *)
(* from each other, that registry, meta data and adapter agree.            *)
(***************************************************************************)
EXTENDS ModelRegistration, TLAPS

-----------------------------------------------------------------------------
(* Constants and sequences *)

LEMMA SequenceFacts ==
    ASSUME NEW s \in Seq(Models), s # <<>>
    PROVE  /\ Head(s) \in Models
           /\ Tail(s) \in Seq(Models)
           /\ Range(s) = {Head(s)} \cup Range(Tail(s))
<1>1. Len(s) \in Nat /\ Len(s) >= 1 /\ DOMAIN s = 1 .. Len(s)
  OBVIOUS
<1>2. /\ Head(s) = s[1] /\ Head(s) \in Models
      /\ Tail(s) \in Seq(Models) /\ Len(Tail(s)) = Len(s) - 1
      /\ \A i \in 1 .. Len(s) - 1 : Tail(s)[i] = s[i + 1]
  BY <1>1
<1>3. ASSUME NEW m \in Range(s)
      PROVE  m \in {Head(s)} \cup Range(Tail(s))
  <2>1. PICK i \in 1 .. Len(s) : m = s[i]
    BY <1>1, <1>3 DEF Range
  <2>2. CASE i = 1
    BY <1>2, <2>1, <2>2
  <2>3. CASE i # 1
    <3>1. i - 1 \in 1 .. Len(s) - 1 /\ m = Tail(s)[i - 1]
      BY <1>1, <1>2, <2>1, <2>3
    <3>2. DOMAIN Tail(s) = 1 .. Len(s) - 1
      BY <1>2
    <3> QED
      BY <3>1, <3>2 DEF Range
  <2> QED
    BY <2>2, <2>3
<1>4. ASSUME NEW m \in Range(Tail(s))
      PROVE  m \in Range(s)
  <2>1. PICK i \in 1 .. Len(s) - 1 : m = Tail(s)[i]
    BY <1>2, <1>4 DEF Range
  <2>2. i + 1 \in 1 .. Len(s) /\ m = s[i + 1]
    BY <1>1, <1>2, <2>1
  <2> QED
    BY <1>1, <2>2 DEF Range
<1>5. Head(s) \in Range(s)
  BY <1>1, <1>2 DEF Range
<1> QED
  BY <1>2, <1>3, <1>4, <1>5

LEMMA EmptyRange == Range(<<>>) = {}
BY DEF Range

LEMMA RangeInModels ==
    ASSUME NEW s \in Seq(Models)
    PROVE  Range(s) \subseteq Models
BY DEF Range

LEMMA DefinitionFacts ==
    ASSUME NEW f \in Factories
    PROVE  /\ DefinitionsOf[f] \in Seq(Models)
           /\ Defined(f) = Range(DefinitionsOf[f])
           /\ Defined(f) \subseteq Models
BY RegistrationAssumption, RangeInModels DEF Defined

LEMMA SourceFacts ==
    ASSUME NEW s \in Sources
    PROVE  /\ s.model \in Models /\ s.factory \in Factories
           /\ s = [model |-> s.model, factory |-> s.factory]
           /\ s # NoSource
           /\ ClassOf[s.model] \in Classes
BY RegistrationAssumption DEF Sources

-----------------------------------------------------------------------------
(* How a callback begins and goes on *)

LEMMA StartFacts ==
    ASSUME TypeOK, NEW f \in Factories, NEW first \in Steps,
           NEW models \in Seq(Models), NEW isOpening \in BOOLEAN,
           Start(f, first, models, isOpening)
    PROVE  /\ job' \in [Factories -> Jobs]
           /\ job[f].step = "idle"
           /\ job'[f].step = first /\ job'[f].rest = models
           /\ \A g \in Factories \ {f} : job'[g] = job[g]
<1> DEFINE j == [step |-> first, rest |-> models, opening |-> isOpening]
<1>1. j \in Jobs /\ j.step = first /\ j.rest = models
  BY DEF Jobs
<1>2. job' = [job EXCEPT ![f] = j] /\ job[f].step = "idle"
  BY DEF Start, Running
<1> HIDE DEF j
<1>3. job \in [Factories -> Jobs]
  BY DEF TypeOK
<1> QED
  BY <1>1, <1>2, <1>3

LEMMA ContinueFacts ==
    ASSUME TypeOK, NEW f \in Factories, NEW step \in Steps, Continue(f, step)
    PROVE  /\ job' \in [Factories -> Jobs]
           /\ job'[f].step = step /\ job'[f].rest = job[f].rest
           /\ \A g \in Factories \ {f} : job'[g] = job[g]
<1> DEFINE j == [job[f] EXCEPT !.step = step]
<1>1. job \in [Factories -> Jobs] /\ job[f] \in Jobs
  BY DEF TypeOK
<1>2. j \in Jobs /\ j.step = step /\ j.rest = job[f].rest
  BY <1>1 DEF Jobs
<1>3. job' = [job EXCEPT ![f] = j]
  BY DEF Continue
<1> HIDE DEF j
<1> QED
  BY <1>1, <1>2, <1>3

LEMMA AddFacts ==
    ASSUME TypeOK, NEW f \in Factories, AddSource(f)
    PROVE  /\ job[f].rest # <<>> /\ Head(job[f].rest) \in Models
           /\ job' \in [Factories -> Jobs]
           /\ job'[f].step = "register" /\ job'[f].rest = Tail(job[f].rest)
           /\ \A g \in Factories \ {f} : job'[g] = job[g]
<1> DEFINE j == [job[f] EXCEPT !.step = "register", !.rest = Tail(job[f].rest)]
<1>1. /\ job \in [Factories -> Jobs] /\ job[f] \in Jobs
      /\ job[f].rest # <<>> /\ Head(job[f].rest) \in Models
  <2>1. job \in [Factories -> Jobs] /\ job[f] \in Jobs /\ job[f].rest # <<>>
    BY DEF TypeOK, AddSource
  <2>2. job[f].rest \in Seq(Models)
    BY <2>1 DEF Jobs
  <2> QED
    BY <2>1, <2>2, SequenceFacts
<1>2. j \in Jobs /\ j.step = "register" /\ j.rest = Tail(job[f].rest)
  <2>1. Tail(job[f].rest) \in Seq(Models)
    BY <1>1, SequenceFacts DEF Jobs
  <2> QED
    BY <1>1, <2>1 DEF Jobs, Steps
<1>3. job' = [job EXCEPT ![f] = j]
  BY DEF AddSource
<1> HIDE DEF j
<1> QED
  BY <1>1, <1>2, <1>3

LEMMA EndFacts ==
    ASSUME TypeOK, NEW f \in Factories, job' = [job EXCEPT ![f] = Idle]
    PROVE  /\ job' \in [Factories -> Jobs]
           /\ job'[f].step = "idle" /\ job'[f].rest = <<>>
           /\ \A g \in Factories \ {f} : job'[g] = job[g]
<1>1. Idle \in Jobs /\ Idle.step = "idle" /\ Idle.rest = <<>>
  BY DEF Idle, Jobs, Steps
<1>2. job \in [Factories -> Jobs]
  BY DEF TypeOK
<1> QED
  BY <1>1, <1>2

-----------------------------------------------------------------------------
(* Type correctness *)

LEMMA InitTypeOK == Init => TypeOK
<1> SUFFICES ASSUME Init PROVE TypeOK
  OBVIOUS
<1>1. Idle \in Jobs
  BY DEF Idle, Jobs, Steps
<1>2. job \in [Factories -> Jobs] /\ \A f \in Factories : ~ At(f, "add")
  BY <1>1 DEF Init, Idle, At
<1>3. services \subseteq Factories /\ initial \subseteq services /\ MaxEvents \in Nat
  BY RegistrationAssumption DEF Init
<1>4. failed \in BOOLEAN
  BY DEF Init
<1>5. metaData \in [Classes -> Sources \cup {NoSource}]
  BY DEF Init
<1> QED
  BY <1>2, <1>3, <1>4, <1>5 DEF Init, TypeOK

LEMMA StartKeepsTypes ==
    ASSUME TypeOK, NEW f \in Factories, NEW first \in {"get", "remove"},
           NEW models \in Seq(Models), NEW isOpening \in BOOLEAN,
           Start(f, first, models, isOpening),
           services' \subseteq Factories, initial' \subseteq services',
           events' \in 0 .. MaxEvents
    PROVE  TypeOK'
<1>1. /\ job' \in [Factories -> Jobs]
      /\ job'[f].step = first /\ job'[f].rest = models
      /\ \A g \in Factories \ {f} : job'[g] = job[g]
  BY StartFacts DEF Steps
<1>2. \A g \in Factories : At(g, "add")' => job'[g].rest # <<>>
  BY <1>1 DEF At, TypeOK
<1> QED
  BY <1>1, <1>2 DEF TypeOK, Start, executor

LEMMA ContinueKeepsTypes ==
    ASSUME TypeOK, NEW f \in Factories, NEW step \in Steps, Continue(f, step),
           step = "add" => job[f].rest # <<>>
    PROVE  /\ job' \in [Factories -> Jobs]
           /\ \A g \in Factories : At(g, "add")' => job'[g].rest # <<>>
<1>1. /\ job' \in [Factories -> Jobs]
      /\ job'[f].step = step /\ job'[f].rest = job[f].rest
      /\ \A g \in Factories \ {f} : job'[g] = job[g]
  BY ContinueFacts
<1> QED
  BY <1>1 DEF At, TypeOK

LEMMA EndKeepsTypes ==
    ASSUME TypeOK, NEW f \in Factories, job' = [job EXCEPT ![f] = Idle]
    PROVE  /\ job' \in [Factories -> Jobs]
           /\ \A g \in Factories : At(g, "add")' => job'[g].rest # <<>>
<1>1. /\ job' \in [Factories -> Jobs]
      /\ job'[f].step = "idle"
      /\ \A g \in Factories \ {f} : job'[g] = job[g]
  BY EndFacts
<1> QED
  BY <1>1 DEF At, TypeOK

LEMMA NextTypeOK == TypeOK /\ [Next]_vars => TypeOK'
<1> SUFFICES ASSUME TypeOK, [Next]_vars PROVE TypeOK'
  OBVIOUS
<1>0. /\ services \subseteq Factories /\ initial \subseteq services
      /\ events \in 0 .. MaxEvents /\ MaxEvents \in Nat
  BY RegistrationAssumption DEF TypeOK
<1>1. ASSUME NEW f \in Factories, StartService(f)
      PROVE  TypeOK'
  <2>1. Start(f, "get", DefinitionsOf[f], FALSE)
    BY <1>1 DEF StartService
  <2>2. /\ services' \subseteq Factories /\ initial' \subseteq services'
        /\ events' \in 0 .. MaxEvents
    BY <1>0, <1>1 DEF StartService, Happens
  <2> QED
    BY <2>1, <2>2, DefinitionFacts, StartKeepsTypes
<1>2. ASSUME NEW f \in Factories, ModifyService(f)
      PROVE  TypeOK'
  <2>1. Start(f, "remove", DefinitionsOf[f], FALSE)
    BY <1>2 DEF ModifyService
  <2>2. /\ services' \subseteq Factories /\ initial' \subseteq services'
        /\ events' \in 0 .. MaxEvents
    BY <1>0, <1>2 DEF ModifyService, Happens
  <2> QED
    BY <2>1, <2>2, DefinitionFacts, StartKeepsTypes
<1>3. ASSUME NEW f \in Factories, StopService(f)
      PROVE  TypeOK'
  <2>1. Start(f, "remove", <<>>, FALSE)
    BY <1>3 DEF StopService
  <2>2. /\ services' \subseteq Factories /\ initial' \subseteq services'
        /\ events' \in 0 .. MaxEvents
    BY <1>0, <1>3 DEF StopService, Happens
  <2>3. <<>> \in Seq(Models)
    OBVIOUS
  <2> QED
    BY <2>1, <2>2, <2>3, StartKeepsTypes
<1>4. ASSUME NEW f \in Factories, StopUntracked(f)
      PROVE  TypeOK'
  BY <1>0, <1>4 DEF StopUntracked, Happens, executor, TypeOK, At
<1>5. ASSUME NEW f \in Factories, OpenTracker(f)
      PROVE  TypeOK'
  <2>1. Start(f, "get", DefinitionsOf[f], TRUE)
    BY <1>5 DEF OpenTracker
  <2>2. /\ services' \subseteq Factories /\ initial' \subseteq services'
        /\ events' \in 0 .. MaxEvents
    BY <1>0, <1>5 DEF OpenTracker
  <2> QED
    BY <2>1, <2>2, DefinitionFacts, StartKeepsTypes
<1>6. ASSUME NEW f \in Factories, RegisterMetaData(f)
      PROVE  TypeOK'
  <2>1. Continue(f, "add") /\ job[f].rest # <<>>
    BY <1>6 DEF RegisterMetaData
  <2>2. /\ job' \in [Factories -> Jobs]
        /\ \A g \in Factories : At(g, "add")' => job'[g].rest # <<>>
    BY <2>1, ContinueKeepsTypes DEF Steps
  <2>3. job[f].rest \in Seq(Models)
    BY DEF TypeOK, Jobs
  <2>4. Head(job[f].rest) \in Models
    BY <2>1, <2>3, SequenceFacts
  <2>5. metaData' \in [Classes -> Sources \cup {NoSource}]
    BY <1>6, <2>4 DEF RegisterMetaData, Sources, TypeOK
  <2> QED
    BY <1>0, <1>6, <2>2, <2>5 DEF RegisterMetaData, osgi, executor, TypeOK
<1>7. ASSUME NEW f \in Factories, AddSource(f)
      PROVE  TypeOK'
  <2>1. /\ Head(job[f].rest) \in Models
        /\ job' \in [Factories -> Jobs]
        /\ job'[f].step = "register"
        /\ \A g \in Factories \ {f} : job'[g] = job[g]
    BY <1>7, AddFacts
  <2>2. \A g \in Factories : At(g, "add")' => job'[g].rest # <<>>
    BY <2>1 DEF At, TypeOK
  <2>3. registry' \subseteq Sources
    BY <1>7, <2>1 DEF AddSource, Sources, TypeOK
  <2> QED
    BY <1>0, <1>7, <2>1, <2>2, <2>3 DEF AddSource, osgi, executor, TypeOK
<1>8. ASSUME NEW f \in Factories, Refresh(f)
      PROVE  TypeOK'
  <2>1. /\ job' \in [Factories -> Jobs]
        /\ \A g \in Factories : At(g, "add")' => job'[g].rest # <<>>
    BY <1>8, ContinueKeepsTypes DEF Refresh, Steps
  <2> QED
    BY <1>0, <1>8, <2>1 DEF Refresh, osgi, executor, TypeOK
<1>9. ASSUME NEW f \in Factories, Return(f)
      PROVE  TypeOK'
  <2>1. job' = [job EXCEPT ![f] = Idle] \/ Continue(f, "remove")
    BY <1>9 DEF Return
  <2>2. /\ job' \in [Factories -> Jobs]
        /\ \A g \in Factories : At(g, "add")' => job'[g].rest # <<>>
    BY <2>1, EndKeepsTypes, ContinueKeepsTypes DEF Steps
  <2> QED
    BY <1>0, <1>9, <2>2 DEF Return, osgi, executor, TypeOK
<1>10. ASSUME NEW f \in Factories, RemoveSources(f)
       PROVE  TypeOK'
  <2>1. /\ job' \in [Factories -> Jobs]
        /\ \A g \in Factories : At(g, "add")' => job'[g].rest # <<>>
    BY <1>10, ContinueKeepsTypes DEF RemoveSources, Steps
  <2> QED
    BY <1>0, <1>10, <2>1 DEF RemoveSources, osgi, executor, TypeOK
<1>11. ASSUME NEW f \in Factories, RemoveMetaData(f)
       PROVE  TypeOK'
  <2>1. /\ job' \in [Factories -> Jobs]
        /\ \A g \in Factories : At(g, "add")' => job'[g].rest # <<>>
    BY <1>11, ContinueKeepsTypes DEF RemoveMetaData, Steps
  <2>2. metaData' \in [Classes -> Sources \cup {NoSource}]
    BY <1>11 DEF RemoveMetaData, TypeOK
  <2> QED
    BY <1>0, <1>11, <2>1, <2>2 DEF RemoveMetaData, osgi, executor, TypeOK
<1>12. ASSUME NEW f \in Factories, EndRemoval(f)
       PROVE  TypeOK'
  <2>1. job' = [job EXCEPT ![f] = Idle] \/ Continue(f, "register")
    BY <1>12 DEF EndRemoval
  <2>2. /\ job' \in [Factories -> Jobs]
        /\ \A g \in Factories : At(g, "add")' => job'[g].rest # <<>>
    BY <2>1, EndKeepsTypes, ContinueKeepsTypes DEF Steps
  <2> QED
    BY <1>0, <1>12, <2>2 DEF EndRemoval, osgi, executor, TypeOK
<1>13. CASE UnregisterAdapter
  BY <1>0, <1>13 DEF UnregisterAdapter, osgi, TypeOK, At
<1>14. ASSUME NEW m \in Models, CollectNames(m)
       PROVE  TypeOK'
  <2>1. NamesOf[ClassOf[m]] \subseteq Names
    BY RegistrationAssumption
  <2> QED
    BY <1>0, <1>14, <2>1 DEF CollectNames, osgi, TypeOK, At
<1>15. CASE RegisterAdapter
  BY <1>0, <1>15 DEF RegisterAdapter, osgi, TypeOK, At
<1>16. CASE UNCHANGED vars
  BY <1>16 DEF vars, osgi, executor, TypeOK, At
<1>17. ASSUME NEW f \in Factories, GetService(f)
       PROVE  TypeOK'
  <2>1. /\ job' \in [Factories -> Jobs]
        /\ \A g \in Factories : At(g, "add")' => job'[g].rest # <<>>
    BY <1>17, ContinueKeepsTypes DEF GetService, Steps
  <2> QED
    BY <1>0, <1>17, <2>1 DEF GetService, osgi, executor, TypeOK
<1>18. ASSUME NEW f \in Factories, MissService(f)
       PROVE  TypeOK'
  <2>1. /\ job' \in [Factories -> Jobs]
        /\ \A g \in Factories : At(g, "add")' => job'[g].rest # <<>>
    BY <1>18, EndKeepsTypes DEF MissService
  <2>2. job[f].opening \in BOOLEAN
    BY DEF TypeOK, Jobs
  <2>3. failed' \in BOOLEAN
    BY <1>18, <2>2 DEF MissService, TypeOK
  <2> QED
    BY <1>0, <1>18, <2>1, <2>3 DEF MissService, executor, TypeOK
<1> QED
  BY <1>1, <1>2, <1>3, <1>4, <1>5, <1>6, <1>7, <1>8, <1>9, <1>10, <1>11, <1>12, <1>13,
     <1>14, <1>15, <1>16, <1>17, <1>18
  DEF Next, Environment, Callback, Executor

(* The types hold whatever bundles and classes the factories have.         *)
THEOREM TypeCorrect == Spec => []TypeOK
<1> QED
  BY InitTypeOK, NextTypeOK, PTL DEF Spec

-----------------------------------------------------------------------------
(* Registry, meta data and adapter agree.  What IInv says besides types is *)
(* proved action by action.                                                *)

Agreement ==
    /\ Provenance
    /\ StepsInOrder
    /\ RegisteredAreKnown
    /\ MetaDataHeld
    /\ RegistryFollows
    /\ AdapterFollows

LEMMA InitAgreement == Init => Agreement
<1> SUFFICES ASSUME Init PROVE Agreement
  OBVIOUS
<1>1. /\ registry = {} /\ published = {} /\ updater = "idle"
      /\ \A c \in Classes : metaData[c] = NoSource
      /\ \A f \in Factories : job[f].step = "idle" /\ job[f].rest = <<>>
      /\ initial = services
  BY DEF Init, Idle
<1>2. Provenance
  BY <1>1, EmptyRange DEF Provenance
<1>3. StepsInOrder /\ RegisteredAreKnown /\ MetaDataHeld
  BY <1>1 DEF StepsInOrder, RegisteredAreKnown, MetaDataHeld, At, Registered
<1>4. RegistryFollows
  BY <1>1 DEF RegistryFollows, Follows, Registered, At, Running
<1>5. AdapterFollows
  BY <1>1 DEF AdapterFollows, RegisteredNames, NamesIn
<1> QED
  BY <1>2, <1>3, <1>4, <1>5 DEF Agreement

(* A factory that a step does not concern is followed as before.           *)
LEMMA OthersFollowed ==
    ASSUME NEW g \in Factories, Follows(g),
           job'[g] = job[g],
           g \in initial' <=> g \in initial,
           g \in services' <=> g \in services,
           Registered(g)' = Registered(g)
    PROVE  Follows(g)'
BY DEF Follows, Running, At

(* The beginning of a callback. *)
LEMMA StartKeeps ==
    ASSUME TypeOK, Agreement, NEW f \in Factories, NEW first \in {"get", "remove"},
           NEW models \in Seq(Models), Range(models) \subseteq Defined(f),
           NEW isOpening \in BOOLEAN,
           Start(f, first, models, isOpening)
    PROVE  /\ Provenance' /\ StepsInOrder' /\ RegisteredAreKnown' /\ MetaDataHeld'
           /\ AdapterFollows'
<1>1. /\ job[f].step = "idle"
      /\ job'[f].step = first /\ job'[f].rest = models
      /\ \A g \in Factories \ {f} : job'[g] = job[g]
  BY StartFacts DEF Steps
<1>2. registry' = registry /\ metaData' = metaData
  BY DEF Start
<1>3. Provenance'
  BY <1>1, <1>2 DEF Agreement, Provenance
<1>4. StepsInOrder'
  BY <1>1, <1>2 DEF Agreement, StepsInOrder, Adding, At, Registered
<1>5. RegisteredAreKnown'
  BY <1>2 DEF Agreement, RegisteredAreKnown
<1>6. MetaDataHeld'
  <2> SUFFICES ASSUME NEW c \in Classes, metaData'[c] # NoSource
               PROVE  \/ metaData'[c] \in registry'
                      \/ Adding(metaData[c].factory, metaData[c])'
                      \/ At(metaData[c].factory, "forget")'
    BY <1>2 DEF MetaDataHeld
  <2>1. metaData[c] \in Sources /\ metaData[c].factory \in Factories
    BY <1>2, SourceFacts DEF TypeOK
  <2>2. \/ metaData[c] \in registry
        \/ Adding(metaData[c].factory, metaData[c])
        \/ At(metaData[c].factory, "forget")
    BY <1>2 DEF Agreement, MetaDataHeld
  <2> QED
    BY <1>1, <1>2, <2>1, <2>2 DEF Adding, At
<1>7. AdapterFollows'
  <2>1. Refreshed' => Refreshed
    BY <1>1 DEF Refreshed, Start
  <2> QED
    BY <1>2, <2>1 DEF Agreement, AdapterFollows, RegisteredNames, NamesIn, Start, executor
<1> QED
  BY <1>3, <1>4, <1>5, <1>6, <1>7

LEMMA ServiceKeeps ==
    ASSUME TypeOK, Agreement, NEW f \in Factories, Environment(f) \/ OpenTracker(f)
    PROVE  Agreement'
<1>1. registry' = registry /\ metaData' = metaData
  BY DEF Environment, StartService, ModifyService, StopService, StopUntracked, OpenTracker, Start
<1>2. \A g \in Factories : Registered(g)' = Registered(g)
  BY <1>1 DEF Registered
<1>3. DefinitionsOf[f] \in Seq(Models) /\ Range(DefinitionsOf[f]) = Defined(f)
  BY DefinitionFacts
<1>4. f \notin Impatient => Follows(f)
  BY DEF Agreement, RegistryFollows
<1>5. ASSUME NEW g \in Factories \ Impatient, g # f, job'[g] = job[g],
             g \in initial' <=> g \in initial, g \in services' <=> g \in services
      PROVE  Follows(g)'
  BY <1>2, <1>5, OthersFollowed DEF Agreement, RegistryFollows
<1>6. CASE StartService(f)
  <2>1. Start(f, "get", DefinitionsOf[f], FALSE)
    BY <1>6 DEF StartService
  <2>2. /\ job[f].step = "idle" /\ job'[f].step = "get" /\ job'[f].rest = DefinitionsOf[f]
        /\ \A g \in Factories \ {f} : job'[g] = job[g]
    BY <1>3, <2>1, StartFacts DEF Steps
  <2>3. f \notin services /\ services' = services \cup {f} /\ initial' = initial
        /\ initial \subseteq services
    BY <1>6 DEF StartService, TypeOK
  <2>4. f \notin Impatient => Follows(f)'
    BY <1>2, <1>3, <1>4, <2>2, <2>3 DEF Follows, Running, At
  <2>5. RegistryFollows'
    BY <1>5, <2>2, <2>3, <2>4 DEF RegistryFollows
  <2> QED
    BY <1>3, <2>1, <2>5, StartKeeps DEF Agreement
<1>7. CASE ModifyService(f)
  <2>1. Start(f, "remove", DefinitionsOf[f], FALSE)
    BY <1>7 DEF ModifyService
  <2>2. /\ job[f].step = "idle" /\ job'[f].step = "remove" /\ job'[f].rest = DefinitionsOf[f]
        /\ \A g \in Factories \ {f} : job'[g] = job[g]
    BY <1>3, <2>1, StartFacts DEF Steps
  <2>3. f \in services /\ f \notin initial /\ services' = services /\ initial' = initial
    BY <1>7 DEF ModifyService
  <2>4. f \notin Impatient => Follows(f)'
    BY <1>2, <1>3, <1>4, <2>2, <2>3 DEF Follows, Running, At
  <2>5. RegistryFollows'
    BY <1>5, <2>2, <2>3, <2>4 DEF RegistryFollows
  <2> QED
    BY <1>3, <2>1, <2>5, StartKeeps DEF Agreement
<1>8. CASE StopService(f)
  <2>1. Start(f, "remove", <<>>, FALSE)
    BY <1>8 DEF StopService
  <2>2. <<>> \in Seq(Models) /\ Range(<<>>) = {}
    BY EmptyRange
  <2>3. /\ job[f].step = "idle" /\ job'[f].step = "remove" /\ job'[f].rest = <<>>
        /\ \A g \in Factories \ {f} : job'[g] = job[g]
    BY <2>1, <2>2, StartFacts DEF Steps
  <2>4. f \notin initial /\ services' = services \ {f} /\ initial' = initial
    BY <1>8 DEF StopService
  <2>5. f \notin Impatient => Follows(f)'
    BY <1>2, <1>4, <2>2, <2>3, <2>4 DEF Follows, Running, At
  <2>6. RegistryFollows'
    BY <1>5, <2>3, <2>4, <2>5 DEF RegistryFollows
  <2> QED
    BY <2>1, <2>2, <2>6, StartKeeps DEF Agreement
<1>9. CASE OpenTracker(f)
  <2>1. Start(f, "get", DefinitionsOf[f], TRUE)
    BY <1>9 DEF OpenTracker
  <2>2. /\ job[f].step = "idle" /\ job'[f].step = "get" /\ job'[f].rest = DefinitionsOf[f]
        /\ \A g \in Factories \ {f} : job'[g] = job[g]
    BY <1>3, <2>1, StartFacts DEF Steps
  <2>3. f \in initial /\ f \in services /\ services' = services /\ initial' = initial \ {f}
    BY <1>9 DEF OpenTracker, TypeOK
  <2>4. f \notin Impatient => Follows(f)'
    BY <1>2, <1>3, <1>4, <2>2, <2>3 DEF Follows, Running, At
  <2>5. RegistryFollows'
    BY <1>5, <2>2, <2>3, <2>4 DEF RegistryFollows
  <2> QED
    BY <1>3, <2>1, <2>5, StartKeeps DEF Agreement
<1>10. CASE StopUntracked(f)
  <2>1. /\ job' = job /\ tasks' = tasks /\ UNCHANGED executor
        /\ services' = services \ {f} /\ initial' = initial \ {f}
        /\ f \in Impatient \/ f \in initial
    BY <1>10 DEF StopUntracked
  <2>2. Provenance' /\ StepsInOrder' /\ RegisteredAreKnown' /\ MetaDataHeld'
    BY <1>1, <2>1 DEF Agreement, Provenance, StepsInOrder, RegisteredAreKnown, MetaDataHeld,
                      Adding, At, Registered
  <2>3. f \notin Impatient => Follows(f)'
    BY <1>2, <1>4, <2>1 DEF Follows, Running, At
  <2>4. RegistryFollows'
    BY <1>5, <2>1, <2>3 DEF RegistryFollows
  <2>5. AdapterFollows'
    BY <1>1, <2>1 DEF Agreement, AdapterFollows, Refreshed, RegisteredNames, NamesIn, executor
  <2> QED
    BY <2>2, <2>4, <2>5 DEF Agreement
<1> QED
  BY <1>6, <1>7, <1>8, <1>9, <1>10 DEF Environment

(* Meta data is registered: a class of another factory is another class.   *)
LEMMA RegisterMetaDataKeeps ==
    ASSUME TypeOK, Agreement, FactoriesApart, NEW f \in Factories, RegisterMetaData(f)
    PROVE  Agreement'
<1>1. /\ job[f].step = "register" /\ job[f].rest # <<>> /\ registry' = registry
      /\ metaData' = [metaData EXCEPT ![ClassOf[Head(job[f].rest)]] =
                        [model |-> Head(job[f].rest), factory |-> f]]
      /\ services' = services /\ initial' = initial
  BY DEF RegisterMetaData, At, osgi
<1>2. /\ job'[f].step = "add" /\ job'[f].rest = job[f].rest
      /\ \A g \in Factories \ {f} : job'[g] = job[g]
  BY ContinueFacts DEF RegisterMetaData, Steps
<1>3. Head(job[f].rest) \in Models /\ Head(job[f].rest) \in Range(job[f].rest)
  BY <1>1, SequenceFacts DEF TypeOK, Jobs
<1>4. PICK s \in Sources : s = [model |-> Head(job[f].rest), factory |-> f]
  BY <1>3 DEF Sources
<1>5. /\ s # NoSource /\ s.model = Head(job[f].rest) /\ s.factory = f
      /\ ClassOf[s.model] \in Classes /\ s.model \in Defined(f)
  BY <1>3, <1>4, SourceFacts DEF Agreement, Provenance
<1>6. /\ metaData'[ClassOf[s.model]] = s
      /\ \A c \in Classes : c # ClassOf[s.model] => metaData'[c] = metaData[c]
  BY <1>1, <1>4, <1>5 DEF TypeOK
<1>7. Adding(f, s)'
  BY <1>2, <1>4 DEF Adding, At
<1>8. Provenance'
  BY <1>1, <1>2, <1>5, <1>6 DEF Agreement, Provenance
<1>9. StepsInOrder'
  <2> SUFFICES ASSUME NEW g \in Factories
               PROVE  /\ At(g, "add")' =>
                            \E r \in Sources : Adding(g, r)' /\ metaData'[ClassOf[r.model]] = r
                      /\ job'[g].step \in {"forget", "refresh"} => Registered(g)' = {}
    BY DEF StepsInOrder
  <2>1. Registered(g)' = Registered(g)
    BY <1>1 DEF Registered
  <2>2. CASE g = f
    BY <1>2, <1>6, <1>7, <2>2
  <2>3. CASE g # f
    <3>1. ASSUME At(g, "add")'
          PROVE  \E r \in Sources : Adding(g, r)' /\ metaData'[ClassOf[r.model]] = r
      <4>1. PICK r \in Sources : Adding(g, r) /\ metaData[ClassOf[r.model]] = r
        BY <1>2, <2>3, <3>1 DEF Agreement, StepsInOrder, At
      <4>2. r.factory = g /\ ClassOf[r.model] \in Classes /\ r # NoSource
        BY <4>1, SourceFacts DEF Adding
      <4>3. r.model \in Defined(g)
        BY <4>1, <4>2 DEF Agreement, Provenance
      <4>4. ClassOf[r.model] # ClassOf[s.model]
        BY <1>5, <2>3, <4>3 DEF FactoriesApart
      <4>5. Adding(g, r)'
        BY <1>2, <2>3, <4>1 DEF Adding, At
      <4> QED
        BY <1>6, <4>1, <4>2, <4>4, <4>5
    <3>2. job'[g].step \in {"forget", "refresh"} => Registered(g)' = {}
      BY <1>2, <2>1, <2>3 DEF Agreement, StepsInOrder
    <3> QED
      BY <3>1, <3>2
  <2> QED
    BY <2>2, <2>3
<1>10. RegisteredAreKnown'
  <2> SUFFICES ASSUME NEW r \in registry
               PROVE  metaData'[ClassOf[r.model]] # NoSource
    BY <1>1 DEF RegisteredAreKnown
  <2>1. ClassOf[r.model] \in Classes
    BY SourceFacts DEF TypeOK
  <2>2. metaData[ClassOf[r.model]] # NoSource
    BY DEF Agreement, RegisteredAreKnown
  <2> QED
    BY <1>5, <1>6, <2>1, <2>2
<1>11. MetaDataHeld'
  <2> SUFFICES ASSUME NEW c \in Classes, metaData'[c] # NoSource
               PROVE  \/ metaData'[c] \in registry'
                      \/ Adding(metaData[c].factory, metaData[c])'
                      \/ At(metaData[c].factory, "forget")'
    BY DEF MetaDataHeld
  <2>1. CASE c = ClassOf[s.model]
    <3>1. metaData'[c] = s
      BY <1>6, <2>1
    <3> QED
      BY <1>5, <1>7, <3>1
  <2>2. CASE c # ClassOf[s.model]
    <3>1. metaData'[c] = metaData[c]
      BY <1>6, <2>2
    <3>2. metaData[c] \in Sources /\ metaData[c].factory \in Factories
      BY <3>1, SourceFacts DEF TypeOK
    <3>3. \/ metaData[c] \in registry
          \/ Adding(metaData[c].factory, metaData[c])
          \/ At(metaData[c].factory, "forget")
      BY <3>1 DEF Agreement, MetaDataHeld
    <3> QED
      BY <1>1, <1>2, <3>1, <3>2, <3>3 DEF Adding, At
  <2> QED
    BY <2>1, <2>2
<1>12. RegistryFollows'
  <2>1. \A g \in Factories : Registered(g)' = Registered(g)
    BY <1>1 DEF Registered
  <2>2. f \notin Impatient => Follows(f)'
    BY <1>1, <1>2, <2>1 DEF Agreement, RegistryFollows, Follows, Running, At
  <2>3. ASSUME NEW g \in Factories \ Impatient, g # f
        PROVE  Follows(g)'
    BY <1>1, <1>2, <2>1, <2>3, OthersFollowed DEF Agreement, RegistryFollows
  <2> QED
    BY <2>2, <2>3 DEF RegistryFollows
<1>13. AdapterFollows'
  BY <1>2 DEF AdapterFollows, Refreshed
<1> QED
  BY <1>8, <1>9, <1>10, <1>11, <1>12, <1>13 DEF Agreement

(* The source replaces an equal one, which is one of the same factory.     *)
LEMMA AddSourceKeeps ==
    ASSUME TypeOK, Agreement, FactoriesApart, NEW f \in Factories, AddSource(f)
    PROVE  Agreement'
<1>1. /\ job[f].step = "add" /\ metaData' = metaData
      /\ services' = services /\ initial' = initial
  BY DEF AddSource, At, osgi
<1>2. /\ Head(job[f].rest) \in Models /\ job[f].rest # <<>>
      /\ job'[f].step = "register" /\ job'[f].rest = Tail(job[f].rest)
      /\ \A g \in Factories \ {f} : job'[g] = job[g]
  BY AddFacts
<1>3. Range(job[f].rest) = {Head(job[f].rest)} \cup Range(job'[f].rest)
  BY <1>2, SequenceFacts DEF TypeOK, Jobs
<1>4. PICK s \in Sources : Adding(f, s) /\ metaData[ClassOf[s.model]] = s
  BY <1>1 DEF Agreement, StepsInOrder, At
<1>5. /\ s # NoSource /\ s.model = Head(job[f].rest) /\ s.factory = f
      /\ s = [model |-> s.model, factory |-> f]
      /\ ClassOf[s.model] \in Classes /\ s.model \in Defined(f)
  BY <1>3, <1>4, SourceFacts DEF Adding, Agreement, Provenance
<1>6. registry' = registry \cup {s}
  <2>1. \A r \in registry : Replaces(r, s.model, f) => r = s
    BY <1>5, SourceFacts DEF Replaces, FactoriesApart, TypeOK
  <2>2. registry' = {r \in registry : ~ Replaces(r, s.model, f)} \cup {s}
    BY <1>5 DEF AddSource
  <2> QED
    BY <2>1, <2>2
<1>7. /\ Registered(f)' = Registered(f) \cup {s.model}
      /\ \A g \in Factories \ {f} : Registered(g)' = Registered(g)
  <2>1. s.model \in Models
    BY <1>2, <1>5
  <2>2. ASSUME NEW g \in Factories, NEW m \in Models
        PROVE  [model |-> m, factory |-> g] = s <=> m = s.model /\ g = f
    BY <1>5
  <2> QED
    BY <1>6, <2>1, <2>2 DEF Registered
<1>8. Provenance'
  BY <1>1, <1>2, <1>3, <1>5, <1>6 DEF Agreement, Provenance
<1>9. StepsInOrder'
  <2> SUFFICES ASSUME NEW g \in Factories, g # f
               PROVE  /\ At(g, "add")' =>
                            \E r \in Sources : Adding(g, r)' /\ metaData'[ClassOf[r.model]] = r
                      /\ job'[g].step \in {"forget", "refresh"} => Registered(g)' = {}
    BY <1>2 DEF StepsInOrder, At
  <2> QED
    BY <1>1, <1>2, <1>7 DEF Agreement, StepsInOrder, Adding, At
<1>10. RegisteredAreKnown'
  BY <1>1, <1>4, <1>5, <1>6 DEF Agreement, RegisteredAreKnown
<1>11. MetaDataHeld'
  <2> SUFFICES ASSUME NEW c \in Classes, metaData[c] # NoSource
               PROVE  \/ metaData[c] \in registry'
                      \/ Adding(metaData[c].factory, metaData[c])'
                      \/ At(metaData[c].factory, "forget")'
    BY <1>1 DEF MetaDataHeld
  <2>1. metaData[c] \in Sources /\ metaData[c].factory \in Factories
    BY SourceFacts DEF TypeOK
  <2>2. \/ metaData[c] \in registry
        \/ Adding(metaData[c].factory, metaData[c])
        \/ At(metaData[c].factory, "forget")
    BY DEF Agreement, MetaDataHeld
  <2>3. CASE metaData[c].factory = f
    BY <1>1, <1>4, <1>6, <2>2, <2>3 DEF Adding, At
  <2>4. CASE metaData[c].factory # f
    BY <1>1, <1>2, <1>6, <2>1, <2>2, <2>4 DEF Adding, At
  <2> QED
    BY <2>3, <2>4
<1>12. RegistryFollows'
  <2>1. f \notin Impatient => Follows(f)'
    BY <1>1, <1>2, <1>3, <1>5, <1>7 DEF Agreement, RegistryFollows, Follows, Running, At
  <2>2. ASSUME NEW g \in Factories \ Impatient, g # f
        PROVE  Follows(g)'
    BY <1>1, <1>2, <1>7, <2>2, OthersFollowed DEF Agreement, RegistryFollows
  <2> QED
    BY <2>1, <2>2 DEF RegistryFollows
<1>13. AdapterFollows'
  BY <1>2 DEF AdapterFollows, Refreshed
<1> QED
  BY <1>8, <1>9, <1>10, <1>11, <1>12, <1>13 DEF Agreement

(* The sources of the bundle go, and they are those of one factory.        *)
LEMMA RemoveSourcesKeeps ==
    ASSUME TypeOK, Agreement, FactoriesApart, NEW f \in Factories, RemoveSources(f)
    PROVE  Agreement'
<1>1. /\ job[f].step = "remove" /\ metaData' = metaData
      /\ services' = services /\ initial' = initial
  BY DEF RemoveSources, At, osgi
<1>2. /\ job'[f].step = "forget" /\ job'[f].rest = job[f].rest
      /\ \A g \in Factories \ {f} : job'[g] = job[g]
  BY ContinueFacts DEF RemoveSources, Steps
<1>3. \A s \in registry : s \in registry' <=> s.factory # f
  BY SourceFacts DEF RemoveSources, FactoriesApart, TypeOK
<1>4. registry' \subseteq registry
  BY DEF RemoveSources
<1>5. /\ Registered(f)' = {}
      /\ \A g \in Factories \ {f} : Registered(g)' = Registered(g)
  BY <1>3, <1>4 DEF Registered
<1>6. Provenance'
  BY <1>1, <1>2, <1>4 DEF Agreement, Provenance
<1>7. StepsInOrder'
  <2>1. ASSUME NEW g \in Factories, g # f
        PROVE  /\ At(g, "add")' =>
                    \E r \in Sources : Adding(g, r)' /\ metaData'[ClassOf[r.model]] = r
               /\ job'[g].step \in {"forget", "refresh"} => Registered(g)' = {}
    BY <1>1, <1>2, <1>5, <2>1 DEF Agreement, StepsInOrder, Adding, At
  <2> QED
    BY <1>2, <1>5, <2>1 DEF StepsInOrder, At
<1>8. RegisteredAreKnown'
  BY <1>1, <1>4 DEF Agreement, RegisteredAreKnown
<1>9. MetaDataHeld'
  <2> SUFFICES ASSUME NEW c \in Classes, metaData[c] # NoSource
               PROVE  \/ metaData[c] \in registry'
                      \/ Adding(metaData[c].factory, metaData[c])'
                      \/ At(metaData[c].factory, "forget")'
    BY <1>1 DEF MetaDataHeld
  <2>1. metaData[c] \in Sources /\ metaData[c].factory \in Factories
    BY SourceFacts DEF TypeOK
  <2>2. \/ metaData[c] \in registry
        \/ Adding(metaData[c].factory, metaData[c])
        \/ At(metaData[c].factory, "forget")
    BY DEF Agreement, MetaDataHeld
  <2> QED
    BY <1>1, <1>2, <1>3, <2>1, <2>2 DEF Adding, At
<1>10. RegistryFollows'
  <2>1. f \notin Impatient => Follows(f)'
    BY <1>1, <1>2, <1>5 DEF Agreement, RegistryFollows, Follows, Running, At
  <2>2. ASSUME NEW g \in Factories \ Impatient, g # f
        PROVE  Follows(g)'
    BY <1>1, <1>2, <1>5, <2>2, OthersFollowed DEF Agreement, RegistryFollows
  <2> QED
    BY <2>1, <2>2 DEF RegistryFollows
<1>11. AdapterFollows'
  BY <1>2 DEF AdapterFollows, Refreshed
<1> QED
  BY <1>6, <1>7, <1>8, <1>9, <1>10, <1>11 DEF Agreement

(* The meta data of the bundle goes, when its sources have gone. *)
LEMMA RemoveMetaDataKeeps ==
    ASSUME TypeOK, Agreement, FactoriesApart, NEW f \in Factories, RemoveMetaData(f)
    PROVE  Agreement'
<1>1. /\ job[f].step = "forget" /\ registry' = registry
      /\ services' = services /\ initial' = initial
  BY DEF RemoveMetaData, At, osgi
<1>2. /\ job'[f].step = "refresh" /\ job'[f].rest = job[f].rest
      /\ \A g \in Factories \ {f} : job'[g] = job[g]
  BY ContinueFacts DEF RemoveMetaData, Steps
<1>3. ASSUME NEW c \in Classes
      PROVE  \/ metaData[c] = NoSource /\ metaData'[c] = NoSource
             \/ /\ metaData[c] \in Sources /\ metaData[c].factory = f
                /\ metaData'[c] = NoSource
             \/ /\ metaData[c] \in Sources /\ metaData[c].factory # f
                /\ metaData'[c] = metaData[c]
  <2>1. metaData[c] = NoSource \/ (metaData[c] \in Sources /\ metaData[c].factory \in Factories)
    BY SourceFacts DEF TypeOK
  <2>2. metaData'[c] = IF metaData[c] # NoSource /\ BundleOf[metaData[c].factory] = BundleOf[f]
                       THEN NoSource ELSE metaData[c]
    BY DEF RemoveMetaData
  <2> QED
    BY <2>1, <2>2, SourceFacts DEF FactoriesApart
<1>4. \A g \in Factories : Registered(g)' = Registered(g)
  BY <1>1 DEF Registered
<1>5. Registered(f) = {}
  BY <1>1 DEF Agreement, StepsInOrder
(* Meta data of a model that is defined by another factory is kept. *)
<1>6. ASSUME NEW r \in Sources, r.factory # f, r.model \in Defined(r.factory),
             metaData[ClassOf[r.model]] # NoSource
      PROVE  metaData'[ClassOf[r.model]] = metaData[ClassOf[r.model]]
  <2> DEFINE s == metaData[ClassOf[r.model]]
  <2>1. ClassOf[r.model] \in Classes /\ r.factory \in Factories
    BY SourceFacts
  <2>2. s \in Sources /\ s.factory \in Factories
    BY <1>6, <2>1, SourceFacts DEF TypeOK
  <2>3. s.model \in Defined(s.factory) /\ ClassOf[s.model] = ClassOf[r.model]
    BY <1>6, <2>1 DEF Agreement, Provenance
  <2>4. s.factory = r.factory
    BY <1>6, <2>1, <2>2, <2>3 DEF FactoriesApart
  <2> QED
    BY <1>3, <1>6, <2>1, <2>2, <2>4
<1>7. Provenance'
  BY <1>1, <1>2, <1>3 DEF Agreement, Provenance
<1>8. StepsInOrder'
  <2>1. ASSUME NEW g \in Factories, g # f, At(g, "add")'
        PROVE  \E r \in Sources : Adding(g, r)' /\ metaData'[ClassOf[r.model]] = r
    <3>1. PICK r \in Sources : Adding(g, r) /\ metaData[ClassOf[r.model]] = r
      BY <1>2, <2>1 DEF Agreement, StepsInOrder, At
    <3>2. r.factory = g /\ r # NoSource /\ ClassOf[r.model] \in Classes
      BY <3>1, SourceFacts DEF Adding
    <3>3. r.model \in Defined(g)
      BY <3>1, <3>2 DEF Agreement, Provenance
    <3>4. metaData'[ClassOf[r.model]] = r
      BY <1>6, <2>1, <3>1, <3>2, <3>3
    <3> QED
      BY <1>2, <2>1, <3>1, <3>4 DEF Adding, At
  <2>2. ASSUME NEW g \in Factories, g # f
        PROVE  job'[g].step \in {"forget", "refresh"} => Registered(g)' = {}
    BY <1>2, <1>4, <2>2 DEF Agreement, StepsInOrder
  <2> QED
    BY <1>2, <1>4, <1>5, <2>1, <2>2 DEF StepsInOrder, At
<1>9. RegisteredAreKnown'
  <2> SUFFICES ASSUME NEW r \in registry
               PROVE  metaData'[ClassOf[r.model]] # NoSource
    BY <1>1 DEF RegisteredAreKnown
  <2>1. r \in Sources /\ r.model \in Models /\ r = [model |-> r.model, factory |-> r.factory]
    BY SourceFacts DEF TypeOK
  <2>2. r.factory # f
    BY <1>5, <2>1 DEF Registered
  <2>3. metaData[ClassOf[r.model]] # NoSource /\ r.model \in Defined(r.factory)
    BY DEF Agreement, RegisteredAreKnown, Provenance
  <2> QED
    BY <1>6, <2>1, <2>2, <2>3
<1>10. MetaDataHeld'
  <2> SUFFICES ASSUME NEW c \in Classes, metaData'[c] # NoSource
               PROVE  \/ metaData'[c] \in registry'
                      \/ Adding(metaData[c].factory, metaData[c])'
                      \/ At(metaData[c].factory, "forget")'
    BY DEF MetaDataHeld
  <2>1. /\ metaData'[c] = metaData[c] /\ metaData[c] # NoSource
        /\ metaData[c].factory \in Factories \ {f}
    BY <1>3, SourceFacts
  <2>2. \/ metaData[c] \in registry
        \/ Adding(metaData[c].factory, metaData[c])
        \/ At(metaData[c].factory, "forget")
    BY <2>1 DEF Agreement, MetaDataHeld
  <2> QED
    BY <1>1, <1>2, <2>1, <2>2 DEF Adding, At
<1>11. RegistryFollows'
  <2>1. f \notin Impatient => Follows(f)'
    BY <1>1, <1>2, <1>4 DEF Agreement, RegistryFollows, Follows, Running, At
  <2>2. ASSUME NEW g \in Factories \ Impatient, g # f
        PROVE  Follows(g)'
    BY <1>1, <1>2, <1>4, <2>2, OthersFollowed DEF Agreement, RegistryFollows
  <2> QED
    BY <2>1, <2>2 DEF RegistryFollows
<1>12. AdapterFollows'
  BY <1>2 DEF AdapterFollows, Refreshed
<1> QED
  BY <1>7, <1>8, <1>9, <1>10, <1>11, <1>12 DEF Agreement

(* Steps of a callback that change neither the registry nor meta data.     *)
LEMMA CallbackKeeps ==
    ASSUME TypeOK, Agreement, NEW f \in Factories,
           registry' = registry, metaData' = metaData,
           job[f].step \notin {"add", "forget"},
           job'[f].step \notin {"add", "forget"},
           job'[f].step = "refresh" => Registered(f) = {},
           Range(job'[f].rest) \subseteq Range(job[f].rest),
           \A g \in Factories \ {f} : job'[g] = job[g]
    PROVE  Provenance' /\ StepsInOrder' /\ RegisteredAreKnown' /\ MetaDataHeld'
<1>1. Provenance'
  BY DEF Agreement, Provenance
<1>2. StepsInOrder'
  <2>1. \A g \in Factories : Registered(g)' = Registered(g)
    BY DEF Registered
  <2>2. ASSUME NEW g \in Factories, g # f
        PROVE  /\ At(g, "add")' =>
                    \E r \in Sources : Adding(g, r)' /\ metaData'[ClassOf[r.model]] = r
               /\ job'[g].step \in {"forget", "refresh"} => Registered(g)' = {}
    BY <2>1, <2>2 DEF Agreement, StepsInOrder, Adding, At
  <2> QED
    BY <2>1, <2>2 DEF StepsInOrder, At
<1>3. RegisteredAreKnown'
  BY DEF Agreement, RegisteredAreKnown
<1>4. MetaDataHeld'
  <2> SUFFICES ASSUME NEW c \in Classes, metaData[c] # NoSource
               PROVE  \/ metaData[c] \in registry
                      \/ Adding(metaData[c].factory, metaData[c])'
                      \/ At(metaData[c].factory, "forget")'
    BY DEF MetaDataHeld
  <2>1. metaData[c].factory \in Factories
    BY SourceFacts DEF TypeOK
  <2>2. \/ metaData[c] \in registry
        \/ Adding(metaData[c].factory, metaData[c])
        \/ At(metaData[c].factory, "forget")
    BY DEF Agreement, MetaDataHeld
  <2> QED
    BY <2>1, <2>2 DEF Adding, At
<1> QED
  BY <1>1, <1>2, <1>3, <1>4

(* The service is there, or none that is claimed to be followed.           *)
LEMMA GetServiceKeeps ==
    ASSUME TypeOK, Agreement, NEW f \in Factories, GetService(f) \/ MissService(f)
    PROVE  Agreement'
<1>1. /\ job[f].step = "get" /\ tasks' = tasks /\ UNCHANGED executor
      /\ registry' = registry /\ metaData' = metaData
      /\ services' = services /\ initial' = initial
  BY DEF GetService, MissService, At, osgi
<1>2. \/ /\ job'[f].step = "register" /\ job'[f].rest = job[f].rest
         /\ \A g \in Factories \ {f} : job'[g] = job[g]
      \/ /\ f \notin services
         /\ job'[f].step = "idle" /\ job'[f].rest = <<>>
         /\ \A g \in Factories \ {f} : job'[g] = job[g]
  BY EndFacts, ContinueFacts DEF GetService, MissService, Steps
<1>3. Provenance' /\ StepsInOrder' /\ RegisteredAreKnown' /\ MetaDataHeld'
  BY <1>1, <1>2, CallbackKeeps, EmptyRange
<1>4. \A g \in Factories : Registered(g)' = Registered(g)
  BY <1>1 DEF Registered
<1>5. RegistryFollows'
  <2>1. f \notin Impatient => Follows(f)'
    BY <1>1, <1>2, <1>4 DEF Agreement, RegistryFollows, Follows, Running, At
  <2>2. ASSUME NEW g \in Factories \ Impatient, g # f
        PROVE  Follows(g)'
    BY <1>1, <1>2, <1>4, <2>2, OthersFollowed DEF Agreement, RegistryFollows
  <2> QED
    BY <2>1, <2>2 DEF RegistryFollows
<1>6. AdapterFollows'
  <2>1. Refreshed' => Refreshed
    BY <1>1, <1>2 DEF Refreshed
  <2> QED
    BY <1>1, <2>1 DEF Agreement, AdapterFollows, RegisteredNames, NamesIn, executor
<1> QED
  BY <1>3, <1>5, <1>6 DEF Agreement

LEMMA RefreshKeeps ==
    ASSUME TypeOK, Agreement, NEW f \in Factories, Refresh(f)
    PROVE  Agreement'
<1>1. /\ job[f].step = "register" /\ job[f].rest = <<>> /\ tasks' = tasks + 1
      /\ registry' = registry /\ metaData' = metaData
      /\ services' = services /\ initial' = initial
  BY DEF Refresh, At, osgi
<1>2. /\ job'[f].step = "return" /\ job'[f].rest = job[f].rest
      /\ \A g \in Factories \ {f} : job'[g] = job[g]
  BY ContinueFacts DEF Refresh, Steps
<1>3. Provenance' /\ StepsInOrder' /\ RegisteredAreKnown' /\ MetaDataHeld'
  BY <1>1, <1>2, CallbackKeeps
<1>4. \A g \in Factories : Registered(g)' = Registered(g)
  BY <1>1 DEF Registered
<1>5. RegistryFollows'
  <2>1. f \notin Impatient => Follows(f)'
    BY <1>1, <1>2, <1>4, EmptyRange DEF Agreement, RegistryFollows, Follows, Running, At
  <2>2. ASSUME NEW g \in Factories \ Impatient, g # f
        PROVE  Follows(g)'
    BY <1>1, <1>2, <1>4, <2>2, OthersFollowed DEF Agreement, RegistryFollows
  <2> QED
    BY <2>1, <2>2 DEF RegistryFollows
<1>6. AdapterFollows'
  BY <1>1 DEF AdapterFollows, Refreshed, TypeOK
<1> QED
  BY <1>3, <1>5, <1>6 DEF Agreement

LEMMA ReturnKeeps ==
    ASSUME TypeOK, Agreement, NEW f \in Factories, Return(f)
    PROVE  Agreement'
<1>1. /\ job[f].step = "return" /\ tasks' = tasks /\ UNCHANGED executor
      /\ registry' = registry /\ metaData' = metaData
      /\ services' = services /\ initial' = initial
  BY DEF Return, At, osgi
<1>2. \/ /\ job'[f].step = "idle" /\ job'[f].rest = <<>>
         /\ \A g \in Factories \ {f} : job'[g] = job[g]
      \/ /\ f \notin services
         /\ job'[f].step = "remove" /\ job'[f].rest = job[f].rest
         /\ \A g \in Factories \ {f} : job'[g] = job[g]
  BY EndFacts, ContinueFacts DEF Return, Steps
<1>3. Provenance' /\ StepsInOrder' /\ RegisteredAreKnown' /\ MetaDataHeld'
  BY <1>1, <1>2, CallbackKeeps, EmptyRange
<1>4. \A g \in Factories : Registered(g)' = Registered(g)
  BY <1>1 DEF Registered
<1>5. RegistryFollows'
  <2>1. f \notin Impatient => Follows(f)'
    BY <1>1, <1>2, <1>4 DEF Agreement, RegistryFollows, Follows, Running, At
  <2>2. ASSUME NEW g \in Factories \ Impatient, g # f
        PROVE  Follows(g)'
    BY <1>1, <1>2, <1>4, <2>2, OthersFollowed DEF Agreement, RegistryFollows
  <2> QED
    BY <2>1, <2>2 DEF RegistryFollows
<1>6. AdapterFollows'
  <2>1. Refreshed' => Refreshed
    BY <1>1, <1>2 DEF Refreshed
  <2> QED
    BY <1>1, <2>1 DEF Agreement, AdapterFollows, RegisteredNames, NamesIn, executor
<1> QED
  BY <1>3, <1>5, <1>6 DEF Agreement

LEMMA EndRemovalKeeps ==
    ASSUME TypeOK, Agreement, NEW f \in Factories, EndRemoval(f)
    PROVE  Agreement'
<1>1. /\ job[f].step = "refresh" /\ tasks' = tasks + 1
      /\ registry' = registry /\ metaData' = metaData
      /\ services' = services /\ initial' = initial
  BY DEF EndRemoval, At, osgi
<1>2. \/ /\ job[f].rest = <<>> /\ job'[f].step = "idle" /\ job'[f].rest = <<>>
         /\ \A g \in Factories \ {f} : job'[g] = job[g]
      \/ /\ job[f].rest # <<>> /\ job'[f].step = "register" /\ job'[f].rest = job[f].rest
         /\ \A g \in Factories \ {f} : job'[g] = job[g]
  BY EndFacts, ContinueFacts DEF EndRemoval, Steps
<1>3. Provenance' /\ StepsInOrder' /\ RegisteredAreKnown' /\ MetaDataHeld'
  BY <1>1, <1>2, CallbackKeeps
<1>4. \A g \in Factories : Registered(g)' = Registered(g)
  BY <1>1 DEF Registered
<1>5. RegistryFollows'
  <2>1. Registered(f) = {}
    BY <1>1 DEF Agreement, StepsInOrder
  <2>2. job[f].rest # <<>> => Range(job[f].rest) # {}
    BY SequenceFacts DEF TypeOK, Jobs
  <2>3. ASSUME f \notin Impatient
        PROVE  Follows(f)'
    <3> DEFINE models == IF f \in services \ initial THEN Defined(f) ELSE {}
    <3>1. f \notin initial /\ Range(job[f].rest) = models
      BY <1>1, <2>3 DEF Agreement, RegistryFollows, Follows, Running, At
    <3>2. Registered(f)' = {}
      BY <1>4, <2>1
    <3>3. CASE job'[f].step = "idle"
      <4>1. models = {}
        BY <1>2, <3>1, <3>3, EmptyRange
      <4> QED
        BY <1>1, <3>1, <3>2, <3>3, <4>1 DEF Follows, Running, At
    <3>4. CASE job'[f].step = "register"
      <4>1. f \in services \ initial /\ Range(job'[f].rest) = models
        BY <1>2, <2>2, <3>1, <3>4
      <4> QED
        BY <1>1, <3>1, <3>2, <3>4, <4>1 DEF Follows, Running, At
    <3> QED
      BY <1>2, <3>3, <3>4
  <2>4. ASSUME NEW g \in Factories \ Impatient, g # f
        PROVE  Follows(g)'
    BY <1>1, <1>2, <1>4, <2>4, OthersFollowed DEF Agreement, RegistryFollows
  <2> QED
    BY <2>3, <2>4 DEF RegistryFollows
<1>6. AdapterFollows'
  BY <1>1 DEF AdapterFollows, Refreshed, TypeOK
<1> QED
  BY <1>3, <1>5, <1>6 DEF Agreement

(* The names of one more model. *)
LEMMA NamesOfOneMore ==
    ASSUME NEW models \in SUBSET Models, NEW m \in Models
    PROVE  NamesIn(models \cup {m}) =
            IF \E s \in registry : s.model = m THEN NamesIn(models) \cup NamesOf[ClassOf[m]]
            ELSE NamesIn(models)
<1>1. ASSUME NEW n, NEW ms
      PROVE  n \in NamesIn(ms) <=> \E s \in registry : s.model \in ms /\ n \in NamesOf[ClassOf[s.model]]
  BY DEF NamesIn
<1>2. ASSUME NEW n
      PROVE  n \in NamesIn(models \cup {m}) <=>
                \/ n \in NamesIn(models)
                \/ n \in NamesOf[ClassOf[m]] /\ \E s \in registry : s.model = m
  BY <1>1
<1>3. CASE \E s \in registry : s.model = m
  BY <1>2, <1>3
<1>4. CASE ~ \E s \in registry : s.model = m
  BY <1>2, <1>4
<1> QED
  BY <1>3, <1>4

LEMMA ExecutorKeeps ==
    ASSUME TypeOK, Agreement, Executor
    PROVE  Agreement'
<1>1. UNCHANGED <<services, initial, job, registry, metaData>>
  BY DEF Executor, UnregisterAdapter, CollectNames, RegisterAdapter, osgi
<1>2. /\ Provenance' /\ StepsInOrder' /\ RegisteredAreKnown' /\ MetaDataHeld'
      /\ RegistryFollows'
  BY <1>1 DEF Agreement, Provenance, StepsInOrder, RegisteredAreKnown, MetaDataHeld,
              RegistryFollows, Follows, Registered, Adding, At, Running
<1>3. AdapterFollows'
  <2>1. NamesIn({}) = {}
    BY DEF NamesIn
  <2>2. NamesIn(Models)' = NamesIn(Models) /\ NamesIn({})' = {}
    BY <1>1, <2>1 DEF NamesIn
  <2>3. CASE UnregisterAdapter
    <3>1. updater' = "read" /\ unread' = Models /\ collected' = {}
      BY <2>3 DEF UnregisterAdapter
    <3>2. NamesIn(Models \ unread)' = {}
      BY <1>1, <2>1, <3>1 DEF NamesIn
    <3> QED
      BY <3>1, <3>2 DEF AdapterFollows
  <2>4. ASSUME NEW m \in Models, CollectNames(m)
        PROVE  AdapterFollows'
    <3>1. /\ updater = "read" /\ updater' = "read" /\ tasks' = tasks
          /\ m \in unread /\ unread' = unread \ {m} /\ unread \subseteq Models
          /\ collected' = IF \E s \in registry : s.model = m
                          THEN collected \cup NamesOf[ClassOf[m]] ELSE collected
      BY <2>4 DEF CollectNames, TypeOK
    <3>2. Models \ unread' = (Models \ unread) \cup {m}
      BY <3>1
    <3>3. NamesIn(Models \ unread)' = NamesIn((Models \ unread) \cup {m})
      BY <1>1, <3>2 DEF NamesIn
    <3>4. Refreshed' => collected = NamesIn(Models \ unread)
      BY <1>1, <3>1 DEF Agreement, AdapterFollows, Refreshed
    <3>5. Refreshed' => collected' = NamesIn(Models \ unread)'
      BY <3>1, <3>3, <3>4, NamesOfOneMore
    <3> QED
      BY <3>1, <3>5 DEF AdapterFollows
  <2>5. CASE RegisterAdapter
    <3>1. /\ updater = "read" /\ updater' = "idle" /\ unread = {} /\ tasks' = tasks
          /\ published' = collected
      BY <2>5 DEF RegisterAdapter
    <3>2. Refreshed' => collected = NamesIn(Models \ unread)
      BY <1>1, <3>1 DEF Agreement, AdapterFollows, Refreshed
    <3>3. Models \ unread = Models
      BY <3>1
    <3> QED
      BY <2>2, <3>1, <3>2, <3>3 DEF AdapterFollows, RegisteredNames
  <2> QED
    BY <2>3, <2>4, <2>5 DEF Executor
<1> QED
  BY <1>2, <1>3 DEF Agreement

LEMMA StutterKeeps ==
    ASSUME Agreement, UNCHANGED vars
    PROVE  Agreement'
BY DEF Agreement, vars, osgi, executor, Provenance, StepsInOrder, RegisteredAreKnown,
       MetaDataHeld, RegistryFollows, Follows, Registered, Adding, At, Running, AdapterFollows,
       Refreshed, RegisteredNames, NamesIn

LEMMA NextAgreement ==
    ASSUME FactoriesApart
    PROVE  TypeOK /\ Agreement /\ [Next]_vars => Agreement'
<1> SUFFICES ASSUME TypeOK, Agreement, [Next]_vars PROVE Agreement'
  OBVIOUS
<1>1. ASSUME NEW f \in Factories, Environment(f) \/ OpenTracker(f)
      PROVE  Agreement'
  BY <1>1, ServiceKeeps
<1>2. ASSUME NEW f \in Factories, Callback(f)
      PROVE  Agreement'
  BY <1>2, GetServiceKeeps, RegisterMetaDataKeeps, AddSourceKeeps, RefreshKeeps, ReturnKeeps, RemoveSourcesKeeps,
     RemoveMetaDataKeeps, EndRemovalKeeps
  DEF Callback
<1>3. CASE Executor
  BY <1>3, ExecutorKeeps
<1>4. CASE UNCHANGED vars
  BY <1>4, StutterKeeps
<1> QED
  BY <1>1, <1>2, <1>3, <1>4 DEF Next

-----------------------------------------------------------------------------
(* The theorems *)

(* The inductive invariant: it holds as long as no bundle has two          *)
(* factories and no class is registered by two.                            *)
THEOREM Invariance ==
    ASSUME FactoriesApart
    PROVE  Spec => []IInv
<1>1. Init => TypeOK /\ Agreement
  BY InitTypeOK, InitAgreement
<1>2. TypeOK /\ Agreement /\ [Next]_vars => TypeOK' /\ Agreement'
  BY NextTypeOK, NextAgreement
<1>3. TypeOK /\ Agreement => IInv
  BY DEF Agreement, IInv
<1> QED
  BY <1>1, <1>2, <1>3, PTL DEF Spec

(* When no callback is running, the registry has the models of exactly the *)
(* services that are there and that the tracker has got to, whatever came, *)
(* changed, went, or failed to be added in between.                        *)
THEOREM RegistryRight ==
    ASSUME FactoriesApart
    PROVE  Spec => []RegistryReflectsPatient
<1>1. ASSUME IInv
      PROVE  RegistryReflectsPatient
  <2> SUFFICES ASSUME Quiet, NEW f \in Factories \ Impatient
               PROVE  Reflects(f)
    BY DEF RegistryReflectsPatient
  <2>1. Registered(f) = IF f \in services \ initial THEN Defined(f) ELSE {}
    BY <1>1 DEF IInv, RegistryFollows, Follows, Quiet, Running, At
  <2>2. ASSUME NEW s
        PROVE  s \in {r \in registry : r.factory = f}
                <=> \E m \in Registered(f) : s = [model |-> m, factory |-> f]
    BY <1>1, SourceFacts DEF IInv, TypeOK, Registered
  <2> QED
    BY <2>1, <2>2 DEF Reflects, SourcesOf, Defined
<1> QED
  BY <1>1, Invariance, PTL

(* So if opening the tracker has not failed, nothing is missing: all the   *)
(* services that stay are registered, those registered meanwhile included. *)
THEOREM AllPatientRegistered ==
    ASSUME FactoriesApart
    PROVE  Spec => [](Quiet /\ ~ failed =>
                        \A f \in services \ Impatient : SourcesOf(f) \subseteq registry)
<1>1. ASSUME RegistryReflectsPatient, TypeOK, Quiet, ~ failed
      PROVE  \A f \in services \ Impatient : SourcesOf(f) \subseteq registry
  <2>1. initial = {} /\ services \subseteq Factories
    BY <1>1 DEF Quiet, TypeOK
  <2> QED
    BY <1>1, <2>1 DEF RegistryReflectsPatient, Reflects
<1>2. Spec => []TypeOK
  BY TypeCorrect
<1>3. Spec => []RegistryReflectsPatient
  BY RegistryRight
<1> QED
  BY <1>1, <1>2, <1>3, PTL

(* A model that a lookup can find has meta data at any moment. *)
THEOREM RegisteredKnown ==
    ASSUME FactoriesApart
    PROVE  Spec => []RegisteredAreKnown
<1>1. IInv => RegisteredAreKnown
  BY DEF IInv
<1> QED
  BY <1>1, Invariance, PTL

(* No meta data outlives the models of its bundle. *)
THEOREM MetaDataGoes ==
    ASSUME FactoriesApart
    PROVE  Spec => []MetaDataReleased
<1>1. ASSUME IInv, Quiet
      PROVE  {c \in Classes : metaData[c] # NoSource} = {ClassOf[s.model] : s \in registry}
  <2>1. ASSUME NEW s \in registry
        PROVE  ClassOf[s.model] \in Classes /\ metaData[ClassOf[s.model]] # NoSource
    BY <1>1, SourceFacts DEF IInv, TypeOK, RegisteredAreKnown
  <2>2. ASSUME NEW c \in Classes, metaData[c] # NoSource
        PROVE  metaData[c] \in registry /\ c = ClassOf[metaData[c].model]
    <3>1. metaData[c].factory \in Factories
      BY <1>1, <2>2, SourceFacts DEF IInv, TypeOK
    <3>2. job[metaData[c].factory].step = "idle"
      BY <1>1, <3>1 DEF Quiet, Running
    <3> QED
      BY <1>1, <2>2, <3>2 DEF IInv, MetaDataHeld, Provenance, Adding, At
  <2> QED
    BY <2>1, <2>2
<1>2. IInv => MetaDataReleased
  BY <1>1 DEF MetaDataReleased
<1> QED
  BY <1>2, Invariance, PTL

(* When nothing is pending, the adapter adapts to the registered types.    *)
THEOREM AdapterRight ==
    ASSUME FactoriesApart
    PROVE  Spec => []AdapterAccurate
<1>1. IInv => AdapterAccurate
  BY DEF IInv, AdapterFollows, AdapterAccurate, Refreshed, Quiet, Running
<1> QED
  BY <1>1, Invariance, PTL
==============================================================================
