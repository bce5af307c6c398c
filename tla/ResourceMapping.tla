--------------------------- MODULE ResourceMapping ---------------------------
(***************************************************************************)
(* How one thread turns resources into models: ResourceToModelAdapter (and *)
(* ResourceModelResolverImpl, which works alike), the                      *)
(* RequestScopedResourceModelCache, ResourceToModelMapper and the thread   *)
(* locals of NestedMappingSupport.                                         *)
(*                                                                         *)
(* Everything happens in one thread: a mapping calls the model's code, the *)
(* model's code asks for further models, and a mapping that is asked for   *)
(* while it is under way yields the model as far as it is mapped.  What    *)
(* interleaves is the code of this framework with the code of the models,  *)
(* which may ask, fail, or catch what failed at any time.                  *)
(*                                                                         *)
(* An adaptation is a resource with a target type or model name: a key of  *)
(* the request cache.  A mapping is a resource path with a model type.     *)
(***************************************************************************)
EXTENDS Integers, Sequences, FiniteSets

CONSTANTS
    Mappings,       \* what can be mapped: path and model type
    Types,          \* model types, the meta data of the code
    TypeOf,         \* [Mappings -> Types]
    Adaptations,
    MappingOf,      \* [Adaptations -> Mappings, NoModel or Ambiguous]
    NoModel,        \* the lookup in the registry has found no model ...
    Ambiguous,      \* ... or several, which a getAdapter refuses
    Contents,       \* what the models may ask for: [Mappings -> [Phases -> Seq(Adaptations)]]
    Replacing,      \* types whose models a post processor replaces
    Failing,        \* the phases in which the code of a model throws
    MaxFilters,     \* bound: how deep the filter is nested (REQUEST, ERROR)
    MaxAsks,        \* bound: how often the request asks for a model
    MaxRecordings   \* bound: how often mappings are recorded

(* The factory creates the model (constructor, setters; with Spring, also  *)
(* initialisation), the fields are mapped, @AfterMapping methods and post  *)
(* processors run, and the factory initialises it (@PostConstruct).        *)
Phases == {"create", "fields", "after", "init"}

(* The phases in which the model's own code runs and can catch exceptions. *)
ModelPhases == Phases \ {"fields"}

ASSUME MappingAssumption ==
    /\ TypeOf \in [Mappings -> Types]
    /\ MappingOf \in [Adaptations -> Mappings \cup {NoModel, Ambiguous}]
    /\ NoModel \notin Mappings
    /\ Ambiguous \notin Mappings \cup {NoModel}
    /\ Contents \subseteq [Mappings -> [Phases -> Seq(Adaptations)]]
    /\ Failing \subseteq Phases
    /\ MaxFilters \in Nat /\ MaxAsks \in Nat /\ MaxRecordings \in Nat

(* Cached values and models are numbers: models count from 1. *)
Unknown == -1       \* the cache does not know the key
Nothing == 0        \* Optional.empty(), or null in place of a model

VARIABLES
    content,    \* what the models ask for
    frames,     \* the running calls of map, the innermost last
    ongoing,    \* MappingStack.stack: mappings in the order of their push
    occurrence, \* MappingStack.metaData: [Types -> how often in the stack]
    target,     \* MappingStack.recordedMappings, taken when the stack is created
    recording,  \* NestedMappingSupport.recordedMappings: a recording, or 0
    records,    \* the maps of all recordings: model -> mapping
    models,     \* every model that was created, in order
    raised,     \* an exception is on its way up
    filters,    \* how many doFilter calls the thread is in
    caching,    \* whether the thread has a cache
    cache,      \* [Adaptations -> model, Nothing or Unknown]
    answers,    \* what the request got for what it asked
    asked,      \* how often it has asked
    subsequent  \* [Types -> ResourceModelStatistics.mappings]

stack == <<ongoing, occurrence, target>>
scope == <<filters, caching>>
vars == <<content, frames, stack, recording, records, models, raised, scope,
          cache, answers, asked, subsequent>>

Init ==
    /\ content \in Contents
    /\ frames = <<>>
    /\ ongoing = <<>>
    /\ occurrence = [y \in Types |-> 0]
    /\ target = 0
    /\ recording = 0
    /\ records = <<>>
    /\ models = <<>>
    /\ raised = FALSE
    /\ filters = 0
    /\ caching = FALSE
    /\ cache = [a \in Adaptations |-> Unknown]
    /\ answers = <<>>
    /\ asked = 0
    /\ subsequent = [y \in Types |-> 0]

-----------------------------------------------------------------------------
(* Asking for a model *)

Depth == Len(frames)
Idle == frames = <<>>
Top == frames[Depth]

(* The model under way asks for what is next, or the request for anything. *)
Asks(a) ==
    /\ ~ raised
    /\ IF Idle THEN asked < MaxAsks ELSE Top.rest # <<>> /\ a = Head(Top.rest)

Asked ==
    /\ asked' = IF Idle THEN asked + 1 ELSE asked
    /\ frames' = IF Idle THEN frames ELSE [frames EXCEPT ![Depth].rest = Tail(@)]

(* An answer that goes to the request itself is noted. *)
Answered(isRequest, a, model) ==
    answers' = IF isRequest
               THEN Append(answers, [asked |-> a, model |-> model])
               ELSE answers

Put(a, model) == cache' = IF caching THEN [cache EXCEPT ![a] = model] ELSE cache

(* RequestScopedResourceModelCache.get knows the key. *)
Hit(a) ==
    /\ Asks(a)
    /\ cache[a] # Unknown
    /\ Asked
    /\ Answered(Idle, a, cache[a])
    /\ UNCHANGED <<content, stack, recording, records, models, raised, scope, cache, subsequent>>

Misses(a) == Asks(a) /\ cache[a] = Unknown

(* No model applies: the failure is cached. *)
FindNothing(a) ==
    /\ Misses(a)
    /\ MappingOf[a] = NoModel
    /\ Asked
    /\ Put(a, Nothing)
    /\ Answered(Idle, a, Nothing)
    /\ UNCHANGED <<content, stack, recording, records, models, raised, scope, subsequent>>

(* AmbiguousModelAssociationException: nothing is cached. *)
RefuseAmbiguous(a) ==
    /\ Misses(a)
    /\ MappingOf[a] = Ambiguous
    /\ Asked
    /\ raised' = TRUE
    /\ UNCHANGED <<content, stack, recording, records, models, scope, cache, answers, subsequent>>

(* Slip: only the parent is compared with. *)
OngoingInParent(m) == ongoing # <<>> /\ ongoing[Len(ongoing)] = m

(* MappingStack.get(mapping) *)
Ongoing(m) == \E i \in 1 .. Len(ongoing) : ongoing[i] = m

(* ResourceToModelMapper.map: the mapping is pushed and the factory asked. *)
Frame(a) ==
    LET m == MappingOf[a] IN
    [mapping |-> m, asked |-> a, phase |-> "create", rest |-> content[m]["create"],
     model |-> Nothing, result |-> Nothing, track |-> occurrence[TypeOf[m]] = 0]

Begin(a) ==
    LET m == MappingOf[a] IN
    /\ Misses(a)
    /\ m \in Mappings
    /\ ~ Ongoing(m)
    /\ asked' = IF Idle THEN asked + 1 ELSE asked
    /\ frames' = Append(IF Idle THEN frames ELSE [frames EXCEPT ![Depth].rest = Tail(@)],
                        Frame(a))
    /\ ongoing' = Append(ongoing, m)
    /\ occurrence' = [occurrence EXCEPT ![TypeOf[m]] = @ + 1]
    /\ target' = IF ongoing = <<>> THEN recording ELSE target
    /\ UNCHANGED <<content, recording, records, models, raised, scope, cache, answers, subsequent>>

(* Slip: a mapping is popped that was not pushed. *)
YieldOngoingAndPop(a) ==
    /\ Misses(a)
    /\ \E i \in 1 .. Depth :
        /\ frames[i].mapping = MappingOf[a]
        /\ frames[i].model # Nothing
        /\ Put(a, frames[i].model)
    /\ Asked
    /\ ongoing' = SubSeq(ongoing, 1, Len(ongoing) - 1)
    /\ occurrence' = [occurrence EXCEPT ![TypeOf[Top.mapping]] = @ - 1]
    /\ UNCHANGED <<content, target, recording, records, models, raised, scope, answers,
                   subsequent>>

(* A cycle: the model of the ongoing mapping is yielded, and cached.       *)
YieldOngoing(a) ==
    /\ Misses(a)
    /\ \E i \in 1 .. Depth :
        /\ frames[i].mapping = MappingOf[a]
        /\ frames[i].model # Nothing
        /\ Put(a, frames[i].model)
    /\ Asked
    /\ UNCHANGED <<content, stack, recording, records, models, raised, scope, answers, subsequent>>

(* CycleInModelInitializationException: there is no model to yield yet.    *)
RefuseCycle(a) ==
    /\ Misses(a)
    /\ \E i \in 1 .. Depth :
        /\ frames[i].mapping = MappingOf[a]
        /\ frames[i].model = Nothing
    /\ Asked
    /\ raised' = TRUE
    /\ UNCHANGED <<content, stack, recording, records, models, scope, cache, answers, subsequent>>

-----------------------------------------------------------------------------
(* One mapping, from the creation of the model to its initialisation *)

(* The phase of the innermost mapping is over. *)
Done(phase) == ~ raised /\ ~ Idle /\ Top.phase = phase /\ Top.rest = <<>>

Enter(phase, frame) ==
    [frame EXCEPT !.phase = phase, !.rest = content[frame.mapping][phase]]

(* The factory calls back: the model is retained for cycles to yield.      *)
Create ==
    /\ Done("create")
    /\ models' = Append(models, [mapping |-> Top.mapping, state |-> "ongoing", raw |-> Nothing,
                                 parent |-> IF Depth = 1 THEN {} ELSE {frames[Depth - 1].mapping},
                                 during |-> recording])
    /\ frames' = [frames EXCEPT ![Depth] =
                    [Enter("fields", @) EXCEPT !.model = Len(models'), !.result = Len(models')]]
    /\ UNCHANGED <<content, stack, recording, records, raised, scope, cache, answers, asked,
                   subsequent>>

(* All mappable fields have their values. *)
EndFields ==
    /\ Done("fields")
    /\ frames' = [frames EXCEPT ![Depth] = Enter("after", @)]
    /\ UNCHANGED <<content, stack, recording, records, models, raised, scope, cache, answers,
                   asked, subsequent>>

(* @AfterMapping methods and post processors are through: the last post    *)
(* processor may have provided another model.  peek() is the mapping       *)
(* itself, not its parent: it is popped later.                             *)
PostProcess ==
    LET y == TypeOf[Top.mapping] IN
    /\ Done("after")
    /\ IF y \in Replacing
       THEN /\ models' = Append([models EXCEPT ![Top.model].state = "replaced"],
                                [models[Top.model] EXCEPT !.raw = Top.model])
            /\ frames' = [frames EXCEPT ![Depth] = [Enter("init", @) EXCEPT !.result = Len(models')]]
       ELSE /\ frames' = [frames EXCEPT ![Depth] = Enter("init", @)]
            /\ UNCHANGED models
    /\ subsequent' = [subsequent EXCEPT ![y] = @ + 1]
    /\ UNCHANGED <<content, stack, recording, records, raised, scope, cache, answers, asked>>

(* Slips: the type is forgotten with the first of its mappings that ends,  *)
PopForgetting ==
    /\ frames' = SubSeq(frames, 1, Depth - 1)
    /\ ongoing' = SubSeq(ongoing, 1, Len(ongoing) - 1)
    /\ occurrence' = [occurrence EXCEPT ![TypeOf[Top.mapping]] = 0]
    /\ target' = IF Depth = 1 THEN 0 ELSE target
    /\ records' = IF target = 0 THEN records
                  ELSE [records EXCEPT ![target] =
                        @ \cup {[model |-> Top.model, mapping |-> Top.mapping]}]

(* or a mapping is recorded only when it is not nested. *)
PopRecordingOutermost ==
    /\ frames' = SubSeq(frames, 1, Depth - 1)
    /\ ongoing' = SubSeq(ongoing, 1, Len(ongoing) - 1)
    /\ occurrence' = [occurrence EXCEPT ![TypeOf[Top.mapping]] = @ - 1]
    /\ target' = IF Depth = 1 THEN 0 ELSE target
    /\ records' = IF target = 0 \/ Depth > 1 THEN records
                  ELSE [records EXCEPT ![target] =
                        @ \cup {[model |-> Top.model, mapping |-> Top.mapping]}]

(* NestedMappingSupport.pop: also records the mapping, however it ended.   *)
Pop ==
    LET y == TypeOf[Top.mapping] IN
    /\ frames' = SubSeq(frames, 1, Depth - 1)
    /\ ongoing' = SubSeq(ongoing, 1, Len(ongoing) - 1)
    /\ occurrence' = [occurrence EXCEPT ![y] = @ - 1]
    /\ target' = IF Depth = 1 THEN 0 ELSE target
    /\ records' = IF target = 0 THEN records
                  ELSE [records EXCEPT ![target] =
                        @ \cup {[model |-> Top.model, mapping |-> Top.mapping]}]

(* Slips: an entry the cache has is kept, ... *)
FinishIfAbsent ==
    /\ Done("init")
    /\ Pop
    /\ models' = [models EXCEPT ![Top.result].state = "result"]
    /\ IF cache[Top.asked] = Unknown THEN Put(Top.asked, Top.result) ELSE UNCHANGED cache
    /\ Answered(Depth = 1, Top.asked, Top.result)
    /\ UNCHANGED <<content, recording, raised, scope, asked, subsequent>>

(* ... or only failures are cached. *)
FinishUncached ==
    /\ Done("init")
    /\ Pop
    /\ models' = [models EXCEPT ![Top.result].state = "result"]
    /\ Answered(Depth = 1, Top.asked, Top.result)
    /\ UNCHANGED <<content, recording, raised, scope, cache, asked, subsequent>>

(* The model is initialised: map returns it and the adapter caches it.     *)
Finish ==
    /\ Done("init")
    /\ Pop
    /\ models' = [models EXCEPT ![Top.result].state = "result"]
    /\ Put(Top.asked, Top.result)
    /\ Answered(Depth = 1, Top.asked, Top.result)
    /\ UNCHANGED <<content, recording, raised, scope, asked, subsequent>>

-----------------------------------------------------------------------------
(* Exceptions *)

(* The code of a model, of a field mapper or of a post processor throws.   *)
Throw ==
    /\ ~ raised /\ ~ Idle
    /\ Top.phase \in Failing
    /\ raised' = TRUE
    /\ UNCHANGED <<content, frames, stack, recording, records, models, scope, cache, answers,
                   asked, subsequent>>

(* The code of the model, or the request, goes on nevertheless. *)
Catch ==
    /\ raised
    /\ ~ Idle => Top.phase \in ModelPhases
    /\ raised' = FALSE
    /\ UNCHANGED <<content, frames, stack, recording, records, models, scope, cache, answers,
                   asked, subsequent>>

(* Slip: the stack is popped only when the mapping succeeds. *)
UnwindWithoutPop ==
    /\ raised /\ ~ Idle
    /\ frames' = SubSeq(frames, 1, Depth - 1)
    /\ models' = [i \in DOMAIN models |->
                    IF i \in {Top.model, Top.result} THEN [models[i] EXCEPT !.state = "failed"]
                    ELSE models[i]]
    /\ UNCHANGED <<content, stack, recording, records, raised, scope, cache, answers, asked,
                   subsequent>>

(* The finally block of map: the exception leaves the mapping. *)
Unwind ==
    /\ raised /\ ~ Idle
    /\ Pop
    /\ models' = [i \in DOMAIN models |->
                    IF i \in {Top.model, Top.result} THEN [models[i] EXCEPT !.state = "failed"]
                    ELSE models[i]]
    /\ UNCHANGED <<content, recording, raised, scope, cache, answers, asked, subsequent>>

-----------------------------------------------------------------------------
(* The request *)

(* doFilter: the thread gets a cache, also when it had one. *)
EnterFilter ==
    /\ Idle /\ ~ raised
    /\ filters < MaxFilters
    /\ filters' = filters + 1
    /\ caching' = TRUE
    /\ cache' = [a \in Adaptations |-> Unknown]
    /\ answers' = IF filters = 0 THEN <<>> ELSE answers
    /\ UNCHANGED <<content, frames, stack, recording, records, models, raised, asked, subsequent>>

(* The finally block of doFilter: the thread has no cache any more. *)
LeaveFilter ==
    /\ Idle
    /\ filters > 0
    /\ filters' = filters - 1
    /\ caching' = FALSE
    /\ cache' = [a \in Adaptations |-> Unknown]
    /\ answers' = IF filters = 1 THEN <<>> ELSE answers
    /\ UNCHANGED <<content, frames, stack, recording, records, models, raised, asked, subsequent>>

(* JsonViewServlets.doGet records the mappings of the model it serialises. *)
BeginRecording ==
    /\ Idle /\ ~ raised
    /\ Len(records) < MaxRecordings
    /\ records' = Append(records, {})
    /\ recording' = Len(records')
    /\ UNCHANGED <<content, frames, stack, models, raised, scope, cache, answers, asked, subsequent>>

EndRecording ==
    /\ Idle
    /\ recording # 0
    /\ recording' = 0
    /\ UNCHANGED <<content, frames, stack, records, models, raised, scope, cache, answers, asked,
                   subsequent>>

-----------------------------------------------------------------------------
Ask(a) ==
    \/ Hit(a) \/ FindNothing(a) \/ RefuseAmbiguous(a)
    \/ Begin(a) \/ YieldOngoing(a) \/ RefuseCycle(a)

Step == Create \/ EndFields \/ PostProcess \/ Finish

Next ==
    \/ \E a \in Adaptations : Ask(a)
    \/ Step
    \/ Throw \/ Catch \/ Unwind
    \/ EnterFilter \/ LeaveFilter
    \/ BeginRecording \/ EndRecording

Spec == Init /\ [][Next]_vars

-----------------------------------------------------------------------------
(* Properties *)

Model == [mapping : Mappings, state : {"ongoing", "replaced", "result", "failed"},
          raw : Nat, parent : SUBSET Mappings, during : Nat]

Call == [mapping : Mappings, asked : Adaptations, phase : Phases, rest : Seq(Adaptations),
         model : Nat, result : Nat, track : BOOLEAN]

(* A mapping whose factory has called back has a model. *)
CallsHaveModels ==
    \A i \in 1 .. Depth :
        frames[i].phase # "create" =>
            frames[i].model \in 1 .. Len(models) /\ frames[i].result \in 1 .. Len(models)

TypeOK ==
    /\ content \in Contents
    /\ frames \in Seq(Call)
    /\ ongoing \in Seq(Mappings)
    /\ occurrence \in [Types -> Nat]
    /\ recording \in 0 .. Len(records)
    /\ target \in 0 .. Len(records)
    /\ records \in Seq(SUBSET [model : Nat, mapping : Mappings])
    /\ models \in Seq(Model)
    /\ raised \in BOOLEAN
    /\ filters \in 0 .. MaxFilters
    /\ caching \in BOOLEAN
    /\ cache \in [Adaptations -> {Unknown} \cup Nat]
    /\ answers \in Seq([asked : Adaptations, model : Nat])
    /\ asked \in 0 .. MaxAsks
    /\ subsequent \in [Types -> Nat]
    /\ CallsHaveModels

(* The three structures of the mapping stack agree with the calls of map   *)
(* that are running, however they end: cycles are recognised as long as    *)
(* they can occur, and nothing is left in the thread locals of a pooled    *)
(* thread.                                                                 *)
Occurrences(y) == {i \in 1 .. Depth : TypeOf[frames[i].mapping] = y}

StackMirrorsCalls ==
    /\ Len(ongoing) = Depth
    /\ \A i \in 1 .. Depth : ongoing[i] = frames[i].mapping
    /\ \A y \in Types : occurrence[y] = Cardinality(Occurrences(y))
    /\ Idle => target = 0

(* No resource is mapped to a type while it is being mapped to that type:  *)
(* a cycle in the content ends, at the latest, at the depth of all         *)
(* mappings.                                                               *)
NoNestedRepetition ==
    \A i, j \in 1 .. Depth : frames[i].mapping = frames[j].mapping => i = j

(* "Do not track mapping time for nested resource models of the same type" *)
(* although several of them may come and go while the outer one is mapped. *)
OutermostTracked ==
    \A i \in 1 .. Depth :
        frames[i].track <=>
            \A j \in 1 .. i - 1 : TypeOf[frames[j].mapping] # TypeOf[frames[i].mapping]

(* The inductive invariant. *)
IInv ==
    /\ TypeOK
    /\ StackMirrorsCalls
    /\ NoNestedRepetition
    /\ OutermostTracked

(* When nothing is being mapped, what is cached under a key came from the  *)
(* mapping of that key.  If no other key stands for the mapping, it is     *)
(* what the mapping resulted in, and not the model as it was when a cycle  *)
(* asked for it, unless the mapping failed.                                *)
OnlyKey(a) == \A b \in Adaptations : MappingOf[b] = MappingOf[a] => b = a

CachedModelIsResult ==
    Idle => \A a \in Adaptations :
        cache[a] > 0 =>
            /\ models[cache[a]].mapping = MappingOf[a]
            /\ OnlyKey(a) => models[cache[a]].state \in {"result", "failed"}

(* Within a request, one key yields one model. *)
OneModelPerRequest ==
    filters > 0 =>
        \A i, j \in 1 .. Len(answers) :
            answers[i].asked = answers[j].asked => answers[i].model = answers[j].model

(* Every mapping that was completed since a recording began is in it, no   *)
(* matter how deep it was nested and what failed around it.                *)
RecordingComplete ==
    Idle /\ recording # 0 =>
        \A i \in 1 .. Len(models) :
            models[i].state = "result" /\ models[i].during = recording =>
                \E r \in records[recording] :
                    r.mapping = models[i].mapping /\ r.model \in {i, models[i].raw}
==============================================================================
