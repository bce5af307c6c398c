-------------------------- MODULE ModelRegistration --------------------------
(***************************************************************************)
(* How the models of a bundle get into the registry and leave it again:    *)
(* the service tracker of ModelRegistrar, the ResourceModelMetaData-       *)
(* Registrar, and the ResourceToModelAdapterUpdater with its executor.     *)
(*                                                                         *)
(* A bundle offers its models through ResourceModelFactory services.  The  *)
(* callbacks of the tracker run in the thread that registers, modifies or  *)
(* unregisters the service, or in the one that opens the tracker, so those *)
(* of several factories overlap.  Each ends by submitting a refresh to the *)
(* updater, whose only thread replaces the registration of the adapter.    *)
(*                                                                         *)
(* The registry is what ModelRegistry promises (see there): one add or one *)
(* removal of a bundle is a step.                                          *)
(***************************************************************************)
EXTENDS Integers, Sequences, FiniteSets, Functions

CONSTANTS
    Factories,      \* ResourceModelFactory services
    Bundles,
    BundleOf,       \* [Factories -> Bundles]
    Models,         \* names of models
    DefinitionsOf,  \* [Factories -> Seq(Models)]: getModelDefinitions
    Classes,
    ClassOf,        \* [Models -> Classes]
    Names,
    NamesOf,        \* [Classes -> SUBSET Names]: of it, its super classes and interfaces
    NoSource,
    Early,          \* factories that may be there when the tracker is opened ...
    Impatient,      \* ... and may go while the tracker is adding them
    MaxEvents       \* bound: how often services come, change and go

Sources == [model : Models, factory : Factories]

ASSUME RegistrationAssumption ==
    /\ BundleOf \in [Factories -> Bundles]
    /\ DefinitionsOf \in [Factories -> Seq(Models)]
    /\ ClassOf \in [Models -> Classes]
    /\ NamesOf \in [Classes -> SUBSET Names]
    /\ NoSource \notin Sources
    /\ Impatient \subseteq Early /\ Early \subseteq Factories
    /\ MaxEvents \in Nat

VARIABLES
    services,   \* the registered services
    initial,    \* services the tracker found when it was opened and has yet to add
    failed,     \* whether opening the tracker has failed: initial is never gone on with
    job,        \* [Factories -> the callback that is running]
    registry,   \* the sources in ModelRegistry
    metaData,   \* ResourceModelMetaDataRegistrar.cache: [Classes -> source or NoSource]
    tasks,      \* refreshes the executor has yet to run
    updater,    \* what the executor's thread is doing
    unread,     \* the models it has yet to look up
    collected,  \* the type names it has collected
    published,  \* the type names of the registered adapter
    events

osgi == <<services, initial, failed, events>>
executor == <<updater, unread, collected, published>>
vars == <<osgi, job, registry, metaData, tasks, executor>>

(* step: what the callback does next; opening: the tracker is being opened *)
Idle == [step |-> "idle", rest |-> <<>>, opening |-> FALSE]

(* The updater has been activated, and has registered the adapter. *)
Init ==
    /\ services \in SUBSET Early
    /\ initial = services
    /\ failed = FALSE
    /\ job = [f \in Factories |-> Idle]
    /\ registry = {}
    /\ metaData = [c \in Classes |-> NoSource]
    /\ tasks = 0
    /\ updater = "idle"
    /\ unread = {} /\ collected = {} /\ published = {}
    /\ events = 0

-----------------------------------------------------------------------------
(* Services come, change and go: the owner of a service does one thing at  *)
(* a time, and is called back while it does it.                            *)

Running(f) == job[f].step # "idle"

Happens == events < MaxEvents /\ events' = events + 1

Start(f, first, models, isOpening) ==
    /\ ~ Running(f)
    /\ job' = [job EXCEPT ![f] = [step |-> first, rest |-> models, opening |-> isOpening]]
    /\ UNCHANGED <<failed, registry, metaData, tasks, executor>>

(* registerService: addingService is called. *)
StartService(f) ==
    /\ Happens
    /\ f \notin services
    /\ services' = services \cup {f}
    /\ Start(f, "get", DefinitionsOf[f], FALSE)
    /\ UNCHANGED initial

(* tracker.open: addingService is called for one service after the other. *)
OpenTracker(f) ==
    /\ ~ failed
    /\ f \in initial
    /\ \A g \in Factories : ~ job[g].opening
    /\ initial' = initial \ {f}
    /\ Start(f, "get", DefinitionsOf[f], TRUE)
    /\ UNCHANGED <<services, events>>

(* Slip: the models are not registered again. *)
ModifyServiceRemoving(f) ==
    /\ Happens
    /\ f \in services \ initial
    /\ Start(f, "remove", <<>>, FALSE)
    /\ UNCHANGED <<services, initial>>

(* modifiedService: the models are removed and registered again. *)
ModifyService(f) ==
    /\ Happens
    /\ f \in services \ initial
    /\ Start(f, "remove", DefinitionsOf[f], FALSE)
    /\ UNCHANGED <<services, initial>>

(* unregister: removedService is called for a service that is tracked. *)
StopService(f) ==
    /\ Happens
    /\ f \in services \ initial
    /\ services' = services \ {f}
    /\ Start(f, "remove", <<>>, FALSE)
    /\ UNCHANGED initial

(* unregister, before the tracker has added the service, while it does, or *)
(* after it has failed to: the tracker only strikes it off its lists.      *)
StopUntracked(f) ==
    /\ Happens
    /\ f \in services
    /\ \/ f \in Impatient /\ (f \in initial \/ job[f].opening)
       \/ f \in initial /\ failed
    /\ services' = services \ {f}
    /\ initial' = initial \ {f}
    /\ UNCHANGED <<failed, job, registry, metaData, tasks, executor>>

-----------------------------------------------------------------------------
(* ModelRegistrar.registerModels: meta data first, then the registry       *)

At(f, step) == job[f].step = step

Continue(f, step) == job' = [job EXCEPT ![f].step = step]

(* addingService asks for the service, which is there, or only just going. *)
GetService(f) ==
    /\ At(f, "get")
    /\ Continue(f, "register")
    /\ UNCHANGED <<osgi, registry, metaData, tasks, executor>>

(* Or it has gone since the tracker took it off its list: asking it for    *)
(* its models throws a NullPointerException out of tracker.open and of     *)
(* activate, and no further service is added.  The tracker keeps listening.*)
MissService(f) ==
    /\ At(f, "get")
    /\ f \notin services
    /\ job' = [job EXCEPT ![f] = Idle]
    /\ failed' = (failed \/ job[f].opening)
    /\ UNCHANGED <<services, initial, events, registry, metaData, tasks, executor>>

RegisterMetaData(f) ==
    /\ At(f, "register")
    /\ job[f].rest # <<>>
    /\ LET m == Head(job[f].rest) IN
        metaData' = [metaData EXCEPT ![ClassOf[m]] = [model |-> m, factory |-> f]]
    /\ Continue(f, "add")
    /\ UNCHANGED <<osgi, registry, tasks, executor>>

(* Sources of the same bundle and with the same model name are equal. *)
Replaces(s, m, f) == s.model = m /\ BundleOf[s.factory] = BundleOf[f]

AddSource(f) ==
    /\ At(f, "add")
    /\ LET m == Head(job[f].rest) IN
        registry' = {s \in registry : ~ Replaces(s, m, f)} \cup {[model |-> m, factory |-> f]}
    /\ job' = [job EXCEPT ![f] = [@ EXCEPT !.step = "register", !.rest = Tail(job[f].rest)]]
    /\ UNCHANGED <<osgi, metaData, tasks, executor>>

(* Slip: a refresh is dropped if one is under way. *)
RefreshUnlessPending(f) ==
    /\ At(f, "register")
    /\ job[f].rest = <<>>
    /\ tasks' = IF tasks > 0 \/ updater # "idle" THEN tasks ELSE tasks + 1
    /\ Continue(f, "return")
    /\ UNCHANGED <<osgi, registry, metaData, executor>>

(* ResourceToModelAdapterUpdater.refresh *)
Refresh(f) ==
    /\ At(f, "register")
    /\ job[f].rest = <<>>
    /\ tasks' = tasks + 1
    /\ Continue(f, "return")
    /\ UNCHANGED <<osgi, registry, metaData, executor>>

(* The callback returns.  If the service has gone in the meantime, then    *)
(* addingService returns null, because it asks for the service once more,  *)
(* and the tracker takes this as a service not to be tracked; unless it is *)
(* only just going, which the tracker notices.                             *)
Return(f) ==
    /\ At(f, "return")
    /\ \/ job' = [job EXCEPT ![f] = Idle]
       \/ f \notin services /\ Continue(f, "remove")
    /\ UNCHANGED <<osgi, registry, metaData, tasks, executor>>

-----------------------------------------------------------------------------
(* ModelRegistrar.unregister: everything of the bundle goes *)

RemoveSources(f) ==
    /\ At(f, "remove")
    /\ registry' = {s \in registry : BundleOf[s.factory] # BundleOf[f]}
    /\ Continue(f, "forget")
    /\ UNCHANGED <<osgi, metaData, tasks, executor>>

(* Slips: the iteration ends with the first removal, ... *)
RemoveFirstMetaData(f) ==
    LET theirs == {c \in Classes : metaData[c] # NoSource
                                    /\ BundleOf[metaData[c].factory] = BundleOf[f]}
    IN  /\ At(f, "forget")
        /\ IF theirs = {} THEN UNCHANGED metaData
           ELSE \E c \in theirs : metaData' = [metaData EXCEPT ![c] = NoSource]
        /\ Continue(f, "refresh")
        /\ UNCHANGED <<osgi, registry, tasks, executor>>

(* ... or everything is removed. *)
RemoveAllMetaData(f) ==
    /\ At(f, "forget")
    /\ metaData' = [c \in Classes |-> NoSource]
    /\ Continue(f, "refresh")
    /\ UNCHANGED <<osgi, registry, tasks, executor>>

RemoveMetaData(f) ==
    /\ At(f, "forget")
    /\ metaData' = [c \in Classes |->
                    IF metaData[c] # NoSource /\ BundleOf[metaData[c].factory] = BundleOf[f]
                    THEN NoSource ELSE metaData[c]]
    /\ Continue(f, "refresh")
    /\ UNCHANGED <<osgi, registry, tasks, executor>>

(* Slip: no refresh after a removal. *)
EndRemovalSilently(f) ==
    /\ At(f, "refresh")
    /\ IF job[f].rest = <<>> THEN job' = [job EXCEPT ![f] = Idle] ELSE Continue(f, "register")
    /\ UNCHANGED <<osgi, registry, metaData, tasks, executor>>

(* The refresh; modifiedService goes on to register the models.            *)
EndRemoval(f) ==
    /\ At(f, "refresh")
    /\ tasks' = tasks + 1
    /\ IF job[f].rest = <<>> THEN job' = [job EXCEPT ![f] = Idle] ELSE Continue(f, "register")
    /\ UNCHANGED <<osgi, registry, metaData, executor>>

-----------------------------------------------------------------------------
(* The only thread of the updater's executor *)

(* Slip: the thread does not wait for a task. *)
UnregisterAdapterAnyway ==
    /\ updater = "idle"
    /\ tasks' = tasks - 1
    /\ published' = {}
    /\ updater' = "read"
    /\ unread' = Models
    /\ collected' = {}
    /\ UNCHANGED <<osgi, job, registry, metaData>>

UnregisterAdapter ==
    /\ updater = "idle"
    /\ tasks > 0
    /\ tasks' = tasks - 1
    /\ published' = {}
    /\ updater' = "read"
    /\ unread' = Models
    /\ collected' = {}
    /\ UNCHANGED <<osgi, job, registry, metaData>>

(* ModelRegistry.getModelSources copies queue after queue while others     *)
(* change them; the names are collected from the sources.                  *)
CollectNames(m) ==
    /\ updater = "read"
    /\ m \in unread
    /\ unread' = unread \ {m}
    /\ collected' = IF \E s \in registry : s.model = m
                    THEN collected \cup NamesOf[ClassOf[m]] ELSE collected
    /\ UNCHANGED <<osgi, job, registry, metaData, tasks, updater, published>>

RegisterAdapter ==
    /\ updater = "read"
    /\ unread = {}
    /\ published' = collected
    /\ updater' = "idle"
    /\ UNCHANGED <<osgi, job, registry, metaData, tasks, unread, collected>>

-----------------------------------------------------------------------------
Environment(f) == StartService(f) \/ ModifyService(f) \/ StopService(f) \/ StopUntracked(f)

Callback(f) ==
    \/ GetService(f) \/ MissService(f)
    \/ RegisterMetaData(f) \/ AddSource(f) \/ Refresh(f) \/ Return(f)
    \/ RemoveSources(f) \/ RemoveMetaData(f) \/ EndRemoval(f)

Executor == UnregisterAdapter \/ (\E m \in Models : CollectNames(m)) \/ RegisterAdapter

Next ==
    \/ \E f \in Factories : Environment(f) \/ OpenTracker(f) \/ Callback(f)
    \/ Executor

Spec == Init /\ [][Next]_vars

(* The threads that run callbacks and the executor's thread are scheduled; *)
(* nothing has to happen to services.                                      *)
Fairness ==
    /\ \A f \in Factories : WF_vars(OpenTracker(f)) /\ WF_vars(Callback(f))
    /\ WF_vars(Executor)

FairSpec == Spec /\ Fairness

-----------------------------------------------------------------------------
(* Properties *)

Steps == {"idle", "get", "register", "add", "return", "remove", "forget", "refresh"}

Jobs == [step : Steps, rest : Seq(Models), opening : BOOLEAN]

TypeOK ==
    /\ services \subseteq Factories
    /\ initial \subseteq services
    /\ failed \in BOOLEAN
    /\ job \in [Factories -> Jobs]
    /\ \A f \in Factories : At(f, "add") => job[f].rest # <<>>
    /\ registry \subseteq Sources
    /\ metaData \in [Classes -> Sources \cup {NoSource}]
    /\ tasks \in Nat
    /\ updater \in {"idle", "read"}
    /\ unread \subseteq Models
    /\ collected \subseteq Names /\ published \subseteq Names
    /\ events \in 0 .. MaxEvents

(* Nothing is running or waiting to be run.                                *)
Quiet == (initial = {} \/ failed) /\ \A f \in Factories : ~ Running(f)

SourcesOf(f) == {[model |-> m, factory |-> f] : m \in Range(DefinitionsOf[f])}

Reflects(f) ==
    {s \in registry : s.factory = f} = IF f \in services \ initial THEN SourcesOf(f) ELSE {}

(* When no callback is running, the registry has the models of exactly the *)
(* factories that are there and that the tracker has got to - all of them, *)
(* if opening it has not failed -, unless one went while the tracker was   *)
(* adding it (ModelRegistrar.java 66-89).                                  *)
RegistryReflectsPatient == Quiet => \A f \in Factories \ Impatient : Reflects(f)

(* The class comment, ModelRegistrar.java 46-47: this service tracks all   *)
(* resource model factory services and registers or unregisters their      *)
(* models.                                                                 *)
RegistryReflectsServices == Quiet => registry = UNION {SourcesOf(f) : f \in services}

(* A model a lookup can find has meta data, without which it cannot be     *)
(* mapped: at any time, also between two steps of a callback.              *)
RegisteredAreKnown == \A s \in registry : metaData[ClassOf[s.model]] # NoSource

(* No meta data, and with it no class of a bundle, outlives its models.    *)
MetaDataReleased ==
    Quiet => {c \in Classes : metaData[c] # NoSource} = {ClassOf[s.model] : s \in registry}

(* When no callback is running and no refresh pending, the adapter adapts  *)
(* to exactly the types of the registered models.                          *)
NamesIn(models) == UNION {NamesOf[ClassOf[s.model]] : s \in {r \in registry : r.model \in models}}

RegisteredNames == NamesIn(Models)

AdapterAccurate == Quiet /\ tasks = 0 /\ updater = "idle" => published = RegisteredNames

(* The inductive invariant, for factories that are apart from each other:  *)
(* a bundle has one factory, and a class belongs to the models of one.     *)
Defined(f) == Range(DefinitionsOf[f])

FactoriesApart ==
    \A f, g \in Factories :
        \/ f = g
        \/ /\ BundleOf[f] # BundleOf[g]
           /\ \A m \in Defined(f), n \in Defined(g) : ClassOf[m] # ClassOf[n]

(* Sources, meta data and what callbacks have to do stem from definitions. *)
Provenance ==
    /\ \A s \in registry : s.model \in Defined(s.factory)
    /\ \A c \in Classes : metaData[c] # NoSource =>
        /\ metaData[c].model \in Defined(metaData[c].factory)
        /\ ClassOf[metaData[c].model] = c
    /\ \A f \in Factories : Range(job[f].rest) \subseteq Defined(f)

Registered(f) == {m \in Models : [model |-> m, factory |-> f] \in registry}

(* Between two steps of a registration the model has its meta data and is  *)
(* not found yet; between two of a removal it is not found any more.       *)
Adding(f, s) ==
    /\ At(f, "add")
    /\ s = [model |-> Head(job[f].rest), factory |-> f]

StepsInOrder ==
    \A f \in Factories :
        /\ At(f, "add") => \E s \in Sources : Adding(f, s) /\ metaData[ClassOf[s.model]] = s
        /\ job[f].step \in {"forget", "refresh"} => Registered(f) = {}

(* Meta data is there for a source, or for one that comes or goes. *)
MetaDataHeld ==
    \A c \in Classes : metaData[c] # NoSource =>
        LET s == metaData[c] IN
        s \in registry \/ Adding(s.factory, s) \/ At(s.factory, "forget")

(* How far the registry follows a factory that does not go too early. *)
Follows(f) ==
    LET there == f \in services \ initial
        models == IF there THEN Defined(f) ELSE {}
    IN  /\ Running(f) => f \notin initial
        /\ At(f, "idle") => Registered(f) = models
        /\ job[f].step \in {"get", "register", "add"} =>
            there /\ Registered(f) \cup Range(job[f].rest) = models
        /\ At(f, "return") => there /\ Registered(f) = models
        /\ job[f].step \in {"remove", "forget", "refresh"} => Range(job[f].rest) = models

RegistryFollows == \A f \in Factories \ Impatient : Follows(f)

(* No refresh is submitted or about to be: the executor sees the registry  *)
(* as it remains.                                                          *)
Refreshed == tasks = 0 /\ \A f \in Factories : job[f].step \in {"idle", "get", "return"}

AdapterFollows ==
    Refreshed =>
        /\ updater = "idle" => published = RegisteredNames
        /\ updater = "read" => collected = NamesIn(Models \ unread)

IInv ==
    /\ TypeOK
    /\ Provenance
    /\ StepsInOrder
    /\ RegisteredAreKnown
    /\ MetaDataHeld
    /\ RegistryFollows
    /\ AdapterFollows

(* However callbacks and refreshes overlap, in the end the adapter adapts  *)
(* to the registered models.                                               *)
AdapterSettles == <>[](published = RegisteredNames)
==============================================================================
