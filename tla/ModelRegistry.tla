---------------------------- MODULE ModelRegistry ----------------------------
(***************************************************************************)
(* io.neba.core.resourcemodels.registration.ModelRegistry together with    *)
(* the MappableTypeHierarchyChangeListener that invalidates it.            *)
(*                                                                         *)
(* Requests look models up through the lookup cache while bundles register *)
(* and remove their models and while the type hierarchy stored in the      *)
(* repository changes.  Every writer changes first and clears the cache    *)
(* afterwards, key by key; a lookup that misses computes its answer under  *)
(* the lock of its key, so that a clear of that key waits for it.          *)
(*                                                                         *)
(* The maps of the code are ConcurrentHashMaps.  The lock of a bin is      *)
(* modelled as a lock of one key, clear() as the removal of all keys in    *)
(* any order, one at a time.                                               *)
(***************************************************************************)
EXTENDS ModelResolution

CONSTANTS
    Bundles,        \* bundles with resource models
    BundleOf,       \* [Sources -> Bundles]
    TypesOf,        \* [Sources -> sequence of the types a model applies to]
    Resources,
    Signature,      \* [Resources -> the resource type, super type, primary and mixin types]
    ResourceType,   \* [Resources -> the first resource type, or NoType]
    FurtherTypes,   \* [Resources -> node types or synthetic root, in order]
    Lookups,        \* the lookups that are made: [resource, kind, arg]
    Requests,       \* request threads
    Deactivator,    \* the thread deactivating the registry
    Worker,         \* the thread of the change listener
    Absent,         \* no cache entry
    NoSource,
    NoLookup,
    MaxChanges      \* bound: number of changes of the type hierarchy

Writers == Bundles \cup {Deactivator}
Clearers == Writers \cup {Worker}

(* key(resource, furtherKeyElements): the signature of the resource and    *)
(* what the kind of lookup adds to it.  The kind itself is not an element. *)
Key(l) ==
    [signature |-> Signature[l.resource],
     further |-> CASE l.kind = "any" -> <<>>
                   [] l.kind = "all" -> <<"allModels">>
                   [] OTHER -> <<l.arg>>]

KeyOf == [l \in Lookups |-> Key(l)]

Keys == {KeyOf[l] : l \in Lookups}

Question ==
    [l \in Lookups |->
        [start |-> ResourceType[l.resource], further |-> FurtherTypes[l.resource],
         kind |-> l.kind, arg |-> l.arg]]

ASSUME RegistryAssumption ==
    /\ BundleOf \in [Sources -> Bundles]
    /\ TypesOf \in [Sources -> Seq(Types)]
    /\ ResourceType \in [Resources -> Types \cup {NoType}]
    /\ FurtherTypes \in [Resources -> Seq(Types)]
    /\ Lookups \subseteq [resource : Resources, kind : {"any", "name", "type", "all"},
                          arg : {l.arg : l \in Lookups}]
    /\ \A answer \in SUBSET ResolvedModelSource : answer # Absent
    /\ NoSource \notin Sources
    /\ NoLookup \notin Lookups
    /\ Deactivator \notin Bundles
    /\ Worker \notin Writers
    /\ MaxChanges \in Nat

VARIABLES
    sources,    \* typeNameToModelSourcesMap: [Types -> SUBSET Sources]
    cache,      \* lookupCache: [Keys -> answer or Absent]
    super,      \* the type hierarchy in the repository
    changes,    \* how often the hierarchy has changed
    events,     \* resource change events on their way to the listener
    pending,    \* invalidationRequests, a queue of capacity one
    active,     \* FALSE from the moment the registry is deactivated
    op,         \* what a writer is doing to the registered sources
    adding,     \* the source a bundle is adding
    todo,       \* the types that source is still to be put under
    toClear,    \* the keys a running clearLookupCaches() has not reached
    pc,         \* where a request is in its lookup
    ask,        \* the lookup a request makes
    pos,        \* where its hierarchy iterator is
    found       \* the sources it has collected, at the end its answer

writing == <<op, adding, todo>>
lookup == <<pc, ask, pos, found>>
content == <<super, changes, events, pending>>
vars == <<sources, cache, content, active, writing, toClear, lookup>>

Init ==
    /\ sources = [y \in Types |-> {}]
    /\ cache = [k \in Keys |-> Absent]
    /\ super \in Hierarchies
    /\ changes = 0
    /\ events = 0
    /\ pending = 0
    /\ active = TRUE
    /\ op = [w \in Writers |-> "idle"]
    /\ adding = [w \in Writers |-> NoSource]
    /\ todo = [w \in Writers |-> <<>>]
    /\ toClear = [c \in Clearers |-> {}]
    /\ pc = [t \in Requests |-> "idle"]
    /\ ask = [t \in Requests |-> NoLookup]
    /\ pos = [t \in Requests |-> End]
    /\ found = [t \in Requests |-> {}]

-----------------------------------------------------------------------------
(* Writers *)

Idle(w) == op[w] = "idle" /\ toClear[w] = {}

(* add(types, source): put the source under every type, then clear. *)
BeginAdd(b, s) ==
    /\ active
    /\ Idle(b)
    /\ BundleOf[s] = b
    /\ op' = [op EXCEPT ![b] = "add"]
    /\ adding' = [adding EXCEPT ![b] = s]
    /\ todo' = [todo EXCEPT ![b] = TypesOf[s]]
    /\ UNCHANGED <<sources, cache, content, active, toClear, lookup>>

(* ConcurrentLinkedDistinctQueue.add, first half: an equal element goes.   *)
(* Readers take no lock and can miss the source until it is inserted.      *)
DropDuplicate(b) ==
    /\ op[b] = "add"
    /\ todo[b] # <<>>
    /\ adding[b] \in sources[Head(todo[b])]
    /\ sources' = [sources EXCEPT ![Head(todo[b])] = @ \ {adding[b]}]
    /\ UNCHANGED <<cache, content, active, writing, toClear, lookup>>

(* Second half: the element is appended. *)
Insert(b) ==
    /\ op[b] = "add"
    /\ todo[b] # <<>>
    /\ adding[b] \notin sources[Head(todo[b])]
    /\ sources' = [sources EXCEPT ![Head(todo[b])] = @ \cup {adding[b]}]
    /\ todo' = [todo EXCEPT ![b] = Tail(@)]
    /\ UNCHANGED <<cache, content, active, op, adding, toClear, lookup>>

(* removeResourceModels(bundle): filter the sources, then clear. *)
BeginRemove(b) ==
    /\ active
    /\ Idle(b)
    /\ op' = [op EXCEPT ![b] = "remove"]
    /\ UNCHANGED <<sources, cache, content, active, adding, todo, toClear, lookup>>

(* One element of one queue is filtered out (MatchedBundlesPredicate). *)
RemoveSource(b) ==
    /\ op[b] = "remove"
    /\ \E y \in Types : \E s \in sources[y] :
        /\ BundleOf[s] = b
        /\ sources' = [sources EXCEPT ![y] = @ \ {s}]
    /\ UNCHANGED <<cache, content, active, writing, toClear, lookup>>

(* deActivate(): the registrar, which depends on the registry, is gone.    *)
(* From here on the change listener is gone, too.                          *)
BeginDeactivate ==
    /\ active
    /\ \A w \in Writers : Idle(w)
    /\ active' = FALSE
    /\ op' = [op EXCEPT ![Deactivator] = "deactivate"]
    /\ UNCHANGED <<sources, cache, content, adding, todo, toClear, lookup>>

(* clearRegisteredModels(), one type at a time. *)
DropType ==
    /\ op[Deactivator] = "deactivate"
    /\ \E y \in Types :
        /\ sources[y] # {}
        /\ sources' = [sources EXCEPT ![y] = {}]
    /\ UNCHANGED <<cache, content, active, writing, toClear, lookup>>

(* The writer has made all of its changes. *)
Written(w) ==
    \/ op[w] = "add" /\ todo[w] = <<>>
    \/ op[w] = "remove" /\ \A y \in Types : \A s \in sources[y] : BundleOf[s] # w
    \/ op[w] = "deactivate" /\ \A y \in Types : sources[y] = {}

(* Slips a change of the code could make are defined next to the action    *)
(* they are a variant of.  Here: no clear after removeResourceModels, ...  *)
BeginClearUnlessRemove(w) ==
    /\ Written(w)
    /\ op' = [op EXCEPT ![w] = "idle"]
    /\ adding' = [adding EXCEPT ![w] = NoSource]
    /\ toClear' = [toClear EXCEPT ![w] = IF op[w] = "remove" THEN {} ELSE Keys]
    /\ UNCHANGED <<sources, cache, content, active, todo, lookup>>

(* ... or a clear that drops only the entries it finds at its beginning.   *)
BeginClearEntries(w) ==
    /\ Written(w)
    /\ op' = [op EXCEPT ![w] = "idle"]
    /\ adding' = [adding EXCEPT ![w] = NoSource]
    /\ toClear' = [toClear EXCEPT ![w] = {k \in Keys : cache[k] # Absent}]
    /\ UNCHANGED <<sources, cache, content, active, todo, lookup>>

(* clearLookupCaches() at the end of add, removeResourceModels, deActivate. *)
BeginClear(w) ==
    /\ Written(w)
    /\ op' = [op EXCEPT ![w] = "idle"]
    /\ adding' = [adding EXCEPT ![w] = NoSource]
    /\ toClear' = [toClear EXCEPT ![w] = Keys]
    /\ UNCHANGED <<sources, cache, content, active, todo, lookup>>

-----------------------------------------------------------------------------
(* Lookups *)

Traversing(t) == pc[t] \in {"visit", "collect", "advance", "store"}

Computing(k) == \E t \in Requests : Traversing(t) /\ KeyOf[ask[t]] = k

(* Slip: a clear that does not wait for the computation of a key. *)
ClearKeyRegardless(c, k) ==
    /\ k \in toClear[c]
    /\ cache' = [cache EXCEPT ![k] = Absent]
    /\ toClear' = [toClear EXCEPT ![c] = @ \ {k}]
    /\ UNCHANGED <<sources, content, active, writing, lookup>>

(* One key of a running clear: it waits for a computation of that key. *)
ClearKey(c, k) ==
    /\ k \in toClear[c]
    /\ ~ Computing(k)
    /\ cache' = [cache EXCEPT ![k] = Absent]
    /\ toClear' = [toClear EXCEPT ![c] = @ \ {k}]
    /\ UNCHANGED <<sources, content, active, writing, lookup>>

(* lookupMostSpecificModels, lookupAllModels: a first look into the cache. *)
Lookup(t, l) ==
    /\ pc[t] = "idle"
    /\ ask' = [ask EXCEPT ![t] = l]
    /\ IF cache[KeyOf[l]] # Absent
       THEN /\ pc' = [pc EXCEPT ![t] = "return"]
            /\ found' = [found EXCEPT ![t] = cache[KeyOf[l]]]
       ELSE /\ pc' = [pc EXCEPT ![t] = "compute"]
            /\ UNCHANGED found
    /\ UNCHANGED <<sources, cache, content, active, writing, toClear, pos>>

(* computeIfAbsent: another request has stored the answer meanwhile. *)
FindComputed(t) ==
    LET k == KeyOf[ask[t]] IN
    /\ pc[t] = "compute"
    /\ ~ Computing(k)
    /\ cache[k] # Absent
    /\ pc' = [pc EXCEPT ![t] = "return"]
    /\ found' = [found EXCEPT ![t] = cache[k]]
    /\ UNCHANGED <<sources, cache, content, active, writing, toClear, ask, pos>>

(* Slip: get and put in place of computeIfAbsent. *)
BeginTraversalUnlocked(t) ==
    LET first == First(Question[ask[t]]) IN
    /\ pc[t] = "compute"
    /\ cache[KeyOf[ask[t]]] = Absent
    /\ pos' = [pos EXCEPT ![t] = first]
    /\ pc' = [pc EXCEPT ![t] = IF first = End THEN "store" ELSE "visit"]
    /\ UNCHANGED <<sources, cache, content, active, writing, toClear, ask, found>>

(* computeIfAbsent: the key is locked and the traversal begins. *)
BeginTraversal(t) ==
    LET k == KeyOf[ask[t]]
        first == First(Question[ask[t]]) IN
    /\ pc[t] = "compute"
    /\ ~ Computing(k)
    /\ cache[k] = Absent
    /\ pos' = [pos EXCEPT ![t] = first]
    /\ pc' = [pc EXCEPT ![t] = IF first = End THEN "store" ELSE "visit"]
    /\ UNCHANGED <<sources, cache, content, active, writing, toClear, ask, found>>

(* The traversal goes on behind a type unless only the most specific       *)
(* models are asked for and the type has some.                             *)
AfterType(t) ==
    IF Question[ask[t]].kind = "all" THEN "advance" ELSE "store"

(* filter(...) copies the sources of the type that match. *)
VisitFiltered(t) ==
    LET q == Question[ask[t]]
        here == ResolvedAt(sources, q, pos[t].type) IN
    /\ pc[t] = "visit"
    /\ q.kind \in {"name", "type"}
    /\ found' = [found EXCEPT ![t] = @ \cup here]
    /\ pc' = [pc EXCEPT ![t] = IF here # {} THEN AfterType(t) ELSE "advance"]
    /\ UNCHANGED <<sources, cache, content, active, writing, toClear, ask, pos>>

(* Without a criterion filter(...) returns the live queue: whether it is   *)
(* empty is tested first ...                                               *)
VisitUnfiltered(t) ==
    LET q == Question[ask[t]] IN
    /\ pc[t] = "visit"
    /\ q.kind \in {"any", "all"}
    /\ pc' = [pc EXCEPT ![t] =
                IF sources[pos[t].type] # {} THEN "collect" ELSE "advance"]
    /\ UNCHANGED <<sources, cache, content, active, writing, toClear, ask, pos, found>>

(* ... and it is iterated over afterwards. *)
Collect(t) ==
    /\ pc[t] = "collect"
    /\ found' = [found EXCEPT
                    ![t] = @ \cup ResolvedAt(sources, Question[ask[t]], pos[t].type)]
    /\ pc' = [pc EXCEPT ![t] = AfterType(t)]
    /\ UNCHANGED <<sources, cache, content, active, writing, toClear, ask, pos>>

(* Slip: the end of the hierarchy is taken for a type. *)
AdvanceBeyondEnd(t) ==
    /\ pc[t] = "advance"
    /\ pos' = [pos EXCEPT ![t] = After(super, Question[ask[t]], pos[t])]
    /\ pc' = [pc EXCEPT ![t] = "visit"]
    /\ UNCHANGED <<sources, cache, content, active, writing, toClear, ask, found>>

(* hasNext() of the iterator reads the super type from the repository. *)
Advance(t) ==
    LET next == After(super, Question[ask[t]], pos[t]) IN
    /\ pc[t] = "advance"
    /\ pos' = [pos EXCEPT ![t] = next]
    /\ pc' = [pc EXCEPT ![t] = IF next = End THEN "store" ELSE "visit"]
    /\ UNCHANGED <<sources, cache, content, active, writing, toClear, ask, found>>

(* computeIfAbsent stores the answer and unlocks the key. *)
Store(t) ==
    /\ pc[t] = "store"
    /\ cache' = [cache EXCEPT ![KeyOf[ask[t]]] = found[t]]
    /\ pc' = [pc EXCEPT ![t] = "return"]
    /\ pos' = [pos EXCEPT ![t] = End]
    /\ UNCHANGED <<sources, content, active, writing, toClear, ask, found>>

(* The caller has the answer, null if it is empty (nullIfEmpty). *)
Return(t) ==
    /\ pc[t] = "return"
    /\ pc' = [pc EXCEPT ![t] = "idle"]
    /\ ask' = [ask EXCEPT ![t] = NoLookup]
    /\ found' = [found EXCEPT ![t] = {}]
    /\ UNCHANGED <<sources, cache, content, active, writing, toClear, pos>>

-----------------------------------------------------------------------------
(* The content and the change listener *)

(* A sling:resourceSuperType is added, changed or removed; the repository  *)
(* sends an event that the filter of the listener lets through.            *)
ChangeHierarchy ==
    /\ changes < MaxChanges
    /\ super' \in Hierarchies
    /\ super' # super
    /\ changes' = changes + 1
    /\ events' = events + 1
    /\ UNCHANGED <<sources, cache, pending, active, writing, toClear, lookup>>

(* handleEvent: offer an invalidation, dropped when one is pending. *)
HandleEvent ==
    /\ active
    /\ events > 0
    /\ events' = events - 1
    /\ pending' = 1
    /\ UNCHANGED <<sources, cache, super, changes, active, writing, toClear, lookup>>

(* Slip: the worker drops only the entries it finds at its beginning. *)
PollEntries ==
    /\ active
    /\ toClear[Worker] = {}
    /\ pending = 1
    /\ pending' = 0
    /\ toClear' = [toClear EXCEPT ![Worker] = {k \in Keys : cache[k] # Absent}]
    /\ UNCHANGED <<sources, cache, super, changes, events, active, writing, lookup>>

(* The worker takes the invalidation and starts to clear the lookup cache. *)
Poll ==
    /\ active
    /\ toClear[Worker] = {}
    /\ pending = 1
    /\ pending' = 0
    /\ toClear' = [toClear EXCEPT ![Worker] = Keys]
    /\ UNCHANGED <<sources, cache, super, changes, events, active, writing, lookup>>

-----------------------------------------------------------------------------
Write(b) == DropDuplicate(b) \/ Insert(b) \/ RemoveSource(b)

Traverse(t) ==
    \/ FindComputed(t) \/ BeginTraversal(t)
    \/ VisitFiltered(t) \/ VisitUnfiltered(t) \/ Collect(t) \/ Advance(t)
    \/ Store(t) \/ Return(t)

Next ==
    \/ \E b \in Bundles :
        \/ \E s \in Sources : BeginAdd(b, s)
        \/ BeginRemove(b)
        \/ Write(b)
    \/ BeginDeactivate \/ DropType
    \/ \E w \in Writers : BeginClear(w)
    \/ \E c \in Clearers : \E k \in Keys : ClearKey(c, k)
    \/ \E t \in Requests : (\E l \in Lookups : Lookup(t, l)) \/ Traverse(t)
    \/ ChangeHierarchy \/ HandleEvent \/ Poll

Spec == Init /\ [][Next]_vars

(* Threads that have begun something go on with it, events are delivered   *)
(* and the worker polls; nobody is obliged to begin anything.              *)
Fairness ==
    /\ \A b \in Bundles : WF_vars(Write(b))
    /\ WF_vars(DropType)
    /\ \A w \in Writers : WF_vars(BeginClear(w))
    /\ \A c \in Clearers : \A k \in Keys : WF_vars(ClearKey(c, k))
    /\ \A t \in Requests : WF_vars(Traverse(t))
    /\ WF_vars(HandleEvent)
    /\ WF_vars(Poll)

FairSpec == Spec /\ Fairness

-----------------------------------------------------------------------------
(* Properties *)

Answer == SUBSET ResolvedModelSource

TypeOK ==
    /\ sources \in [Types -> SUBSET Sources]
    /\ DOMAIN cache = Keys
    /\ \A k \in Keys : cache[k] = Absent \/ cache[k] \in Answer
    /\ super \in Hierarchies
    /\ changes \in 0 .. MaxChanges
    /\ events \in Nat
    /\ pending \in {0, 1}
    /\ active \in BOOLEAN
    /\ op \in [Writers -> {"idle", "add", "remove", "deactivate"}]
    /\ adding \in [Writers -> Sources \cup {NoSource}]
    /\ \A w \in Writers : op[w] = "add" => adding[w] \in Sources
    /\ todo \in [Writers -> Seq(Types)]
    /\ toClear \in [Clearers -> SUBSET Keys]
    /\ pc \in [Requests -> {"idle", "compute", "visit", "collect", "advance",
                            "store", "return"}]
    /\ ask \in [Requests -> Lookups \cup {NoLookup}]
    /\ \A t \in Requests :
        /\ pc[t] # "idle" => ask[t] \in Lookups
        /\ pc[t] \in {"visit", "collect", "advance"}
            => pos[t] \in Positions(Question[ask[t]])
    /\ found \in [Requests -> Answer]
    /\ DOMAIN pos = Requests

Resolve(l) == ResolveIn(sources, super, Question[l])

(* No change is under way that the entry of k has not been cleared after. *)
Settled(k) ==
    /\ events = 0
    /\ pending = 0
    /\ \A w \in Writers : op[w] = "idle"
    /\ \A c \in Clearers : k \notin toClear[c]

(* The elements of a key tell apart every two lookups that can be answered *)
(* differently.                                                            *)
KeysSeparate ==
    \A l, m \in Lookups : KeyOf[l] = KeyOf[m] => Question[l] = Question[m]

(* An entry that no pending change affects is what a fresh traversal of    *)
(* the registry and the hierarchy would find: the clear that follows every *)
(* change catches the answers computed from what was there before, also    *)
(* those still being computed while the change is made.                    *)
CacheCoherent ==
    \A l \in Lookups :
        Settled(KeyOf[l]) /\ cache[KeyOf[l]] # Absent => cache[KeyOf[l]] = Resolve(l)

(* A traversal under way that no pending change affects has collected      *)
(* what, together with the rest of its way, makes up the right answer.     *)
Remaining(t) ==
    LET q == Question[ask[t]] IN
    CASE pc[t] \in {"visit", "collect"} -> FoundFrom(sources, super, q, pos[t])
      [] pc[t] = "advance" -> FoundFrom(sources, super, q, After(super, q, pos[t]))
      [] OTHER -> {}

OnCourse(t) ==
    Traversing(t) /\ Settled(KeyOf[ask[t]]) =>
        /\ found[t] \cup Remaining(t) = Resolve(ask[t])
        /\ pc[t] = "collect" => sources[pos[t].type] # {}

TraversalOnCourse == \A t \in Requests : OnCourse(t)

(* A key is computed by one request at a time and has no entry meanwhile. *)
OneComputation ==
    \A t \in Requests :
        Traversing(t) =>
            /\ cache[KeyOf[ask[t]]] = Absent
            /\ \A u \in Requests :
                Traversing(u) /\ KeyOf[ask[u]] = KeyOf[ask[t]] => u = t

(* What has been found before a traversal has begun, and which lookups     *)
(* iterate over a live queue.                                              *)
Beginnings ==
    \A t \in Requests :
        /\ pc[t] \in {"idle", "compute"} => found[t] = {}
        /\ pc[t] = "collect" => Question[ask[t]].kind \in {"any", "all"}

(* The inductive invariant: coherence of the cache needs that of the       *)
(* computations under way, which is worth something only because nobody    *)
(* else computes the same key and no entry is there to be overwritten.     *)
IInv ==
    /\ TypeOK
    /\ Beginnings
    /\ OneComputation
    /\ CacheCoherent
    /\ TraversalOnCourse

(* A lookup never hands its caller an outdated answer once the change that *)
(* outdated it has been followed by its clear, whether the answer comes    *)
(* from the cache, from another request or from a traversal of its own.    *)
ReturnsFresh ==
    [][\A t \in Requests :
        pc[t] # "return" /\ pc'[t] = "return" /\ Settled(KeyOf[ask'[t]])
            => found'[t] = Resolve(ask'[t])]_vars

(* What is cached and wrong is dropped, also when the only event of a      *)
(* change was discarded because an invalidation was pending already.       *)
Outdated(l) == cache[KeyOf[l]] # Absent /\ cache[KeyOf[l]] # Resolve(l)

OutdatedEntryGoes ==
    \A l \in Lookups : Outdated(l) ~> (~ Outdated(l) \/ ~ active)

(* A computation ends and gives its key free, although the hierarchy it    *)
(* follows changes under its feet.  Others wait for the key meanwhile, and *)
(* every clear does.                                                       *)
ComputationEnds ==
    \A t \in Requests : Traversing(t) ~> pc[t] = "return"

(* The registry is a coherent cache of the answers. *)
QuestionOf == [k \in Keys |-> Question[CHOOSE l \in Lookups : KeyOf[l] = k]]

Abstract == INSTANCE CoherentCache WITH
    Values <- Answer,
    truth <- [k \in Keys |-> ResolveIn(sources, super, QuestionOf[k])],
    cached <- cache,
    untrusted <- {k \in Keys : ~ Settled(k)}

ImplementsCoherentCache == Abstract!Spec
==============================================================================
