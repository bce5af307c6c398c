# A verification of NEBA

TLA+ modules, TLC configurations and TLAPS proofs for NEBA, a framework that
maps Apache Sling resources to annotated Java objects ("resource models") in an
OSGi container, and comes with three consoles that run in the browser. Source
paths are relative to `src/core/src/main/java/io/neba/core`, or to
`src/core/src/main/resources/META-INF/consoleplugin` when they name a script,
unless they start with `spring/` or `api/`. `PROJECT.json` names, for every
definition that models code, the lines it stands for.

## 1. The system

Bundles contribute model classes. A model says to which resource types or node
types it applies. A request asks to adapt a resource to a type; NEBA looks for
the models of the resource's type, of its super types and of its node type,
creates the most specific one, fills its fields from the resource and caches
the result for the rest of the request. The consoles show which models there
are, how they perform, and what is written to the logs.

### Components, their state and their operations

| Component | State | Operations | What makes it correct |
|---|---|---|---|
| Model registry (`resourcemodels/registration/ModelRegistry`, `util/Concurrent*`) | sources by type name; lookup cache by key | `add`, `removeResourceModels`, `deActivate`, four lookups, `clearLookupCaches` | a cached answer is the answer a fresh traversal would give, as soon as changes have been followed by their clears |
| Type hierarchies (`MappableTypeHierarchy`, `util/*HierarchyIterator`) | position of an iteration | `next`, `hasNext` | every type once, most specific first; ends |
| Type hierarchy change listener | queue of capacity one, worker thread | `handleEvent`, `run` | no change of the hierarchy remains unnoticed although events are dropped |
| Model registrar | tracked services | `addingService`, `modifiedService`, `removedService` | the registry has the models of exactly the services there are and it has got to |
| Meta data registrar | meta data by class | `register`, `removeMetadataForModelsIn`, `get` | a model that can be found has meta data; nothing outlives its bundle |
| Adapter updater | registration of the adapter; executor | `refresh`, `updateModelAdapter` | in the end the adapter offers the types of the registered models |
| Resource to model adapter, model resolver | none | `getAdapter`, `resolveMostSpecificModel...` | what is cached is the result of the mapping |
| Request-scoped cache | thread local map | `get`, `put`, `doFilter` | one key, one model per request; gone afterwards |
| Resource to model mapper, nested mapping support | mapping stack, occurrence counts, recorded mappings (thread locals) | `map`, `push`, `pop`, `beginRecordingMappings`, `endRecordingMappings` | cycles are recognised, nothing is left behind whatever is thrown |
| Registry console (`modelregistry/static/script.js`) | rows with the control that hides them; requests under way | toggle, filter, answers | every row is hidden for a reason that stands |
| Filter language (`modelstatistics/static/lib/parser.js`) | position, furthest failure, what was expected there | `parse` | accepts the language, translates it, says what may come next |
| Statistics console (`modelstatistics/static/script.js`) | filter field, completion menu, plots, requests under way | focus, typing, completion, examples, reset, fading, answers | the plots are those of the filter |
| Log viewer: page (`logviewer/static/script.js`) | excerpt, open section, incomplete line, filter, follow mode, connection | messages, controls, reconnection | entries are whole and filtered |
| Log viewer: server (`logviewer/TailSocket`, `Tail`) | per socket a thread and its tails; position in the file | `onWebSocketText`, `onWebSocketClose`, `run` | one tail at a time; every tail that is stopped ends |
| Decoder (`logviewer/static/encoding.js`) | code point under construction, byte order mark, flush flag | `decode`, `encode` | a text in pieces is decoded as the whole is |
| Field value mapping, lazy values | a lazy value's field | `doWith`, `resumeMapping`, `load` | a lazy value is loaded once and seen by all threads |
| Annotated field mappers, placeholder resolvers, post processors | lists and a cache by field | `bind`, `unbind`, `get` | the cache follows the mappers that are bound |
| Model statistics | counters, frequency table | `count...`, `reset`, median | a reading is one of the moments it overlaps |
| Model factory, instantiator, injector of `Neba-Packages` | factories by bundle, service dependencies | bundle tracking, `getModel` | models of started bundles, and only those, can be instantiated |
| JSON views | none (recording above) | `doGet`, serialisation | a model that is serialised is found with its resource |
| Spring integration (`spring/`) | contexts, registered factories, dispatcher servlets | start, failure and stop of contexts | nothing of a bundle is used after its context is closed |
| Consoles' servers, API, packaging | none | | |

### How they interact

* A bundle registers a `ResourceModelFactory` service. The **model registrar**,
  called back in that thread, registers meta data and then the source of each
  model with the **registry**, and asks the **adapter updater** for a refresh.
  The updater's executor reads the registry and replaces the adapter service.
* A request thread enters the filter of the **request-scoped cache**, adapts
  resources through the **adapter** (cache, **registry**, **mapper**, cache) and
  within a mapping does so again: from fields, from setters, from
  `@AfterMapping` or `@PostConstruct` methods and from post processors.
* Content changes are observed by the **change listener**, whose worker clears
  the lookup cache of the registry.
* The **statistics console** hands every text of its filter field to the
  **parser**: what is accepted is applied to the statistics the server sends,
  what is rejected is completed from the parser's expectations.
* The **page of the log viewer** sends commands over a web socket. The
  **server** runs a tail per command, one after the other, in a thread per
  socket. The tail sends bytes, which the page **decodes** message by message
  and appends to its excerpt.

### Which behaviours are hard

* *Lock-free readers.* The maps are `ConcurrentHashMap`s of concurrent queues.
  Writers change several queues and then clear a cache that lookups fill at the
  same time. All orders of these steps occur.
* *Discarded events.* The listener's queue has one place; what does not fit is
  dropped.
* *Re-entrance.* Everything in one request is one thread, but the code of the
  framework and of the models call each other to any depth, exceptions can be
  caught at any level, and thread locals survive them.
* *Callbacks.* Service callbacks of several factories overlap with each other,
  with the opening of the tracker and with the executor.
* *Answers.* The pages do not wait: a user acts while requests, fadings and
  timers are under way, and answers arrive in any order, or not at all.
* *Files and connections.* A log is read while it is written and rotated, by a
  thread that is stopped by a flag; a connection is lost between a command and
  what comes of it.
* *Cuts.* Lines, entries and characters are cut by chunks and messages anywhere.
* *Backtracking.* The parser's answer on a rejected text depends on every
  alternative it has tried and given up.

`PROJECT.json` lists each hazard at its line with the properties that watch it,
or with the reason why none does.

## 2. The plan

Modules, in the order in which they were written. All of them exist.

| | Module | Contents | State |
|---|---|---|---|
| A | `ModelResolution`, `ModelRegistry`, `CoherentCache` | type hierarchy, registry, change listener; the abstract cache they implement | checked and proved |
| B | `ModelRegistration` | registrar, meta data, adapter updater | checked, invariants proved |
| C, D | `ResourceMapping` | adapter, request cache, mapper, nesting, recording | checked and proved |
| E | `RegistryConsole` | the table and the two controls of the registry console | checked and proved |
| F | `FilterParser`, `FilterField` | the filter language, its parser and its completion | checked |
| G | `StatisticsConsole` | field, menu, plots and requests of the statistics console | checked and proved |
| H | `TailView`, `LogTail`, `LogViewer` | the excerpt, the tails and the file, and both connected | checked, invariants proved |
| I | `TextDecoding` | the UTF-8 decoder, in one call and as a stream | checked, all of it proved |

`ModelRegistry` extends `ModelResolution` and implements `CoherentCache`.
`FilterField` extends `FilterParser` with the user and the menu;
`StatisticsConsole` tells texts apart by what `FilterParser` says of them.
`LogViewer` composes `TailView` and `LogTail` with the socket between them.

What a continuation would take up first, and what it would need: lazy values
(the memory model of Java as far as a non-volatile field goes), the cache of
annotated field mappers (a smaller `CoherentCache`), the life of Spring contexts.

## 3. The modules

### ModelResolution and ModelRegistry

`ModelResolution` has no variables. It describes the way of an iterator along
the types of a resource: the *line* of resource super types, followed by the
further types (node types, or the synthetic root). A position is `After` another
one, and `FoundFrom` is, as a recursive function over the positions, what the
code of `resolveModelSources` collects from a position on. `ResolveIn` is the
answer of a traversal that nothing disturbs.

`ModelRegistry` splits the operations into the steps at which threads interleave:

| Code | Actions |
|---|---|
| `add` | `BeginAdd`, per type `DropDuplicate` and `Insert`, `BeginClear` |
| `removeResourceModels` | `BeginRemove`, `RemoveSource` per element, `BeginClear` |
| `deActivate` | `BeginDeactivate`, `DropType` per type, `BeginClear` |
| `clearLookupCaches` | `ClearKey` per key, which waits for a computation of that key |
| `lookup...` | `Lookup`, `FindComputed` or `BeginTraversal`, per type `VisitFiltered` or `VisitUnfiltered` and `Collect`, `Advance`, `Store`, `Return` |
| repository, `handleEvent`, worker | `ChangeHierarchy`, `HandleEvent`, `Poll` |

`computeIfAbsent` holds the lock of a bin of the map and `clear` locks bin after
bin; the model has a lock per key, which allows every interleaving that a lock
per bin does. `KeyOf` builds keys as the code does, *without* the kind of the
lookup. That lets two lookups share a key.

`CoherentCache` says what remains if sources, hierarchy and threads are
forgotten: a change makes all keys untrusted, a key is trusted again by losing
its entry, a trusted key is filled with the truth. `ModelRegistry` implements it
with `untrusted` being the keys that are not `Settled`.

### ModelRegistration

`StartService`, `ModifyService`, `StopService` are what owners of services do;
each starts a callback (`job`) that runs in steps: `GetService`, `RegisterMetaData`
and `AddSource` per model, `Refresh`, `Return`; `RemoveSources`, `RemoveMetaData`,
`EndRemoval`. `OpenTracker` adds the services found when the tracker is opened, one
after the other; `StopUntracked` is a service that goes while that happens. If it
goes before `addingService` has asked for it, `MissService` is what follows: a
NullPointerException that leaves `tracker.open` and `activate`. From then on `failed`
holds: the services in `initial` that have not been added never are. The tracker,
which nobody closes, still reacts to services that come, change and go. What the
container does about a component whose activation failed is up to the container and not
modelled; `failed` is the state until it does something. `UnregisterAdapter`,
`CollectNames`, `RegisterAdapter` are one run of the executor's task. An addition
to or removal from the registry is one step here: `ModelRegistry` has the steps
in between, and its `CacheCoherent` is what a lookup may rely on.

### ResourceMapping

One thread. `frames` are the running calls of `map`. An adaptation is asked for
(`Hit`, `FindNothing`, `RefuseAmbiguous`, `Begin`, `YieldOngoing`,
`RefuseCycle`), a mapping passes through `Create`, `EndFields`, `PostProcess`,
`Finish`, exceptions rise with `Throw`, `Catch`, `Unwind`, and the request enters
and leaves the filter, begins and ends recordings and asks again. What a model
asks for in which phase is `content`, an arbitrary member of `Contents`.
`getAdapter` and `resolveMostSpecificModel...` differ only in the key and in the
refusal of several models, so one set of actions covers both.

The variables `models`, `answers` and `asked` have no counterpart in the code.
They are history, to state properties about what was handed out. They occur in
no guard except for the bounds.

### RegistryConsole

The page of the registry console. A row remembers in `hiddenBy` which of two
controls has hidden it (`MayShow`, `MayHide` are the function `visibility`), and
`ShowAndHide` is the loop both of them run over the rows.
`ToggleUnresolvedResourceTypes` is the click, `RequestFilter` a change of one of
the two fields, `ApplyFilter` its answer, in any order, and `LoseRequest` an
answer that never comes.

### FilterParser and FilterField

`FilterParser` is the generated parser as a parsing expression grammar. The
grammar is a *value*: `AnyOf`, `Terminal`, `Rule`, `Then`, `Or`, `Action` build
expressions, `Grammar` gives each rule its expression (`Binary` is what the six
levels with an operator have in common, `Operator` an operator with blanks around
it or without), `Act` is what the actions translate to, and `Parsed` runs an
expression at a position. The outcome of a rule has what the code keeps
globally: how far it matched, its translation and all failures on the way, from
which `SyntaxError` takes those at the furthest position. An action that throws
an error of its own is `Thrown`.

A text is a sequence of pieces, not of characters: what matters is where one
literal is a prefix of another (`Split`), and that numbers may go on.

`FilterField` lets a user enter any text into the empty field at once (`Enter`),
since the widget only asks some 300 ms after the last key, and go on piece by piece
(`Type`, `Delete`), choose from the menu (`Choose`) and leave it (`Escape`).
`Search` and `Suggestions` are the source of the completion (script.js 362-416).
`asked` is what the widget has asked about, its term: `text` differs from it
when the source has emptied the field because of a blank in front (line 371). What is
offered then belongs to a text that is gone, and `OfferedIffViable` claims something
of it only if there were nothing but blanks, and nothing of the empty text, about which
the widget does not ask its source; `MCFilterField` evaluates an example of the rest
(`RemovedTextMisleads`).

### StatisticsConsole

`Process` decides what a text means for the view, `Visualize` what follows:
nothing, a fading of the plots there are, or a request. Each event of field, menu and page
is an action: `Focus`, `BlurMenu`, `Blur`, `Type`, `Paste`, `Search`, `SelectItem`,
`Submit`, `ChooseExample`, `ResetStatistics`, `FadeEnd`, `Arrive`, `Fail`. A key or a
click in the field comes after the change of the text and processes it (`Type`); the
event of a paste comes before it, so `Paste` processes the text there was and then
changes it, or processes nothing for cutting and dropping, which are not listened to.
When the field loses the focus (`Blur`) the browser reports a change, which processes
the text, or none, if the text is the one there was when the field got the focus: both
are possible at any time. A plot is known by the answer it stems from. `wanted`,
`answered`, `shows`, `hasty` and `pasted` are history; `hasty` says that somebody has
begun a visualisation before the one before was done, `pasted` that the text was
changed with the mouse alone and has not been processed since - or only been taken for
a known text (`Known`), to which nothing is done though the mark may be another text's.

### TailView, LogTail and LogViewer

`TailView` has no variables: it is the object `Tail` of the page as operators on
a record - `add` cuts a text into lines and keeps the rest, `addLine` decides
between a line, a request, a new section and the continuation of one,
`applyFilterExpression` shows and hides, `addToTail` drops the oldest nodes.

`LogTail` is the server. `jobs` are the tails of a connection's executor, of
which the first one runs: `OpenChannel`, `Locate`, `CheckStopped`,
`CheckExists`, `CheckLength`, `Read`, `ReadToAmount` are the moments at which it
looks at the file system or at its flag. `Write`, `RotateAway` and `Create` are
the program that logs; `Interrupt` ends a tail whose executor was shut down.

`LogViewer` connects them: commands (`up`) and messages (`down`) arrive in
order, `Lose` cuts the connection while some are on their way, `Reconnect` makes
the next one, and the server learns of the loss when it does
(`onWebSocketClose`). The user's actions are `toggleFollowMode`, `EditGrep` with
its timer `GrepTimer`, `ChangeAmount`, `logfileParametersChanged`, and leaving the
page (`Unload`). `heard` is history: the text since the view was last cleared.

### TextDecoding

A step is a token of the input, as in the loop of `decode`: `handler` is the
decoder's `handler` with `lead` and `continuation` for its two halves, `decode`
begins a call with or without the option `stream`, `Finish` ends it.
`serialized` is the treatment of the byte order mark. `stringToCodePoints`,
`codePointsToString` (`codeUnits` for each code point) and `encode` (`encoded`, of
several bytes `multiple`) are the conversions `RoundTrip` needs. The reference it
is compared with, `Decoded`, is written from the definition of UTF-8 and not from
the code: bytes begin a character if what they can be completed to, from the least
(`Completed(bytes, 128)`) to the greatest, is a range with a character in it that has
no shorter form; from the left, the longest beginning is a character if it is all
of one and one error if it is not. The code has none of this: it has four
exceptions to the range of a second byte, and a byte that is put back.

### Slips

Definitions that are marked "Slip" in the modules are variants of the action
below them with a plausible mistake in it; no specification uses them. They
serve to make sure that each property fails when the code is wrong.

## 4. The runs

| Run | Question | Instance |
|---|---|---|
| `registry_shared` | coherence, fresh answers, one computation per key | two requests, the same key, two bundles with a model each, one under two types; one change of the hierarchy |
| `registry_progress` | outdated entries go, computations end, `CoherentCache` is implemented | one request; two changes, the second may meet a full queue |
| `mapping` | stack, cycles, tracking, cache, recording | three mappings of two types, six adaptations, 68 contents, a replacing post processor, failing `@AfterMapping` methods |
| `registration` | registry, meta data and adapter follow the services | two factories of two bundles, three models, four events, one impatient factory; opening the tracker may fail |
| `registration_opening` | finding | the same, one event |
| `registry_console` | no row is lost, what is hidden stays hidden | four rows, two models, three requests with any answers |
| `filter` | the language, the translation, the completion | every text of up to four pieces from eight keys, entered at once or grown, and every completion of one |
| `statistics_console` | field and view agree, the patient user gets the plots | two filters, three rejected texts, four visualisations, any of the texts pasted at any time |
| `statistics_mixed`, `statistics_paste` | findings | the same |
| `logviewer` | entries, filter, follow mode, end of tails | a reader with every file of four tokens; five followers whose file is rotated, connection lost, page left |
| `decoder` | UTF-8, in pieces and whole | every input of up to four of thirteen bytes, in calls of up to two, fatal or not, with the byte order mark or without |

**Bounds.** The registry needs a type with a model below a type with another
(an answer depends on both, and on the way between them), a second request for
the wait on a key, and writers that overlap. The two runs take lookups with a filter by
name and without any; those by type and of all models differ in the filter and in the
end of the traversal, and are covered by the theorems only. `MaxChanges` of two is the least
that makes the listener discard an event while an invalidation is pending. Keys
are independent but for the clears, which the theorems cover for any number. The
mapping needs cycles of length two and three, two mappings of one type at a time,
two keys for one mapping and two questions of the request, one before and one
after something failed; more questions repeat what the second one meets.
`MaxFilters` is one: see what is not modelled. The registration needs two
overlapping callbacks with a refresh each while the executor runs; four events
are enough for each factory to come and go, or to come, change and go while the
other one comes.

The rows of the registry console are all four combinations of what the two
controls look at, and three requests suffice to overtake one another twice. The
filter's keys have a blank, a sign that is also an operator, an operator that is
a prefix of another, parentheses, a number with and without a point, and a
prefix of two names; the remaining operators (`entire(`, `average(`, `&&`, `*`
and so on) enter through the completion, which offers all of them. Four pieces
allow an operand too many, nesting, and a word that is cut after an operator;
the parser's cost grows by a factor of 64 per parenthesis, and the run's with
it. Four visualisations let an answer, a fading and two newer filters overlap. The log
viewer's chunk of two tokens cuts lines and entries at every place of a file of
four; its scenarios split what would multiply: reading and filtering needs no
failures, following needs one content. The bytes of the decoder are the first and last a
continuation may be after each of the four special leads, and leads of all lengths;
four bytes are the longest character, and the shortest beginning of one
followed by another.

**Deadlock** is checked for the registry and for the two console pages and the
filter, which a user can always go on with. It is off for mapping, registration,
log viewer and decoder, where asks, recordings, events, scenarios and input are
bounded and the system rests when they are used up.

**Fairness** is weak throughout. `registry_progress` assumes that a thread that
has begun something goes on with it (JVM threads are scheduled, no lock is held
for ever: that is what `ComputationEnds` shows), that events are delivered and
that the worker polls (its loop runs until deactivation). No bundle or request
has to begin anything, and a request waiting for a key may be overtaken.
`registration` assumes that callbacks go on and that the executor runs its
tasks; services need not come or go. `statistics_console` assumes that the
browser ends every fading that is not replaced (a timer of jQuery) and that a
request is answered or fails. `logviewer` assumes that the server receives what
was sent on a connection that carries it, that the thread of an executor takes
its steps and that the container reports a lost connection; neither the user nor
the program that writes the log has to do anything. `ResourceMapping` has no
liveness property: that a mapping ends depends on the code of models; what the
framework contributes is `NoNestedRepetition`.

**Findings.** Three runs show behaviours that one of the code's comments excludes;
`PROJECT.json` quotes the lines.

* `registration_opening`: a service that goes after the tracker took it off its list,
  and before `addingService` asks for it, makes the activation fail, and services that
  are there are never added (ModelRegistrar.java:71). If it goes a little later, while
  its models are registered, it leaves them behind, because `addingService` asks for it
  again and returns null (ModelRegistrar.java:73): the property fails that way, too.
* `statistics_mixed`: a filter entered before the answer to the one before leaves the
  plots of both.
* `statistics_paste`: a text pasted with the mouse is not applied before the next
  event of the field, since the event of the paste comes before the change (script.js:437).

Three more are facts about single values rather than behaviours. They are assumptions of
MC modules, which TLC evaluates in the passing runs:

* `KeysCollide` (`MCModelRegistry`): `lookupAllModels` and a lookup by the model name
  `allModels` share a key of the lookup cache (ModelRegistry.java:158, 204), so that one
  gets the answer of the other, although the doc of the latter says that the name must
  match (143-144).
* `BlanksThrow` (`MCFilterField`): blanks before an expression throw a ReferenceError out
  of the parser (parser.js:39), although the grammar has an alternative for them
  (grammar.pegjs:23).
* `RemovedTextMisleads` (`MCFilterField`): not only spaces are removed from the field, as
  the comment has it (script.js:370), but any rejected text that begins with one, and what
  was expected in it is offered for the empty field (script.js:371).

**Other observations.** Met while modelling. The properties are stated for what holds:

* A class that two bundles register loses its meta data with the bundle that registered
  it last, while the other one's model is still found (ResourceModelMetaDataRegistrar.java:109,
  against 68-69). The run's classes belong to one factory each, and the theorems assume it.
* A filter entered while a request is under way and plots are there is never asked for if
  the answer, or a newer filter, replaces their fading (script.js:322): entering it again
  does nothing, since it is the `lastValue`. Only a hasty user meets this.
* A lookup answers null while a more general model is registered, if the queue
  of the special one is emptied between the test and the iteration.
* A model that a cycle has cached stays in the request cache half mapped when
  its mapping fails, or when it was asked for under another key. A mapping
  counts itself as its subsequent mapping.
* The removal of a factory takes the models of its bundle's other factories with
  it.
* In the registry console, releasing the toggle shows rows the filter excludes,
  if the toggle had hidden them first.
* The parser takes a sign before a sign, so `--` reaches the evaluation as
  a decrement, and digits with a leading zero are evaluated as octal numbers: both
  are accepted filters that JavaScript may refuse.
* Resetting the statistics does not refresh the plots that are shown.
* After a reconnection in follow mode the file is tailed once and not followed.
  If the first connection fails, the controls of the log viewer are never bound.
  Bytes that were on their way when the view was cleared appear in front of the
  new excerpt. Pings go on after their connection is lost.
* A rotation is noticed only if the new file is shorter than what was read. A
  command that arrives while there is no file is ignored.
* The page decodes every message for itself: a character that two messages share
  is replaced, although the decoder could take it as a stream.
* A line that begins with a tab continues an entry, one that begins with a space
  ends it.
* `SLING-INF/repository-content/neba.js` documents a parameter `modelName` and
  passes `beanName` on.

## 5. The proofs

All theorems hold for any sets of types, sources, bundles, keys, threads,
contents, rows, texts, bytes and so on, under the `ASSUME` of the module, which
TLC evaluates in the runs.

**ModelRegistryProofs.** The recursive function `FoundFrom` is well founded on
the positions (`FoundUnfolds`): what is found from a position on is what is found
there and, unless the traversal stops, what is found from the next one on.
`CacheCoherent` is not inductive: an entry is written by
a traversal that began long before. `IInv` adds that every traversal under way
whose key no change affects has so far collected what leads to the right answer
(`TraversalOnCourse`), that it began with nothing and reads live queues only for
lookups without a filter (`Beginnings`), and that its key has no entry and no
other computation (`OneComputation`). The steps of a traversal preserve this by
`FoundUnfolds`. The steps of writers make all keys unsettled until the clear
reaches the key, and the clear waits for the computation and removes the entry.
From `IInv` follow `TypeCorrect`, `ComputedOnce`, `TraversalsOnCourse`,
`Coherence`, `FreshAnswers` (an action property) and `Refinement` (every step is a
step of `CoherentCache` or stutters). Coherence and what follows from it assume
`KeysSeparate`: lookups with one key have one question. The code does not guarantee it for
all names: `MCModelRegistry` evaluates the exception (`KeysCollide`).

**ResourceMappingProofs.** `IInv` is `TypeOK`, `StackMirrorsCalls`,
`NoNestedRepetition` and `OutermostTracked`; they need each other: that a mapping
is not nested in itself follows from the test of the stack only if the stack
mirrors the calls, and tracking is right because the counts are. Each action
either leaves stack and calls alone but for the innermost call (`TopChanges`), or
pushes (`PushCall`), or pops (`PopCall`); `Cardinality` lemmas carry the counts.

The second half builds on that invariant. None of `CachedModelIsResult`,
`RecordingComplete` and `OneModelPerRequest` is inductive: each speaks of an
idle thread, and is established by calls that were running. `CallsOwnModels`
says what a running call knows: its key, a model of its mapping that is ongoing and
was created during the present recording, and after post processing perhaps
another one made from it. `ResultsRecorded` says that every completed model of any recording is in
that recording, and that while calls run they record into the present one: that
the stack takes the recording along when it is created is what `pop` relies on.
`CacheSound` says that a cached model stands for its key and is a result, or
belongs to a call under way for that key - which replaces it when it returns, so
that nothing half mapped is left when the last call has returned; that argument needs
the key to be the only one of its mapping, and a mapping not to be nested in
itself. From these follow `CachedIsResult` and `AllRecorded`. `AnswersCached`
says that every answer of the request is still cached under its key and
that no running call was asked for it, so nothing replaces it; `OneModel` assumes
`MaxFilters <= 1`, without which it is false.

**ModelRegistrationProofs.** `TypeCorrect` needs no assumption. The rest assumes
`FactoriesApart`: no two factories in one bundle, no class registered by two;
the findings and observations above say what happens otherwise, or when a factory goes while
it is being added (`Impatient`). That such a factory can make opening the tracker fail
is part of what is proved about: the others are claimed to be registered as far as the
tracker got to them, and all of them if it did not fail (`AllPatientRegistered`). None of the properties is inductive, since in the
middle of a callback they are false. `IInv` says for each step of a callback what
is true then: how much of a factory is in the registry (`RegistryFollows`), that a
model about to be added has its meta data and nothing is in the registry any more
when meta data is taken away (`StepsInOrder`), that meta data is there for a source
or for one that comes or goes (`MetaDataHeld`), and that the executor, unless a
further refresh will come, has collected the names of the models it has read
(`AdapterFollows`). From it follow `RegistryRight`,
`AllPatientRegistered`, `RegisteredKnown`, `MetaDataGoes` and `AdapterRight`.

**RegistryConsoleProofs.** `IInv` strengthens `HiddenForAReason` by `OwnerKnown`
(a row is visible just if nobody owns it) and `ReasonStands` (the owner's reason
holds, for hidden rows as for those about to be released). `ControlsHaveTheirWay`
is the action property `NothingLeftOver`, from the same invariant.

**StatisticsConsoleProofs.** `PatientSeesFilter` needs `OneAtATime`: for a user who
has not been hasty, fading, request and plots exclude one another and each is
about what is wanted. `FieldAgrees` needs `FieldInv`: the text processed last
decides what is wanted and, unless something was pasted since, the mark
(`LastValueRules`), is then the text of the field unless the menu is open, and the default value stands in the field only without the
focus, so that nobody processes it but a reset. `Process` and `CloseMenu` are dealt
with in lemmas on what they remember, show and mark, whatever the parser says.

**TextDecodingProofs.** Everything the run of the decoder checks is proved, for every
set of bytes, every input and every way to cut it. `TypeCorrect` is proved together
with `Pending`, the arithmetic of the decoder: what the bytes seen leave possible for
those that are still needed, the range of the next byte included. From it follows
`OnlyScalars`: no surrogate and nothing beyond U+10FFFF can come out.

`StreamWhole` (that the strings of all calls are the text, and that an exception is
thrown exactly if it is ill-formed) is an argument in four layers.

1. The recursive functions of the definitions (`Decoded`, `stringToCodePoints`) are
   *scans*: they go through a sequence from the left, in steps of at least one. That
   there is such a function (`ScanExists`), that it yields sequences (`ScanType`)
   and that it yields for what is right of a place what it yields from there on
   (`ScanShift`) is shown once, by `SetInduction`; `DecodedStep` takes one character
   or error from the front.
2. `BeginsIsGood`: that some character begins with these bytes, by the definition, is
   the same as that the first one is a lead, the second one in the range of this lead
   (`Lower`, `Upper`) and the others continuations. So `DecodedUnit`, `DecodedBroken`
   and `DecodedBadLead` say what is decoded when the next byte goes on and when it
   does not.
3. `Amid(d, w)` says what the decoder holds when it has read the bytes `w` of a
   character that has more, the bits of the code point included. `HandlerOutcome`: of
   the next byte come one byte more of a beginning, a character, an error of the byte,
   or an error of those before it, with the byte put back - and `Good` decides which.
4. The invariant is `StreamInv`. Whether a text is the right one cannot be said
   of what was read alone, since a character may be open; so `Progress` says that
   whatever follows (`Parses` quantifies over it), the input is decoded to what was
   found so far and the decoding of the open bytes and of what follows; that the string
   and the output of this call are what was found, with the byte order mark taken from
   the beginning of the *stream* (`StrippedConcat`); and that a fatal decoder has
   found no error. `ProgressAnew`, `ProgressMore`, `ProgressHandle`, `ProgressKept` and
   `ProgressFlushed` are the steps, and are about values, not variables.

`StreamInv` quantifies over sequences of any length, so TLC does not evaluate it; it
checks the two properties that follow from it.

`TextRoundTrip` needs no more of the state than that. `ReadBack`: reading the string
of any characters gives them back, since no character is a surrogate and the halves of
a pair are (`ReadUnits`). `EncodedBack`: where nothing is an error, the bytes of the
characters are the bytes decoded (`CompleteIsCharacter` for one of them: there are no
two forms of a character that are both accepted).

**FoldFacts.** The loops of the log viewer's page are folds (`FoldLeft`). The
induction theorems of the library take an operator as their parameter, which the
provers cannot instantiate; `SetInduction` says the same of a *set* of numbers and
follows from the well-foundedness of their order. With it, `IterExists` shows
that the function by which the community modules define a fold exists, and from
there, for every operator: `FoldEmpty`, `FoldAppend`, `FoldInvariant` (what the
operator keeps, the fold keeps), `FoldConcat` (a sequence may be folded in
pieces) and `FoldFollows` (a relation between what has been gone through and the
value, kept by each step, holds in the end). The operator is the module's constant; `LogViewerProofs` instantiates it
with the body of each loop (`addLine`, `withToken`).

**LogViewerProofs.** `ViewerInv` has four parts. `SystemInv` is what server and
connections are made of: each Tail has a position in a file there is, what a page
was closed for it had lost. `JobsInv` says that at most the last Tail of a
connection is not stopped, and none of a closed one or of one that has not been
opened: this is what makes `stopTail`, which knows one Tail only, stop them all. `DemandInv`
says who answers for a wish to follow: the page in follow mode, or a stop behind
the wish on its way. The order of the commands on the connection matters, so the
property itself (`FollowOnlyOnDemand`) is not inductive: it says nothing about commands
that have not arrived. `PageInv` says that the view is right for the text of the
filter's field (`Views(Wish)`), or for nothing in particular while that text is
being edited or does not parse. A step of the page is then a sequence of changes
of one view to another: `FilterUpdated`, `LineAdded` for one line,
`Added` for a text, line by line, `Informed`, `ClearedRight`. That a section is
filtered when its first line comes and grows afterwards is the reason for
the prefix in `NodeRight`. From `ViewerInv` follow `TypeCorrect`, `FilterRight` and
`FollowsOnDemand`.

`EntriesWhole` needs more: `EntriesInv` says that what the page's tail shows is the
text heard since the view was cleared (`ShowsLines`). It counts entries from the
end, which is no help for an induction, since every new entry shifts the count. So
`Shown` assigns to each node that is no remark the line with which its entry begins
(`Aligned`): in order, without a gap up to the last entry, and from the first one on
unless there are enough nodes to scroll back. `TypeNext`, `StartsNext`, `EntryBegins`
and `EntryGrows` say what one line more does to the text's entries, `ShownBegins`,
`ShownDropped` and `ShownGrows` that the view does the same, and `LineShown` puts
them together for `addLine` as a whole. `LinesConcat` (the last line of what was received is
continued by what comes) makes a message out of it, by `FoldFollows`. In the end
`WhatIsShown` turns the assignment into a count: it is one to one.

**Only model-checked.** Liveness (`OutdatedEntryGoes`, `ComputationEnds`,
`AdapterSettles`, `PatientIsAnswered`, `EveryTailEnds`), which is out of the
prover's reach. `AcceptsTheLanguage` and `OfferedIffViable`, whose modules have
`RECURSIVE` operators, and the type invariant of `FilterField` with them: what a
parser computes for every text is an induction over its data.

## 6. What is not modelled

* Cycles of `sling:resourceSuperType`: the hierarchies are assumed to end
  (`ModelResolution`); the iterator of the code does not.
* Nested passes through the filter (`MaxFilters` = 1): the inner pass replaces the
  cache and ends it for the outer one, so `OneModelPerRequest` is claimed for one level.
* Activation and deactivation of single components, but for the registry's.
* A service that is modified by one thread and unregistered by another at the same time.
* Synthetic resources with super types that change, and requests whose resource
  resolver was opened before a change: what a traversal reads is the repository as it is.
* Lazy values and the memory model; the cache of annotated field mappers; the
  frequency table, which is updated without synchronisation on purpose. They are a
  few lines of Java each, of which the interesting part is what the JVM guarantees.
* Spring: the modules would model Spring's contexts more than the code here.
* The other encodings of `encoding.js` and their tables: the page only uses UTF-8.
* The drawing of plots (`d3-star-plot.js`) and of menus, colours, formatting,
  links between requests and responses, the clock, pings.
* Edits in the middle of a text the completion has already asked about, and edits made
  while it waits to ask, one by one: in `FilterField` a step is all that is done until it
  asks, and every text up to the bound is entered in one. In the log viewer's filter,
  edits without a key: a text pasted with the mouse starts no timer there.
* What the container does with the registrar after its activation has failed.
* The data: values of fields, JSON, HTML, paths, reflection.
* What `PROJECT.json` lists as `not_modelled`.
