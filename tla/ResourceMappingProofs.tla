------------------------ MODULE ResourceMappingProofs ------------------------
(***************************************************************************)
(* The mapping stack: for every content, every set of mappings and types   *)
(* and whatever the models ask for, throw or catch, the thread locals of   *)
(* NestedMappingSupport mirror the running calls of map, no mapping is     *)
(* nested in itself, and time is tracked for the outermost mapping of a    *)
(* type only.                                                              *)
(*                                                                         *)
(* On top of it the request cache and the recordings: what is cached under *)
(* a key is what the key stands for, a request that is filtered once gets  *)
(* one model per key, and a recording has every mapping that was completed *)
(* during it.                                                              *)
(***************************************************************************)
EXTENDS ResourceMapping, FiniteSetTheorems, SequenceTheorems, TLAPS

StackInv == StackMirrorsCalls /\ NoNestedRepetition /\ OutermostTracked

-----------------------------------------------------------------------------
(* The calls that are running *)

LEMMA OccurrencesFinite ==
    ASSUME TypeOK, NEW y \in Types
    PROVE  /\ IsFiniteSet(Occurrences(y))
           /\ Cardinality(Occurrences(y)) \in Nat
           /\ Cardinality(Occurrences(y)) = 0 <=> Occurrences(y) = {}
<1>1. Len(frames) \in Nat
  BY DEF TypeOK
<1>2. IsFiniteSet(1 .. Len(frames))
  BY <1>1, FS_Interval
<1>3. IsFiniteSet(Occurrences(y))
  BY <1>2, FS_Subset DEF Occurrences, Depth
<1> QED
  BY <1>3, FS_CardinalityType, FS_EmptySet

(* Whatever leaves the calls and their mappings alone keeps the stack.     *)
LEMMA SameCalls ==
    ASSUME TypeOK, StackInv,
           Len(frames') = Len(frames),
           \A i \in 1 .. Len(frames) :
                /\ frames'[i].mapping = frames[i].mapping
                /\ frames'[i].track = frames[i].track,
           (frames' = <<>>) <=> (frames = <<>>),
           UNCHANGED stack
    PROVE  StackInv'
<1>1. \A y \in Types : Occurrences(y)' = Occurrences(y)
  BY DEF Occurrences, Depth
<1>2. StackMirrorsCalls'
  BY <1>1 DEF StackInv, StackMirrorsCalls, Depth, Idle, stack
<1>3. NoNestedRepetition'
  BY DEF StackInv, NoNestedRepetition, Depth
<1>4. OutermostTracked'
  <2>1. ASSUME NEW i \in 1 .. Len(frames)
        PROVE  frames'[i].track <=>
                \A j \in 1 .. i - 1 : TypeOf[frames'[j].mapping] # TypeOf[frames'[i].mapping]
    <3>1. \A j \in 1 .. i - 1 : j \in 1 .. Len(frames)
      BY DEF TypeOK
    <3>2. frames[i].track <=>
            \A j \in 1 .. i - 1 : TypeOf[frames[j].mapping] # TypeOf[frames[i].mapping]
      BY DEF StackInv, OutermostTracked, Depth
    <3> QED
      BY <3>1, <3>2
  <2> QED
    BY <2>1 DEF OutermostTracked, Depth
<1> QED
  BY <1>2, <1>3, <1>4 DEF StackInv

(* A call is added for a mapping that is not under way. *)
LEMMA PushCall ==
    ASSUME TypeOK, StackInv,
           NEW base \in Seq(Call), NEW f \in Call,
           Len(base) = Len(frames),
           \A i \in 1 .. Len(frames) :
                base[i].mapping = frames[i].mapping /\ base[i].track = frames[i].track,
           ~ Ongoing(f.mapping),
           f.track <=> occurrence[TypeOf[f.mapping]] = 0,
           frames' = Append(base, f),
           ongoing' = Append(ongoing, f.mapping),
           occurrence' = [occurrence EXCEPT ![TypeOf[f.mapping]] = @ + 1]
    PROVE  StackInv'
<1> DEFINE m == f.mapping
           n == Len(frames)
<1>1. /\ n \in Nat
      /\ Len(ongoing) = n
      /\ \A i \in 1 .. n : ongoing[i] = frames[i].mapping
  BY DEF TypeOK, StackInv, StackMirrorsCalls, Depth
<1>2. /\ Len(frames') = n + 1
      /\ \A i \in 1 .. n : /\ frames'[i].mapping = frames[i].mapping
                           /\ frames'[i].track = frames[i].track
      /\ frames'[n + 1] = f
  BY <1>1
<1>3. /\ Len(ongoing') = n + 1
      /\ \A i \in 1 .. n : ongoing'[i] = ongoing[i]
      /\ ongoing'[n + 1] = m
  <2>1. ongoing \in Seq(Mappings) /\ m \in Mappings
    BY DEF TypeOK, Call
  <2> QED
    BY <1>1, <2>1
<1>4. m \in Mappings /\ TypeOf[m] \in Types
  BY MappingAssumption DEF Call
<1>5. ASSUME NEW y \in Types
      PROVE  Occurrences(y)' = IF y = TypeOf[m] THEN Occurrences(y) \cup {n + 1}
                               ELSE Occurrences(y)
  BY <1>1, <1>2 DEF Occurrences, Depth
<1>6. ASSUME NEW y \in Types
      PROVE  occurrence'[y] = Cardinality(Occurrences(y)')
  <2>1. occurrence[y] = Cardinality(Occurrences(y))
    BY DEF StackInv, StackMirrorsCalls
  <2>2. CASE y = TypeOf[m]
    <3>1. n + 1 \notin Occurrences(y)
      BY <1>1 DEF Occurrences, Depth
    <3>2. Cardinality(Occurrences(y) \cup {n + 1}) = Cardinality(Occurrences(y)) + 1
      BY <3>1, OccurrencesFinite, FS_AddElement
    <3>3. occurrence'[y] = occurrence[y] + 1
      BY <2>2 DEF TypeOK
    <3> QED
      BY <2>1, <2>2, <1>5, <3>2, <3>3
  <2>3. CASE y # TypeOf[m]
    <3>1. occurrence'[y] = occurrence[y]
      BY <2>3 DEF TypeOK
    <3> QED
      BY <2>1, <2>3, <1>5, <3>1
  <2> QED
    BY <2>2, <2>3
<1>7. StackMirrorsCalls'
  <2>1. \A i \in 1 .. n + 1 : ongoing'[i] = frames'[i].mapping
    BY <1>1, <1>2, <1>3
  <2>2. frames' # <<>>
    BY <1>1, <1>2
  <2> QED
    BY <1>2, <1>3, <1>6, <2>1, <2>2 DEF StackMirrorsCalls, Depth, Idle
<1>8. NoNestedRepetition'
  <2>1. \A i \in 1 .. n : frames[i].mapping # m
    BY <1>1 DEF Ongoing
  <2>2. \A i, j \in 1 .. n : frames[i].mapping = frames[j].mapping => i = j
    BY DEF StackInv, NoNestedRepetition, Depth
  <2>3. \A i, j \in 1 .. n + 1 : frames'[i].mapping = frames'[j].mapping => i = j
    BY <1>1, <1>2, <2>1, <2>2
  <2> QED
    BY <1>2, <2>3 DEF NoNestedRepetition, Depth
<1>9. OutermostTracked'
  <2>1. ASSUME NEW i \in 1 .. n
        PROVE  frames'[i].track <=>
                \A j \in 1 .. i - 1 : TypeOf[frames'[j].mapping] # TypeOf[frames'[i].mapping]
    <3>1. \A j \in 1 .. i - 1 : j \in 1 .. n
      BY <1>1
    <3>2. frames[i].track <=>
            \A j \in 1 .. i - 1 : TypeOf[frames[j].mapping] # TypeOf[frames[i].mapping]
      BY DEF StackInv, OutermostTracked, Depth
    <3>3. frames'[i].mapping = frames[i].mapping /\ (frames'[i].track <=> frames[i].track)
      BY <1>2
    <3>4. \A j \in 1 .. i - 1 : frames'[j].mapping = frames[j].mapping
      BY <1>2, <3>1
    <3> QED
      BY <3>2, <3>3, <3>4
  <2>2. f.track <=> \A j \in 1 .. n : TypeOf[frames[j].mapping] # TypeOf[m]
    <3>1. occurrence[TypeOf[m]] = Cardinality(Occurrences(TypeOf[m]))
      BY <1>4 DEF StackInv, StackMirrorsCalls
    <3>2. occurrence[TypeOf[m]] = 0 <=> Occurrences(TypeOf[m]) = {}
      BY <1>4, <3>1, OccurrencesFinite
    <3>3. Occurrences(TypeOf[m]) = {} <=> \A j \in 1 .. n : TypeOf[frames[j].mapping] # TypeOf[m]
      BY DEF Occurrences, Depth
    <3> QED
      BY <3>2, <3>3
  <2>3. frames'[n + 1].track <=>
            \A j \in 1 .. n : TypeOf[frames'[j].mapping] # TypeOf[frames'[n + 1].mapping]
    <3>1. frames'[n + 1] = f
      BY <1>2
    <3>2. \A j \in 1 .. n : TypeOf[frames'[j].mapping] = TypeOf[frames[j].mapping]
      BY <1>2
    <3> QED
      BY <2>2, <3>1, <3>2
  <2>4. ASSUME NEW i \in 1 .. n + 1
        PROVE  frames'[i].track <=>
                \A j \in 1 .. i - 1 : TypeOf[frames'[j].mapping] # TypeOf[frames'[i].mapping]
    <3>1. CASE i \in 1 .. n
      BY <3>1, <2>1
    <3>2. CASE i = n + 1
      <4>1. i - 1 = n
        BY <1>1, <3>2
      <4> QED
        BY <3>2, <4>1, <2>3
    <3> QED
      BY <1>1, <3>1, <3>2
  <2> QED
    BY <1>2, <2>4 DEF OutermostTracked, Depth
<1> QED
  BY <1>7, <1>8, <1>9 DEF StackInv

(* The innermost call ends. *)
LEMMA PopCall ==
    ASSUME TypeOK, StackInv, ~ Idle, Pop
    PROVE  /\ StackInv'
           /\ frames' \in Seq(Call)
           /\ Len(frames') = Len(frames) - 1
           /\ \A i \in 1 .. Len(frames') : frames'[i] = frames[i]
           /\ ongoing' \in Seq(Mappings)
           /\ occurrence' \in [Types -> Nat]
           /\ target' \in 0 .. Len(records')
           /\ Len(records') = Len(records)
           /\ records' \in Seq(SUBSET [model : Nat, mapping : Mappings])
<1> DEFINE n == Len(frames)
           m == Top.mapping
<1>1. /\ n \in Nat \ {0}
      /\ Len(ongoing) = n
      /\ \A i \in 1 .. n : ongoing[i] = frames[i].mapping
      /\ frames \in Seq(Call) /\ ongoing \in Seq(Mappings)
  BY DEF TypeOK, StackInv, StackMirrorsCalls, Depth, Idle
<1>2. /\ frames' \in Seq(Call)
      /\ Len(frames') = n - 1
      /\ \A i \in 1 .. n - 1 : frames'[i] = frames[i]
  BY <1>1 DEF Pop, Depth
<1>3. /\ ongoing' \in Seq(Mappings)
      /\ Len(ongoing') = n - 1
      /\ \A i \in 1 .. n - 1 : ongoing'[i] = ongoing[i]
  BY <1>1 DEF Pop
<1>4. frames[n] \in Call /\ m = frames[n].mapping /\ m \in Mappings /\ TypeOf[m] \in Types
  <2>1. frames[n] \in Call /\ m = frames[n].mapping
    BY <1>1 DEF Top, Depth
  <2>2. m \in Mappings
    BY <2>1 DEF Call
  <2> QED
    BY <2>1, <2>2, MappingAssumption
<1>5. ASSUME NEW y \in Types
      PROVE  Occurrences(y)' = Occurrences(y) \ {n}
  BY <1>1, <1>2 DEF Occurrences, Depth
<1>6. ASSUME NEW y \in Types
      PROVE  /\ Occurrences(y) \ {n} = IF y = TypeOf[m] THEN Occurrences(y) \ {n} ELSE Occurrences(y)
             /\ n \in Occurrences(y) <=> y = TypeOf[m]
  BY <1>1, <1>4 DEF Occurrences, Depth
<1>7. occurrence' = [occurrence EXCEPT ![TypeOf[m]] = @ - 1]
  BY DEF Pop
<1>8. ASSUME NEW y \in Types
      PROVE  occurrence'[y] \in Nat /\ occurrence'[y] = Cardinality(Occurrences(y)')
  <2>1. occurrence[y] = Cardinality(Occurrences(y))
    BY DEF StackInv, StackMirrorsCalls
  <2>2. CASE y = TypeOf[m]
    <3>1. /\ Cardinality(Occurrences(y) \ {n}) = Cardinality(Occurrences(y)) - 1
          /\ IsFiniteSet(Occurrences(y) \ {n})
      BY <2>2, <1>6, OccurrencesFinite, FS_RemoveElement
    <3>2. Cardinality(Occurrences(y) \ {n}) \in Nat
      BY <3>1, FS_CardinalityType
    <3>3. occurrence'[y] = occurrence[y] - 1
      BY <2>2, <1>7 DEF TypeOK
    <3> QED
      BY <2>1, <1>5, <3>1, <3>2, <3>3
  <2>3. CASE y # TypeOf[m]
    <3>1. occurrence'[y] = occurrence[y]
      BY <2>3, <1>7 DEF TypeOK
    <3>2. occurrence[y] \in Nat
      BY DEF TypeOK
    <3> QED
      BY <2>1, <2>3, <1>5, <1>6, <3>1, <3>2
  <2> QED
    BY <2>2, <2>3
<1>9. occurrence' \in [Types -> Nat]
  BY <1>7, <1>8 DEF TypeOK
<1>10. /\ Len(records') = Len(records)
       /\ records' \in Seq(SUBSET [model : Nat, mapping : Mappings])
  <2>1. [model |-> Top.model, mapping |-> Top.mapping] \in [model : Nat, mapping : Mappings]
    BY <1>4 DEF Top, Depth, Call
  <2>2. CASE target = 0
    BY <2>2 DEF Pop, TypeOK
  <2>3. CASE target # 0
    <3>1. target \in 1 .. Len(records)
      BY <2>3 DEF TypeOK
    <3>2. records[target] \cup {[model |-> Top.model, mapping |-> Top.mapping]}
            \in SUBSET [model : Nat, mapping : Mappings]
      BY <2>1, <3>1 DEF TypeOK
    <3> QED
      BY <2>3, <3>1, <3>2 DEF Pop, TypeOK
  <2> QED
    BY <2>2, <2>3
<1>11. target' \in 0 .. Len(records') /\ (frames' = <<>> => target' = 0)
  <2>1. frames' = <<>> => n = 1
    BY <1>1, <1>2
  <2>2. target' = (IF n = 1 THEN 0 ELSE target)
    BY DEF Pop, Depth
  <2>3. target \in 0 .. Len(records) /\ Len(records) \in Nat
    BY DEF TypeOK
  <2> QED
    BY <1>10, <2>1, <2>2, <2>3
<1>12. StackMirrorsCalls'
  <2>1. ASSUME NEW i \in 1 .. n - 1
        PROVE  ongoing'[i] = frames'[i].mapping
    <3>1. i \in 1 .. n
      BY <1>1
    <3> QED
      BY <1>1, <1>2, <1>3, <3>1
  <2>2. Len(ongoing') = Len(frames') /\ \A i \in 1 .. Len(frames') : ongoing'[i] = frames'[i].mapping
    BY <1>2, <1>3, <2>1
  <2>3. \A y \in Types : occurrence'[y] = Cardinality(Occurrences(y)')
    BY <1>8
  <2>4. frames' = <<>> => target' = 0
    BY <1>11
  <2> QED
    BY <2>2, <2>3, <2>4 DEF StackMirrorsCalls, Depth, Idle
<1>13. NoNestedRepetition'
  <2>1. \A i, j \in 1 .. n : frames[i].mapping = frames[j].mapping => i = j
    BY DEF StackInv, NoNestedRepetition, Depth
  <2>2. \A i \in 1 .. n - 1 : i \in 1 .. n /\ frames'[i] = frames[i]
    BY <1>1, <1>2
  <2>3. \A i, j \in 1 .. n - 1 : frames'[i].mapping = frames'[j].mapping => i = j
    BY <2>1, <2>2
  <2> QED
    BY <1>2, <2>3 DEF NoNestedRepetition, Depth
<1>14. OutermostTracked'
  <2>1. ASSUME NEW i \in 1 .. n - 1
        PROVE  frames'[i].track <=>
                \A j \in 1 .. i - 1 : TypeOf[frames'[j].mapping] # TypeOf[frames'[i].mapping]
    <3>1. i \in 1 .. n /\ \A j \in 1 .. i - 1 : j \in 1 .. n - 1
      BY <1>1
    <3>2. frames[i].track <=>
            \A j \in 1 .. i - 1 : TypeOf[frames[j].mapping] # TypeOf[frames[i].mapping]
      BY <3>1 DEF StackInv, OutermostTracked, Depth
    <3> QED
      BY <1>2, <3>1, <3>2
  <2> QED
    BY <1>2, <2>1 DEF OutermostTracked, Depth
<1> QED
  BY <1>2, <1>3, <1>9, <1>10, <1>11, <1>12, <1>13, <1>14 DEF StackInv

-----------------------------------------------------------------------------
(* The calls as each kind of step leaves them *)

LEMMA TopIsCall ==
    ASSUME TypeOK, ~ Idle
    PROVE  /\ Depth \in 1 .. Len(frames)
           /\ Top \in Call /\ Top = frames[Depth]
           /\ TypeOf[Top.mapping] \in Types
<1>1. Depth \in 1 .. Len(frames)
  BY DEF TypeOK, Idle, Depth
<1>2. Top \in Call
  BY <1>1 DEF TypeOK, Top
<1>3. Top.mapping \in Mappings
  BY <1>2 DEF Call
<1> QED
  BY <1>1, <1>2, <1>3, MappingAssumption DEF Top

LEMMA ContentIsSequence ==
    ASSUME TypeOK, NEW m \in Mappings, NEW p \in Phases
    PROVE  content[m][p] \in Seq(Adaptations)
<1>1. content \in [Mappings -> [Phases -> Seq(Adaptations)]]
  BY MappingAssumption DEF TypeOK
<1> QED
  BY <1>1

(* A step that leaves the calls alone and forgets no model. *)
LEMMA CallsKept ==
    ASSUME TypeOK, StackInv, UNCHANGED <<frames, stack>>,
           models' \in Seq(Model), Len(models) <= Len(models')
    PROVE  StackInv' /\ CallsHaveModels'
<1>1. StackInv'
  BY SameCalls
<1>2. CallsHaveModels
  BY DEF TypeOK
<1>3. Len(models) \in Nat /\ Len(models') \in Nat
  BY DEF TypeOK
<1> QED
  BY <1>1, <1>2, <1>3 DEF CallsHaveModels, Depth

(* A step within the innermost call. *)
LEMMA TopChanges ==
    ASSUME TypeOK, StackInv, ~ Idle, UNCHANGED stack,
           models' \in Seq(Model), Len(models) <= Len(models'),
           NEW f \in Call,
           f.mapping = Top.mapping,
           f.track = Top.track,
           f.phase # "create" => f.model \in 1 .. Len(models') /\ f.result \in 1 .. Len(models'),
           frames' = [frames EXCEPT ![Depth] = f]
    PROVE  StackInv' /\ frames' \in Seq(Call) /\ CallsHaveModels'
<1>1. Depth \in 1 .. Len(frames) /\ Top = frames[Depth] /\ frames \in Seq(Call)
  BY TopIsCall DEF TypeOK
<1>2. frames' \in Seq(Call) /\ Len(frames') = Len(frames)
  BY <1>1
<1>3. \A i \in 1 .. Len(frames) : frames'[i] = IF i = Depth THEN f ELSE frames[i]
  BY <1>1
<1>4. StackInv'
  <2>1. \A i \in 1 .. Len(frames) : /\ frames'[i].mapping = frames[i].mapping
                                    /\ frames'[i].track = frames[i].track
    BY <1>1, <1>3
  <2>2. (frames' = <<>>) <=> (frames = <<>>)
    BY <1>1, <1>2
  <2> QED
    BY <1>2, <2>1, <2>2, SameCalls
<1>5. CallsHaveModels'
  <2>1. CallsHaveModels
    BY DEF TypeOK
  <2>2. Len(models) \in Nat /\ Len(models') \in Nat
    BY DEF TypeOK
  <2>3. ASSUME NEW i \in 1 .. Len(frames), frames'[i].phase # "create"
        PROVE  frames'[i].model \in 1 .. Len(models') /\ frames'[i].result \in 1 .. Len(models')
    <3>1. CASE i = Depth
      BY <1>3, <2>3, <3>1
    <3>2. CASE i # Depth
      <4>1. frames'[i] = frames[i]
        BY <1>3, <3>2
      <4>2. frames[i].model \in 1 .. Len(models) /\ frames[i].result \in 1 .. Len(models)
        BY <2>1, <2>3, <4>1 DEF CallsHaveModels, Depth
      <4> QED
        BY <2>2, <4>1, <4>2
    <3> QED
      BY <3>1, <3>2
  <2> QED
    BY <1>2, <2>3 DEF CallsHaveModels, Depth
<1> QED
  BY <1>2, <1>4, <1>5

(* A question is taken off what is still to be asked. *)
LEMMA AskedKeeps ==
    ASSUME TypeOK, StackInv, NEW a \in Adaptations, Asks(a), Asked,
           UNCHANGED <<stack, models>>
    PROVE  /\ StackInv' /\ CallsHaveModels'
           /\ frames' \in Seq(Call)
           /\ asked' \in 0 .. MaxAsks
<1>1. asked' \in 0 .. MaxAsks
  BY MappingAssumption DEF TypeOK, Asks, Asked
<1>2. CASE Idle
  <2>1. UNCHANGED frames
    BY <1>2 DEF Asked
  <2> QED
    BY <1>1, <2>1, CallsKept DEF TypeOK
<1>3. CASE ~ Idle
  <2> DEFINE f == [Top EXCEPT !.rest = Tail(@)]
  <2>1. Top \in Call /\ Top = frames[Depth] /\ Depth \in 1 .. Len(frames) /\ Top.rest # <<>>
    BY <1>3, TopIsCall DEF Asks
  <2>2. f \in Call
    <3>1. Top.rest \in Seq(Adaptations)
      BY <2>1 DEF Call
    <3>2. Tail(Top.rest) \in Seq(Adaptations)
      BY <2>1, <3>1
    <3> QED
      BY <2>1, <3>2 DEF Call
  <2>3. f.mapping = Top.mapping /\ f.track = Top.track /\ f.phase = Top.phase
        /\ f.model = Top.model /\ f.result = Top.result
    BY <2>1 DEF Call
  <2>4. f.phase # "create" => f.model \in 1 .. Len(models) /\ f.result \in 1 .. Len(models)
    BY <2>1, <2>3 DEF TypeOK, CallsHaveModels
  <2>5. frames' = [frames EXCEPT ![Depth] = f]
    BY <1>3, <2>1 DEF Asked
  <2>6. UNCHANGED stack /\ models' = models
    BY DEF stack
  <2>7. models' \in Seq(Model) /\ Len(models) <= Len(models')
    BY <2>6 DEF TypeOK
  <2>8. f.phase # "create" => f.model \in 1 .. Len(models') /\ f.result \in 1 .. Len(models')
    BY <2>4, <2>6
  <2>9. f.mapping = Top.mapping /\ f.track = Top.track
    BY <2>3
  <2> HIDE DEF f
  <2>10. StackInv' /\ frames' \in Seq(Call) /\ CallsHaveModels'
    BY <1>3, <2>2, <2>5, <2>6, <2>7, <2>8, <2>9, TopChanges
  <2> QED
    BY <1>1, <2>10
<1> QED
  BY <1>2, <1>3

-----------------------------------------------------------------------------
(* Every step keeps the invariant *)

LEMMA InitInv == Init => IInv
<1> SUFFICES ASSUME Init PROVE IInv
  OBVIOUS
<1>1. /\ frames = <<>> /\ Len(frames) = 0 /\ Depth = 0 /\ Idle
      /\ \A y \in Types : occurrence[y] = 0
  BY DEF Init, Depth, Idle
<1>2. \A y \in Types : Occurrences(y) = {}
  BY <1>1 DEF Occurrences
<1>3. StackMirrorsCalls
  BY <1>1, <1>2, FS_EmptySet DEF Init, StackMirrorsCalls
<1>4. CallsHaveModels /\ NoNestedRepetition /\ OutermostTracked
  BY <1>1 DEF CallsHaveModels, NoNestedRepetition, OutermostTracked
<1>5. /\ frames \in Seq(Call) /\ ongoing \in Seq(Mappings) /\ models \in Seq(Model)
      /\ records \in Seq(SUBSET [model : Nat, mapping : Mappings]) /\ Len(records) = 0
      /\ answers \in Seq([asked : Adaptations, model : Nat])
  BY DEF Init
<1>6. /\ occurrence \in [Types -> Nat] /\ subsequent \in [Types -> Nat]
      /\ cache \in [Adaptations -> {Unknown} \cup Nat]
  BY DEF Init
<1>7. /\ content \in Contents /\ raised \in BOOLEAN /\ caching \in BOOLEAN
      /\ recording = 0 /\ target = 0 /\ asked = 0 /\ filters = 0
  BY DEF Init
<1>8. TypeOK
  BY <1>4, <1>5, <1>6, <1>7, MappingAssumption DEF TypeOK
<1> QED
  BY <1>3, <1>4, <1>8 DEF IInv

(* The cache answers, or the answer is known without a mapping.            *)
LEMMA AnswersKeep ==
    ASSUME TypeOK, StackInv, NEW a \in Adaptations,
           Hit(a) \/ FindNothing(a) \/ RefuseAmbiguous(a) \/ YieldOngoing(a) \/ RefuseCycle(a)
    PROVE  TypeOK' /\ StackInv'
<1>1. Asks(a) /\ Asked /\ UNCHANGED <<stack, models>>
  BY DEF Hit, FindNothing, RefuseAmbiguous, YieldOngoing, RefuseCycle, Misses
<1>2. /\ StackInv' /\ CallsHaveModels'
      /\ frames' \in Seq(Call)
      /\ asked' \in 0 .. MaxAsks
  BY <1>1, AskedKeeps
<1>3. UNCHANGED <<content, stack, recording, records, models, scope, subsequent>>
  BY DEF Hit, FindNothing, RefuseAmbiguous, YieldOngoing, RefuseCycle
<1>4. raised' \in BOOLEAN
  BY DEF Hit, FindNothing, RefuseAmbiguous, YieldOngoing, RefuseCycle, TypeOK
<1>5. cache' \in [Adaptations -> {Unknown} \cup Nat]
  <2>1. ASSUME NEW i \in 1 .. Depth
        PROVE  frames[i].model \in Nat
    <3>1. frames[i] \in Call
      BY DEF TypeOK, Depth
    <3> QED
      BY <3>1 DEF Call
  <2>2. ASSUME NEW v \in Nat, Put(a, v)
        PROVE  cache' \in [Adaptations -> {Unknown} \cup Nat]
    BY <2>2 DEF Put, TypeOK
  <2>3. CASE FindNothing(a)
    BY <2>2, <2>3 DEF FindNothing, Nothing
  <2>4. CASE YieldOngoing(a)
    BY <2>1, <2>2, <2>4 DEF YieldOngoing
  <2>5. CASE UNCHANGED cache
    BY <2>5 DEF TypeOK
  <2> QED
    BY <2>3, <2>4, <2>5 DEF Hit, RefuseAmbiguous, RefuseCycle
<1>6. answers' \in Seq([asked : Adaptations, model : Nat])
  <2>1. ASSUME NEW v \in Nat, Answered(Idle, a, v)
        PROVE  answers' \in Seq([asked : Adaptations, model : Nat])
    <3> DEFINE Answer == [asked : Adaptations, model : Nat]
               answer == [asked |-> a, model |-> v]
    <3>1. answer \in Answer
      OBVIOUS
    <3>2. answers \in Seq(Answer)
      BY DEF TypeOK
    <3>3. answers' = Append(answers, answer) \/ answers' = answers
      BY <2>1 DEF Answered
    <3> HIDE DEF Answer, answer
    <3>4. answers' \in Seq(Answer)
      BY <3>1, <3>2, <3>3
    <3> QED
      BY <3>4 DEF Answer
  <2>2. CASE Hit(a)
    <3>1. cache[a] \in Nat
      BY <2>2 DEF Hit, TypeOK
    <3> QED
      BY <2>1, <2>2, <3>1 DEF Hit
  <2>3. CASE FindNothing(a)
    BY <2>1, <2>3 DEF FindNothing, Nothing
  <2>4. CASE UNCHANGED answers
    BY <2>4 DEF TypeOK
  <2> QED
    BY <2>2, <2>3, <2>4 DEF RefuseAmbiguous, YieldOngoing, RefuseCycle
<1> QED
  BY <1>2, <1>3, <1>4, <1>5, <1>6 DEF TypeOK, stack, scope

LEMMA BeginKeeps ==
    ASSUME TypeOK, StackInv, NEW a \in Adaptations, Begin(a)
    PROVE  TypeOK' /\ StackInv'
<1> DEFINE m == MappingOf[a]
           base == IF Idle THEN frames ELSE [frames EXCEPT ![Depth].rest = Tail(@)]
           f == Frame(a)
<1>1. /\ m \in Mappings /\ TypeOf[m] \in Types /\ ~ Ongoing(m)
      /\ frames' = Append(base, f)
      /\ ongoing' = Append(ongoing, m)
      /\ occurrence' = [occurrence EXCEPT ![TypeOf[m]] = @ + 1]
  BY MappingAssumption DEF Begin
<1>2. f \in Call /\ f.mapping = m /\ (f.track <=> occurrence[TypeOf[m]] = 0) /\ f.phase = "create"
  <2>1. "create" \in Phases
    BY DEF Phases
  <2>2. content[m]["create"] \in Seq(Adaptations)
    BY <1>1, <2>1, ContentIsSequence
  <2> QED
    BY <1>1, <2>1, <2>2 DEF Frame, Call, Nothing
<1>3. /\ base \in Seq(Call)
      /\ Len(base) = Len(frames)
      /\ \A i \in 1 .. Len(frames) : /\ base[i].mapping = frames[i].mapping
                                      /\ base[i].track = frames[i].track
                                      /\ base[i].phase = frames[i].phase
                                      /\ base[i].model = frames[i].model
                                      /\ base[i].result = frames[i].result
  <2>1. CASE Idle
    BY <2>1 DEF TypeOK
  <2>2. CASE ~ Idle
    <3> DEFINE g == [Top EXCEPT !.rest = Tail(@)]
    <3>1. Top \in Call /\ Top = frames[Depth] /\ Depth \in 1 .. Len(frames) /\ Top.rest # <<>>
      BY <2>2, TopIsCall DEF Begin, Misses, Asks
    <3>2. Top.rest \in Seq(Adaptations)
      BY <3>1 DEF Call
    <3>3. Tail(Top.rest) \in Seq(Adaptations)
      BY <3>1, <3>2
    <3>4. g \in Call
      BY <3>1, <3>3 DEF Call
    <3>5. g.mapping = Top.mapping /\ g.track = Top.track /\ g.phase = Top.phase
          /\ g.model = Top.model /\ g.result = Top.result
      BY <3>1 DEF Call
    <3>6. base = [frames EXCEPT ![Depth] = g]
      BY <2>2, <3>1
    <3> HIDE DEF g, base
    <3>7. frames \in Seq(Call)
      BY DEF TypeOK
    <3> QED
      BY <3>1, <3>4, <3>5, <3>6, <3>7
  <2> QED
    BY <2>1, <2>2
<1> HIDE DEF base, f, m
<1>4. StackInv'
  BY <1>1, <1>2, <1>3, PushCall
<1>5. frames' \in Seq(Call) /\ ongoing' \in Seq(Mappings) /\ occurrence' \in [Types -> Nat]
  BY <1>1, <1>2, <1>3 DEF TypeOK
<1>6. CallsHaveModels'
  <2>1. models' = models /\ CallsHaveModels /\ Len(frames) \in Nat
    BY DEF Begin, TypeOK
  <2>2. Len(frames') = Len(frames) + 1
    BY <1>1, <1>3, <2>1
  <2>3. ASSUME NEW i \in 1 .. Len(frames) + 1, frames'[i].phase # "create"
        PROVE  frames'[i].model \in 1 .. Len(models) /\ frames'[i].result \in 1 .. Len(models)
    <3>1. CASE i = Len(frames) + 1
      <4>1. frames'[i] = f
        BY <1>1, <1>3, <3>1
      <4> QED
        BY <1>2, <2>3, <4>1
    <3>2. CASE i \in 1 .. Len(frames)
      <4>1. frames'[i] = base[i]
        BY <1>1, <1>2, <1>3, <3>2
      <4> QED
        BY <1>3, <2>1, <2>3, <3>2, <4>1 DEF CallsHaveModels, Depth
    <3> QED
      BY <2>1, <3>1, <3>2
  <2> QED
    BY <2>1, <2>2, <2>3 DEF CallsHaveModels, Depth
<1>7. asked' \in 0 .. MaxAsks /\ target' \in 0 .. Len(records)
  BY MappingAssumption DEF Begin, Misses, Asks, TypeOK
<1> QED
  BY <1>4, <1>5, <1>6, <1>7 DEF TypeOK, Begin, scope

LEMMA CreateKeeps ==
    ASSUME TypeOK, StackInv, Create
    PROVE  TypeOK' /\ StackInv'
<1> DEFINE model == [mapping |-> Top.mapping, state |-> "ongoing", raw |-> Nothing,
                     parent |-> IF Depth = 1 THEN {} ELSE {frames[Depth - 1].mapping},
                     during |-> recording]
           f == [Enter("fields", Top) EXCEPT !.model = Len(models'), !.result = Len(models')]
<1>1. /\ ~ Idle /\ UNCHANGED stack
      /\ Top \in Call /\ Top = frames[Depth] /\ Depth \in 1 .. Len(frames)
  BY TopIsCall DEF Create, Done
<1>2. Top.mapping \in Mappings
  BY <1>1 DEF Call
<1>3. model \in Model
  <2>1. Depth # 1 => frames[Depth - 1].mapping \in Mappings
    <3>1. Depth # 1 => frames[Depth - 1] \in Call
      BY <1>1 DEF TypeOK
    <3> QED
      BY <3>1 DEF Call
  <2>2. recording \in Nat
    BY DEF TypeOK
  <2> QED
    BY <1>2, <2>1, <2>2 DEF Model, Nothing
<1>4. models' = Append(models, model) /\ frames' = [frames EXCEPT ![Depth] = f]
  BY <1>1 DEF Create
<1> HIDE DEF model
<1>5. models' \in Seq(Model) /\ Len(models') = Len(models) + 1 /\ Len(models) \in Nat
  BY <1>3, <1>4 DEF TypeOK
<1>6. f \in Call /\ f.mapping = Top.mapping /\ f.track = Top.track
      /\ f.model = Len(models') /\ f.result = Len(models')
  <2>1. "fields" \in Phases
    BY DEF Phases
  <2>2. content[Top.mapping]["fields"] \in Seq(Adaptations)
    BY <1>2, <2>1, ContentIsSequence
  <2> DEFINE e == Enter("fields", Top)
  <2>3. e \in Call /\ e.mapping = Top.mapping /\ e.track = Top.track
    BY <1>1, <2>1, <2>2 DEF Call, Enter
  <2> HIDE DEF e
  <2>4. Len(models') \in Nat
    BY <1>5
  <2>5. f = [e EXCEPT !.model = Len(models'), !.result = Len(models')]
    BY DEF e
  <2> QED
    BY <2>3, <2>4, <2>5 DEF Call
<1> HIDE DEF f
<1>7. Len(models) <= Len(models') /\ f.model \in 1 .. Len(models') /\ f.result \in 1 .. Len(models')
  BY <1>5, <1>6
<1>8. StackInv' /\ frames' \in Seq(Call) /\ CallsHaveModels'
  BY <1>1, <1>4, <1>5, <1>6, <1>7, TopChanges
<1> QED
  BY <1>5, <1>8 DEF Create, TypeOK, stack, scope

LEMMA EndFieldsKeeps ==
    ASSUME TypeOK, StackInv, EndFields
    PROVE  TypeOK' /\ StackInv'
<1> DEFINE f == Enter("after", Top)
<1>1. /\ ~ Idle /\ UNCHANGED stack /\ models' = models /\ Top.phase = "fields"
      /\ Top \in Call /\ Top = frames[Depth] /\ Depth \in 1 .. Len(frames)
  BY TopIsCall DEF EndFields, Done
<1>2. frames' = [frames EXCEPT ![Depth] = f]
  BY <1>1 DEF EndFields
<1>3. f \in Call /\ f.mapping = Top.mapping /\ f.track = Top.track
      /\ f.model = Top.model /\ f.result = Top.result
  <2>1. "after" \in Phases /\ Top.mapping \in Mappings
    BY <1>1 DEF Phases, Call
  <2>2. content[Top.mapping]["after"] \in Seq(Adaptations)
    BY <2>1, ContentIsSequence
  <2> QED
    BY <1>1, <2>1, <2>2 DEF Call, Enter
<1>4. f.model \in 1 .. Len(models') /\ f.result \in 1 .. Len(models')
  BY <1>1, <1>3 DEF TypeOK, CallsHaveModels
<1>5. models' \in Seq(Model) /\ Len(models) <= Len(models')
  BY <1>1 DEF TypeOK
<1> HIDE DEF f
<1>6. StackInv' /\ frames' \in Seq(Call) /\ CallsHaveModels'
  BY <1>1, <1>2, <1>3, <1>4, <1>5, TopChanges
<1> QED
  BY <1>5, <1>6 DEF EndFields, TypeOK, stack, scope

LEMMA PostProcessKeeps ==
    ASSUME TypeOK, StackInv, PostProcess
    PROVE  TypeOK' /\ StackInv'
<1> DEFINE y == TypeOf[Top.mapping]
           e == Enter("init", Top)
           retired == [models EXCEPT ![Top.model].state = "replaced"]
           model == [models[Top.model] EXCEPT !.raw = Top.model]
<1>1. /\ ~ Idle /\ UNCHANGED stack /\ Top.phase = "after"
      /\ Top \in Call /\ Top = frames[Depth] /\ Depth \in 1 .. Len(frames)
      /\ TypeOf[Top.mapping] \in Types
  BY TopIsCall DEF PostProcess, Done
<1>2. e \in Call /\ e.mapping = Top.mapping /\ e.track = Top.track
      /\ e.model = Top.model /\ e.result = Top.result
  <2>1. "init" \in Phases /\ Top.mapping \in Mappings
    BY <1>1 DEF Phases, Call
  <2>2. content[Top.mapping]["init"] \in Seq(Adaptations)
    BY <2>1, ContentIsSequence
  <2> QED
    BY <1>1, <2>1, <2>2 DEF Call, Enter
<1>3. Top.model \in 1 .. Len(models) /\ Top.result \in 1 .. Len(models)
  BY <1>1 DEF TypeOK, CallsHaveModels
<1>4. models \in Seq(Model) /\ models[Top.model] \in Model /\ Len(models) \in Nat
  BY <1>3 DEF TypeOK
<1>5. subsequent' \in [Types -> Nat]
  <2>1. subsequent' = [subsequent EXCEPT ![y] = @ + 1]
    BY DEF PostProcess
  <2> QED
    BY <1>1, <2>1 DEF TypeOK
<1>6. CASE y \in Replacing
  <2>1. retired \in Seq(Model) /\ Len(retired) = Len(models)
    <3>1. [models[Top.model] EXCEPT !.state = "replaced"] \in Model
      BY <1>4 DEF Model
    <3> QED
      BY <1>3, <1>4, <3>1
  <2>2. model \in Model
    <3>1. Top.model \in Nat
      BY <1>3
    <3> QED
      BY <1>4, <3>1 DEF Model
  <2>3. models' = Append(retired, model)
    BY <1>6 DEF PostProcess
  <2> HIDE DEF retired, model
  <2>4. models' \in Seq(Model) /\ Len(models') = Len(models) + 1
    BY <1>4, <2>1, <2>2, <2>3
  <2> DEFINE f == [e EXCEPT !.result = Len(models')]
  <2>5. frames' = [frames EXCEPT ![Depth] = f]
    BY <1>1, <1>6 DEF PostProcess
  <2> HIDE DEF e
  <2>6. f \in Call /\ f.mapping = Top.mapping /\ f.track = Top.track
        /\ f.model = Top.model /\ f.result = Len(models')
    <3>1. Len(models') \in Nat
      BY <1>4, <2>4
    <3> QED
      BY <1>2, <3>1 DEF Call
  <2> HIDE DEF f
  <2>7. f.model \in 1 .. Len(models') /\ f.result \in 1 .. Len(models')
    <3>1. Top.model \in 1 .. Len(models) /\ Len(models) \in Nat
      BY <1>3, <1>4
    <3> QED
      BY <2>4, <2>6, <3>1
  <2>8. Len(models) <= Len(models')
    BY <1>4, <2>4
  <2>9. StackInv' /\ frames' \in Seq(Call) /\ CallsHaveModels'
    BY <1>1, <2>4, <2>5, <2>6, <2>7, <2>8, TopChanges
  <2> QED
    BY <1>5, <2>4, <2>9 DEF PostProcess, TypeOK, stack, scope
<1>7. CASE y \notin Replacing
  <2>1. models' = models /\ frames' = [frames EXCEPT ![Depth] = e]
    BY <1>1, <1>7 DEF PostProcess
  <2>2. models' \in Seq(Model) /\ Len(models) <= Len(models')
    BY <1>4, <2>1
  <2>3. e.model \in 1 .. Len(models') /\ e.result \in 1 .. Len(models')
    BY <1>2, <1>3, <2>1
  <2> HIDE DEF e
  <2>4. StackInv' /\ frames' \in Seq(Call) /\ CallsHaveModels'
    BY <1>1, <1>2, <2>1, <2>2, <2>3, TopChanges
  <2> QED
    BY <1>5, <2>2, <2>4 DEF PostProcess, TypeOK, stack, scope
<1> QED
  BY <1>6, <1>7

(* A call that ends, with its model or with an exception. *)
LEMMA LeavingKeeps ==
    ASSUME TypeOK, StackInv, ~ Idle, Pop,
           models' \in Seq(Model), Len(models') = Len(models)
    PROVE  /\ StackInv' /\ CallsHaveModels'
           /\ frames' \in Seq(Call)
           /\ ongoing' \in Seq(Mappings)
           /\ occurrence' \in [Types -> Nat]
           /\ target' \in 0 .. Len(records')
           /\ Len(records') = Len(records)
           /\ records' \in Seq(SUBSET [model : Nat, mapping : Mappings])
<1>1. /\ Len(frames) \in Nat
      /\ Len(frames') = Len(frames) - 1
      /\ \A i \in 1 .. Len(frames') : frames'[i] = frames[i]
  BY PopCall DEF TypeOK
<1>2. \A i \in 1 .. Len(frames') : i \in 1 .. Len(frames)
  BY <1>1
<1>3. CallsHaveModels'
  BY <1>1, <1>2 DEF TypeOK, CallsHaveModels, Depth
<1> QED
  BY <1>3, PopCall

LEMMA FinishKeeps ==
    ASSUME TypeOK, StackInv, Finish
    PROVE  TypeOK' /\ StackInv'
<1> DEFINE Answer == [asked : Adaptations, model : Nat]
           answer == [asked |-> Top.asked, model |-> Top.result]
           finished == [models[Top.result] EXCEPT !.state = "result"]
<1>1. /\ ~ Idle /\ Pop /\ Top.phase = "init"
      /\ Top \in Call /\ Top = frames[Depth] /\ Depth \in 1 .. Len(frames)
  BY TopIsCall DEF Finish, Done
<1>2. Top.result \in 1 .. Len(models) /\ Top.asked \in Adaptations /\ Top.result \in Nat
  <2>1. Top.result \in 1 .. Len(models)
    BY <1>1 DEF TypeOK, CallsHaveModels
  <2> QED
    BY <1>1, <2>1 DEF Call
<1>3. models' \in Seq(Model) /\ Len(models') = Len(models)
  <2>1. models \in Seq(Model) /\ models[Top.result] \in Model
    BY <1>2 DEF TypeOK
  <2>2. finished \in Model
    BY <2>1 DEF Model
  <2>3. models' = [models EXCEPT ![Top.result] = finished]
    BY DEF Finish
  <2> HIDE DEF finished
  <2> QED
    BY <1>2, <2>1, <2>2, <2>3
<1>4. cache' \in [Adaptations -> {Unknown} \cup Nat]
  BY <1>2 DEF Finish, Put, TypeOK
<1>5. answers' \in Seq(Answer)
  <2>1. answer \in Answer
    BY <1>2
  <2>2. answers \in Seq(Answer)
    BY DEF TypeOK
  <2>3. answers' = Append(answers, answer) \/ answers' = answers
    BY DEF Finish, Answered
  <2> HIDE DEF answer, Answer
  <2> QED
    BY <2>1, <2>2, <2>3
<1> QED
  BY <1>1, <1>3, <1>4, <1>5, LeavingKeeps DEF Finish, TypeOK, scope

LEMMA UnwindKeeps ==
    ASSUME TypeOK, StackInv, Unwind
    PROVE  TypeOK' /\ StackInv'
<1> DEFINE failed(i) == IF i \in {Top.model, Top.result} THEN [models[i] EXCEPT !.state = "failed"]
                        ELSE models[i]
<1>1. ~ Idle /\ Pop
  BY DEF Unwind
<1>2. models \in Seq(Model) /\ DOMAIN models = 1 .. Len(models) /\ Len(models) \in Nat
  BY DEF TypeOK
<1>3. ASSUME NEW i \in 1 .. Len(models)
      PROVE  failed(i) \in Model
  <2>1. models[i] \in Model
    BY <1>2
  <2>2. [models[i] EXCEPT !.state = "failed"] \in Model
    BY <2>1 DEF Model
  <2> QED
    BY <2>1, <2>2
<1>4. models' = [i \in 1 .. Len(models) |-> failed(i)]
  BY <1>2 DEF Unwind
<1> HIDE DEF failed
<1>5. models' \in Seq(Model) /\ Len(models') = Len(models)
  BY <1>2, <1>3, <1>4
<1> QED
  BY <1>1, <1>5, LeavingKeeps DEF Unwind, TypeOK, scope

(* Exceptions that are thrown or caught, and the request around the calls. *)
LEMMA SurroundingsKeep ==
    ASSUME TypeOK, StackInv,
           Throw \/ Catch \/ EnterFilter \/ LeaveFilter \/ BeginRecording \/ EndRecording
    PROVE  TypeOK' /\ StackInv'
<1>1. UNCHANGED <<frames, stack>> /\ models' = models
  BY DEF Throw, Catch, EnterFilter, LeaveFilter, BeginRecording, EndRecording
<1>2. models' \in Seq(Model) /\ Len(models) <= Len(models')
  BY <1>1 DEF TypeOK
<1>3. StackInv' /\ CallsHaveModels'
  BY <1>1, <1>2, CallsKept
<1>4. CASE Throw
  BY <1>1, <1>3, <1>4 DEF Throw, TypeOK, stack, scope
<1>5. CASE Catch
  BY <1>1, <1>3, <1>5 DEF Catch, TypeOK, stack, scope
<1>6. CASE EnterFilter
  <2>1. filters' \in 0 .. MaxFilters
    BY <1>6, MappingAssumption DEF EnterFilter, TypeOK
  <2>2. answers' \in Seq([asked : Adaptations, model : Nat])
    BY <1>6 DEF EnterFilter, TypeOK
  <2> QED
    BY <1>1, <1>3, <1>6, <2>1, <2>2 DEF EnterFilter, TypeOK, stack
<1>7. CASE LeaveFilter
  <2>1. filters' \in 0 .. MaxFilters
    BY <1>7, MappingAssumption DEF LeaveFilter, TypeOK
  <2>2. answers' \in Seq([asked : Adaptations, model : Nat])
    BY <1>7 DEF LeaveFilter, TypeOK
  <2> QED
    BY <1>1, <1>3, <1>7, <2>1, <2>2 DEF LeaveFilter, TypeOK, stack
<1>8. CASE BeginRecording
  <2> DEFINE Records == SUBSET [model : Nat, mapping : Mappings]
  <2>1. {} \in Records /\ records \in Seq(Records) /\ records' = Append(records, {})
    BY <1>8 DEF BeginRecording, TypeOK
  <2> HIDE DEF Records
  <2>2. records' \in Seq(Records) /\ Len(records') = Len(records) + 1 /\ Len(records) \in Nat
    BY <2>1
  <2>3. recording' \in 0 .. Len(records') /\ target' \in 0 .. Len(records')
    BY <1>1, <1>8, <2>2 DEF BeginRecording, TypeOK, stack
  <2> QED
    BY <1>1, <1>3, <1>8, <2>2, <2>3 DEF BeginRecording, TypeOK, stack, scope, Records
<1>9. CASE EndRecording
  BY <1>1, <1>3, <1>9 DEF EndRecording, TypeOK, stack, scope
<1> QED
  BY <1>4, <1>5, <1>6, <1>7, <1>8, <1>9

LEMMA StutterKeeps ==
    ASSUME TypeOK, StackInv, UNCHANGED vars
    PROVE  TypeOK' /\ StackInv'
<1>1. StackInv' /\ CallsHaveModels'
  BY CallsKept DEF vars, TypeOK
<1> QED
  BY <1>1 DEF vars, TypeOK, stack, scope

-----------------------------------------------------------------------------
(* The inductive invariant of the mapping: the thread locals mirror the    *)
(* calls, no call is nested in one for the same mapping, and the first     *)
(* call of each type is the one whose time counts.                         *)
THEOREM Invariance == Spec => []IInv
<1>1. Init => IInv
  BY InitInv
<1>2. IInv /\ [Next]_vars => IInv'
  <2> SUFFICES ASSUME IInv, [Next]_vars PROVE TypeOK' /\ StackInv'
    BY DEF IInv, StackInv
  <2> USE DEF IInv, StackInv
  <2>1. ASSUME NEW a \in Adaptations, Ask(a) PROVE TypeOK' /\ StackInv'
    <3>1. CASE Begin(a)
      BY <3>1, BeginKeeps
    <3>2. CASE Hit(a) \/ FindNothing(a) \/ RefuseAmbiguous(a) \/ YieldOngoing(a) \/ RefuseCycle(a)
      BY <3>2, AnswersKeep
    <3> QED
      BY <2>1, <3>1, <3>2 DEF Ask
  <2>2. CASE Step
    BY <2>2, CreateKeeps, EndFieldsKeeps, PostProcessKeeps, FinishKeeps DEF Step
  <2>3. CASE Unwind
    BY <2>3, UnwindKeeps
  <2>4. CASE Throw \/ Catch \/ EnterFilter \/ LeaveFilter \/ BeginRecording \/ EndRecording
    BY <2>4, SurroundingsKeep
  <2>5. CASE UNCHANGED vars
    BY <2>5, StutterKeeps
  <2> QED
    BY <2>1, <2>2, <2>3, <2>4, <2>5 DEF Next
<1> QED
  BY <1>1, <1>2, PTL DEF Spec

(* The type invariant of the mapping and the request cache. *)
THEOREM TypeCorrect == Spec => []TypeOK
<1>1. IInv => TypeOK
  BY DEF IInv
<1> QED
  BY <1>1, Invariance, PTL

(* NestedMappingSupport agrees with the calls of map that are running,     *)
(* whatever the models throw and catch; an idle thread keeps nothing.      *)
THEOREM StackMirrored == Spec => []StackMirrorsCalls
<1>1. IInv => StackMirrorsCalls
  BY DEF IInv
<1> QED
  BY <1>1, Invariance, PTL

(* A cycle in the content never nests a mapping in itself. *)
THEOREM CyclesEnd == Spec => []NoNestedRepetition
<1>1. IInv => NoNestedRepetition
  BY DEF IInv
<1> QED
  BY <1>1, Invariance, PTL

(* The mapping whose time is tracked is the outermost one of its type. *)
THEOREM TrackedOutermost == Spec => []OutermostTracked
<1>1. IInv => OutermostTracked
  BY DEF IInv
<1> QED
  BY <1>1, Invariance, PTL

-----------------------------------------------------------------------------
(* The request cache and the recordings *)

(* A running call of map knows the key it was asked for, and from the      *)
(* moment its factory calls back it has a model of its own, which is       *)
(* ongoing and was created during the recording that is still going on.    *)
OwnsModel(f) ==
    /\ f.mapping = MappingOf[f.asked]
    /\ f.phase = "create" => f.model = Nothing /\ f.result = Nothing
    /\ f.phase # "create" =>
        /\ models[f.model].mapping = f.mapping
        /\ models[f.result].mapping = f.mapping
        /\ models[f.result].during = recording
        /\ models[f.result].state = "ongoing"
        /\ f.result # f.model => f.phase = "init" /\ models[f.result].raw = f.model

CallsOwnModels == \A k \in 1 .. Depth : OwnsModel(frames[k])

(* Every model that was completed during a recording is recorded, whether  *)
(* that recording still goes on or not.                                    *)
IsRecorded(i) ==
    \E r \in records[models[i].during] :
        r.mapping = models[i].mapping /\ r.model \in {i, models[i].raw}

ResultsRecorded ==
    /\ ~ Idle => target = recording
    /\ \A i \in 1 .. Len(models) :
        /\ models[i].during <= Len(records)
        /\ models[i].state = "result" /\ models[i].during # 0 => IsRecorded(i)

(* What is cached under a key is a model for it; what is not yet, or no    *)
(* longer, what the mapping results in is cached only while that mapping   *)
(* is under way, provided that no other key stands for it.                 *)
BeingMapped(a) ==
    \E k \in 1 .. Depth : frames[k].asked = a /\ cache[a] \in {frames[k].model, frames[k].result}

CacheSound ==
    /\ ~ caching => \A a \in Adaptations : cache[a] = Unknown
    /\ \A a \in Adaptations :
        cache[a] > 0 =>
            /\ cache[a] <= Len(models)
            /\ models[cache[a]].mapping = MappingOf[a]
            /\ OnlyKey(a) => models[cache[a]].state \in {"result", "failed"} \/ BeingMapped(a)

(* What the request has got is still cached, and not being mapped again.   *)
AnswersCached ==
    filters > 0 =>
        /\ caching
        /\ \A i \in 1 .. Len(answers) :
            /\ cache[answers[i].asked] = answers[i].model
            /\ \A k \in 1 .. Depth : frames[k].asked # answers[i].asked

-----------------------------------------------------------------------------
(* What the steps do to the calls and to the models *)

SameCall(k) ==
    /\ frames'[k].mapping = frames[k].mapping
    /\ frames'[k].asked = frames[k].asked
    /\ frames'[k].phase = frames[k].phase
    /\ frames'[k].model = frames[k].model
    /\ frames'[k].result = frames[k].result

SameModel(i) ==
    /\ models'[i].mapping = models[i].mapping
    /\ models'[i].raw = models[i].raw
    /\ models'[i].during = models[i].during

Quiet ==
    /\ models' = models
    /\ Len(frames') = Len(frames)
    /\ \A k \in 1 .. Len(frames) : SameCall(k)

LEMMA CallFacts ==
    ASSUME TypeOK, NEW k \in 1 .. Len(frames)
    PROVE  /\ frames[k] \in Call
           /\ frames[k].asked \in Adaptations /\ frames[k].mapping \in Mappings
           /\ frames[k].model \in Nat /\ frames[k].result \in Nat
           /\ frames[k].phase # "create" =>
                frames[k].model \in 1 .. Len(models) /\ frames[k].result \in 1 .. Len(models)
<1>1. frames[k] \in Call
  BY DEF TypeOK
<1>2. frames[k].phase # "create" =>
        frames[k].model \in 1 .. Len(models) /\ frames[k].result \in 1 .. Len(models)
  BY DEF TypeOK, CallsHaveModels, Depth
<1> QED
  BY <1>1, <1>2 DEF Call

LEMMA ModelFacts ==
    ASSUME TypeOK
    PROVE  /\ Len(models) \in Nat /\ Len(records) \in Nat /\ recording \in Nat
           /\ \A i \in 1 .. Len(models) :
                models[i] \in Model /\ models[i].during \in Nat /\ models[i].raw \in Nat
<1>1. Len(models) \in Nat /\ Len(records) \in Nat /\ recording \in Nat
  BY DEF TypeOK
<1>2. \A i \in 1 .. Len(models) : models[i] \in Model
  BY DEF TypeOK
<1> QED
  BY <1>1, <1>2 DEF Model

(* Different calls have different models. *)
LEMMA ModelsApart ==
    ASSUME TypeOK, StackInv, CallsOwnModels,
           NEW i \in 1 .. Len(frames), NEW j \in 1 .. Len(frames), i # j,
           frames[i].phase # "create", frames[j].phase # "create"
    PROVE  /\ frames[i].model \notin {frames[j].model, frames[j].result}
           /\ frames[i].result \notin {frames[j].model, frames[j].result}
<1>1. frames[i].mapping # frames[j].mapping
  BY DEF StackInv, NoNestedRepetition, Depth
<1>2. OwnsModel(frames[i]) /\ OwnsModel(frames[j])
  BY DEF CallsOwnModels, Depth
<1> QED
  BY <1>1, <1>2 DEF OwnsModel

LEMMA OneCallChanges ==
    ASSUME TypeOK, NEW d \in 1 .. Len(frames), NEW g \in Call
    PROVE  /\ [frames EXCEPT ![d] = g] \in Seq(Call)
           /\ Len([frames EXCEPT ![d] = g]) = Len(frames)
           /\ \A k \in 1 .. Len(frames) :
                [frames EXCEPT ![d] = g][k] = IF k = d THEN g ELSE frames[k]
BY DEF TypeOK

(* The question that is taken off the innermost call changes nothing else. *)
LEMMA AskedIsQuiet ==
    ASSUME TypeOK, NEW a \in Adaptations, Asks(a),
           NEW base, base = IF Idle THEN frames ELSE [frames EXCEPT ![Depth].rest = Tail(@)]
    PROVE  /\ base \in Seq(Call)
           /\ Len(base) = Len(frames)
           /\ \A k \in 1 .. Len(frames) :
                /\ base[k].mapping = frames[k].mapping
                /\ base[k].asked = frames[k].asked
                /\ base[k].phase = frames[k].phase
                /\ base[k].model = frames[k].model
                /\ base[k].result = frames[k].result
<1>1. CASE Idle
  BY <1>1 DEF TypeOK
<1>2. CASE ~ Idle
  <2> DEFINE g == [Top EXCEPT !.rest = Tail(@)]
  <2>1. Top \in Call /\ Top = frames[Depth] /\ Depth \in 1 .. Len(frames) /\ Top.rest # <<>>
    BY <1>2, TopIsCall DEF Asks
  <2>2. Top.rest \in Seq(Adaptations)
    BY <2>1 DEF Call
  <2>3. Tail(Top.rest) \in Seq(Adaptations)
    BY <2>1, <2>2
  <2>4. g \in Call
    BY <2>1, <2>3 DEF Call
  <2>5. /\ g.mapping = Top.mapping /\ g.asked = Top.asked /\ g.phase = Top.phase
        /\ g.model = Top.model /\ g.result = Top.result
    BY <2>1 DEF Call
  <2>6. base = [frames EXCEPT ![Depth] = g]
    BY <1>2, <2>1
  <2> HIDE DEF g
  <2>7. /\ base \in Seq(Call) /\ Len(base) = Len(frames)
        /\ \A k \in 1 .. Len(frames) : base[k] = IF k = Depth THEN g ELSE frames[k]
    BY ONLY TypeOK, <2>1, <2>4, <2>6, OneCallChanges
  <2> QED
    BY ONLY <2>1, <2>5, <2>7
<1> QED
  BY <1>1, <1>2

LEMMA AnswersAreQuiet ==
    ASSUME TypeOK, NEW a \in Adaptations,
           Hit(a) \/ FindNothing(a) \/ RefuseAmbiguous(a) \/ YieldOngoing(a) \/ RefuseCycle(a)
    PROVE  Quiet /\ UNCHANGED <<recording, records, target, scope>>
<1>1. Asks(a) /\ Asked /\ UNCHANGED <<models, recording, records, target, scope>>
  BY DEF Hit, FindNothing, RefuseAmbiguous, YieldOngoing, RefuseCycle, Misses, stack
<1>2. frames' = IF Idle THEN frames ELSE [frames EXCEPT ![Depth].rest = Tail(@)]
  BY <1>1 DEF Asked
<1>3. /\ Len(frames') = Len(frames)
      /\ \A k \in 1 .. Len(frames) : SameCall(k)
  BY <1>1, <1>2, AskedIsQuiet DEF SameCall
<1> QED
  BY <1>1, <1>3 DEF Quiet

LEMMA SurroundingsAreQuiet ==
    ASSUME Throw \/ Catch \/ EnterFilter \/ LeaveFilter \/ BeginRecording \/ EndRecording
           \/ UNCHANGED vars
    PROVE  Quiet /\ UNCHANGED target
<1>1. UNCHANGED <<frames, models, target>>
  BY DEF Throw, Catch, EnterFilter, LeaveFilter, BeginRecording, EndRecording, stack, vars
<1> QED
  BY <1>1 DEF Quiet, SameCall

LEMMA BeginAdds ==
    ASSUME TypeOK, NEW a \in Adaptations, Begin(a)
    PROVE  /\ Len(frames') = Len(frames) + 1
           /\ \A k \in 1 .. Len(frames) : SameCall(k)
           /\ frames'[Len(frames) + 1] = Frame(a)
           /\ Frame(a).asked = a /\ Frame(a).mapping = MappingOf[a] /\ Frame(a).phase = "create"
           /\ Frame(a).model = Nothing /\ Frame(a).result = Nothing
           /\ UNCHANGED <<models, recording, records, scope, cache, answers>>
<1> DEFINE base == IF Idle THEN frames ELSE [frames EXCEPT ![Depth].rest = Tail(@)]
<1>1. Asks(a) /\ frames' = Append(base, Frame(a))
  BY DEF Begin, Misses
<1>2. /\ base \in Seq(Call)
      /\ Len(base) = Len(frames)
      /\ \A k \in 1 .. Len(frames) :
            /\ base[k].mapping = frames[k].mapping
            /\ base[k].asked = frames[k].asked
            /\ base[k].phase = frames[k].phase
            /\ base[k].model = frames[k].model
            /\ base[k].result = frames[k].result
  BY <1>1, AskedIsQuiet
<1> HIDE DEF base
<1>3. /\ Len(frames') = Len(frames) + 1
      /\ \A k \in 1 .. Len(frames) : frames'[k] = base[k]
      /\ frames'[Len(frames) + 1] = Frame(a)
  BY <1>1, <1>2
<1>4. \A k \in 1 .. Len(frames) : SameCall(k)
  BY <1>2, <1>3 DEF SameCall
<1>5. /\ Frame(a).asked = a /\ Frame(a).mapping = MappingOf[a] /\ Frame(a).phase = "create"
      /\ Frame(a).model = Nothing /\ Frame(a).result = Nothing
  BY DEF Frame
<1> QED
  BY <1>3, <1>4, <1>5 DEF Begin

(* What a step within the innermost call does to the others. *)
OthersSame ==
    /\ Len(frames') = Len(frames)
    /\ \A k \in 1 .. Len(frames) : k # Depth => SameCall(k)

TopBecomes(phase, model, result) ==
    /\ frames'[Depth].mapping = Top.mapping
    /\ frames'[Depth].asked = Top.asked
    /\ frames'[Depth].phase = phase
    /\ frames'[Depth].model = model
    /\ frames'[Depth].result = result

LEMMA EnterFacts ==
    ASSUME TypeOK, ~ Idle, NEW p \in Phases
    PROVE  /\ Enter(p, Top) \in Call
           /\ Enter(p, Top).mapping = Top.mapping /\ Enter(p, Top).asked = Top.asked
           /\ Enter(p, Top).phase = p
           /\ Enter(p, Top).model = Top.model /\ Enter(p, Top).result = Top.result
<1>1. Top \in Call /\ Top.mapping \in Mappings
  BY TopIsCall DEF Call
<1>2. content[Top.mapping][p] \in Seq(Adaptations)
  BY <1>1, ContentIsSequence
<1> QED
  BY <1>1, <1>2 DEF Call, Enter

(* The innermost call becomes f. *)
LEMMA TopChangesOnly ==
    ASSUME TypeOK, ~ Idle, NEW f \in Call,
           f.mapping = Top.mapping, f.asked = Top.asked,
           frames' = [frames EXCEPT ![Depth] = f]
    PROVE  OthersSame /\ TopBecomes(f.phase, f.model, f.result)
<1>1. Depth \in 1 .. Len(frames)
  BY TopIsCall
<1>2. /\ Len(frames') = Len(frames)
      /\ \A k \in 1 .. Len(frames) : frames'[k] = IF k = Depth THEN f ELSE frames[k]
  BY ONLY TypeOK, <1>1, f \in Call, frames' = [frames EXCEPT ![Depth] = f], OneCallChanges
<1> QED
  BY <1>1, <1>2 DEF OthersSame, TopBecomes, SameCall

LEMMA CreateAdds ==
    ASSUME TypeOK, Create
    PROVE  /\ ~ Idle /\ Depth \in 1 .. Len(frames) /\ Top = frames[Depth] /\ Top.phase = "create"
           /\ OthersSame /\ TopBecomes("fields", Len(models'), Len(models'))
           /\ Len(models') = Len(models) + 1
           /\ \A i \in 1 .. Len(models) : models'[i] = models[i]
           /\ models'[Len(models')].mapping = Top.mapping
           /\ models'[Len(models')].state = "ongoing"
           /\ models'[Len(models')].during = recording
           /\ UNCHANGED <<recording, records, target, scope, cache, answers>>
<1> DEFINE model == [mapping |-> Top.mapping, state |-> "ongoing", raw |-> Nothing,
                     parent |-> IF Depth = 1 THEN {} ELSE {frames[Depth - 1].mapping},
                     during |-> recording]
           e == Enter("fields", Top)
           f == [e EXCEPT !.model = Len(models'), !.result = Len(models')]
<1>1. /\ ~ Idle /\ Top.phase = "create"
      /\ Top = frames[Depth] /\ Depth \in 1 .. Len(frames)
  BY TopIsCall DEF Create, Done
<1>2. models' = Append(models, model) /\ frames' = [frames EXCEPT ![Depth] = f]
  BY <1>1 DEF Create
<1>3. model.mapping = Top.mapping /\ model.state = "ongoing" /\ model.during = recording
  OBVIOUS
<1> HIDE DEF model
<1>4. /\ Len(models') = Len(models) + 1 /\ Len(models') \in Nat
      /\ \A i \in 1 .. Len(models) : models'[i] = models[i]
      /\ models'[Len(models')] = model
  <2>1. models \in Seq(Model) /\ Len(models) \in Nat
    BY DEF TypeOK
  <2> QED
    BY <1>2, <2>1
<1>5. e \in Call /\ e.mapping = Top.mapping /\ e.asked = Top.asked /\ e.phase = "fields"
  BY <1>1, EnterFacts DEF Phases
<1> HIDE DEF e
<1>6. f \in Call /\ f.mapping = Top.mapping /\ f.asked = Top.asked /\ f.phase = "fields"
      /\ f.model = Len(models') /\ f.result = Len(models')
  BY <1>4, <1>5 DEF Call
<1> HIDE DEF f
<1>7. OthersSame /\ TopBecomes(f.phase, f.model, f.result)
  BY <1>1, <1>2, <1>6, TopChangesOnly
<1> QED
  BY <1>1, <1>3, <1>4, <1>6, <1>7 DEF Create, stack

LEMMA EndFieldsEnters ==
    ASSUME TypeOK, EndFields
    PROVE  /\ ~ Idle /\ Depth \in 1 .. Len(frames) /\ Top = frames[Depth] /\ Top.phase = "fields"
           /\ OthersSame /\ TopBecomes("after", Top.model, Top.result)
           /\ models' = models
           /\ UNCHANGED <<recording, records, target, scope, cache, answers>>
<1> DEFINE f == Enter("after", Top)
<1>1. /\ ~ Idle /\ Top.phase = "fields"
      /\ Top = frames[Depth] /\ Depth \in 1 .. Len(frames)
  BY TopIsCall DEF EndFields, Done
<1>2. frames' = [frames EXCEPT ![Depth] = f]
  BY <1>1 DEF EndFields
<1>3. f \in Call /\ f.mapping = Top.mapping /\ f.asked = Top.asked /\ f.phase = "after"
      /\ f.model = Top.model /\ f.result = Top.result
  BY <1>1, EnterFacts DEF Phases
<1> HIDE DEF f
<1>4. OthersSame /\ TopBecomes(f.phase, f.model, f.result)
  BY <1>1, <1>2, <1>3, TopChangesOnly
<1> QED
  BY <1>1, <1>3, <1>4 DEF EndFields, stack

(* A post processor provides another model for the innermost call. *)
Replaces ==
    /\ Len(models') = Len(models) + 1
    /\ \A i \in 1 .. Len(models) :
        /\ SameModel(i)
        /\ models'[i].state = IF i = Top.model THEN "replaced" ELSE models[i].state
    /\ models'[Len(models')].mapping = models[Top.model].mapping
    /\ models'[Len(models')].state = models[Top.model].state
    /\ models'[Len(models')].during = models[Top.model].during
    /\ models'[Len(models')].raw = Top.model
    /\ TopBecomes("init", Top.model, Len(models'))

LEMMA PostProcessChanges ==
    ASSUME TypeOK, PostProcess
    PROVE  /\ ~ Idle /\ Depth \in 1 .. Len(frames) /\ Top = frames[Depth] /\ Top.phase = "after"
           /\ Top.model \in 1 .. Len(models)
           /\ OthersSame
           /\ UNCHANGED <<recording, records, target, scope, cache, answers>>
           /\ \/ /\ models' = models
                 /\ TopBecomes("init", Top.model, Top.result)
              \/ Replaces
<1> DEFINE e == Enter("init", Top)
           f == [e EXCEPT !.result = Len(models')]
           old == [models[Top.model] EXCEPT !.state = "replaced"]
           new == [models[Top.model] EXCEPT !.raw = Top.model]
           retired == [models EXCEPT ![Top.model] = old]
<1>1. /\ ~ Idle /\ Top.phase = "after"
      /\ Top = frames[Depth] /\ Depth \in 1 .. Len(frames)
  BY TopIsCall DEF PostProcess, Done
<1>2. Top.model \in 1 .. Len(models) /\ Top.result \in 1 .. Len(models)
  BY <1>1, CallFacts
<1>3. /\ e \in Call /\ e.mapping = Top.mapping /\ e.asked = Top.asked /\ e.phase = "init"
      /\ e.model = Top.model /\ e.result = Top.result
  BY <1>1, EnterFacts DEF Phases
<1>4. UNCHANGED <<recording, records, target, scope, cache, answers>>
  BY DEF PostProcess, stack
<1>5. CASE TypeOf[Top.mapping] \in Replacing
  <2>1. models' = Append(retired, new) /\ frames' = [frames EXCEPT ![Depth] = f]
    BY <1>1, <1>5 DEF PostProcess
  <2>2. models \in Seq(Model) /\ models[Top.model] \in Model /\ Len(models) \in Nat
    BY <1>2 DEF TypeOK
  <2>3. /\ old \in Model /\ old.state = "replaced" /\ old.mapping = models[Top.model].mapping
        /\ old.raw = models[Top.model].raw /\ old.during = models[Top.model].during
    BY <2>2 DEF Model
  <2>4. /\ new.state = models[Top.model].state /\ new.mapping = models[Top.model].mapping
        /\ new.raw = Top.model /\ new.during = models[Top.model].during
    BY <2>2 DEF Model
  <2> HIDE DEF old, new
  <2>5. /\ retired \in Seq(Model) /\ Len(retired) = Len(models)
        /\ \A i \in 1 .. Len(models) : retired[i] = IF i = Top.model THEN old ELSE models[i]
    BY <1>2, <2>2, <2>3
  <2> HIDE DEF retired
  <2>6. /\ Len(models') = Len(models) + 1 /\ Len(models') \in Nat
        /\ \A i \in 1 .. Len(models) : models'[i] = retired[i]
        /\ models'[Len(models')] = new
    BY <2>1, <2>2, <2>5
  <2>7. \A i \in 1 .. Len(models) :
            /\ SameModel(i)
            /\ models'[i].state = IF i = Top.model THEN "replaced" ELSE models[i].state
    BY <2>3, <2>5, <2>6 DEF SameModel
  <2> HIDE DEF e
  <2>8. f \in Call /\ f.mapping = Top.mapping /\ f.asked = Top.asked /\ f.phase = "init"
        /\ f.model = Top.model /\ f.result = Len(models')
    BY <1>3, <2>6 DEF Call
  <2> HIDE DEF f
  <2>9. OthersSame /\ TopBecomes(f.phase, f.model, f.result)
    BY <1>1, <2>1, <2>8, TopChangesOnly
  <2> QED
    BY <1>1, <1>2, <1>4, <2>4, <2>6, <2>7, <2>8, <2>9 DEF Replaces
<1>6. CASE TypeOf[Top.mapping] \notin Replacing
  <2>1. models' = models /\ frames' = [frames EXCEPT ![Depth] = e]
    BY <1>1, <1>6 DEF PostProcess
  <2> HIDE DEF e
  <2>2. OthersSame /\ TopBecomes(e.phase, e.model, e.result)
    BY <1>1, <1>3, <2>1, TopChangesOnly
  <2> QED
    BY <1>1, <1>2, <1>3, <1>4, <2>1, <2>2
<1> QED
  BY <1>5, <1>6

(* A call that ends leaves the others alone, and is recorded. *)
Left ==
    /\ Len(frames') = Len(frames) - 1
    /\ \A k \in 1 .. Len(frames') : k \in 1 .. Len(frames) /\ k # Depth /\ frames'[k] = frames[k]
    /\ Len(models') = Len(models)
    /\ \A i \in 1 .. Len(models) : SameModel(i)
    /\ target' = IF Depth = 1 THEN 0 ELSE target
    /\ Len(records') = Len(records)
    /\ \A d \in 1 .. Len(records) :
        records'[d] = IF d = target
                      THEN records[d] \cup {[model |-> Top.model, mapping |-> Top.mapping]}
                      ELSE records[d]
    /\ UNCHANGED <<recording, scope>>

LEMMA PopLeaves ==
    ASSUME TypeOK, StackInv, ~ Idle, Pop, UNCHANGED <<recording, scope>>,
           Len(models') = Len(models),
           \A i \in 1 .. Len(models) : SameModel(i)
    PROVE  Left
<1>1. /\ Len(frames) \in Nat
      /\ Len(frames') = Len(frames) - 1
      /\ \A k \in 1 .. Len(frames') : frames'[k] = frames[k]
      /\ Len(records') = Len(records)
  BY PopCall DEF TypeOK
<1>2. \A k \in 1 .. Len(frames') : k \in 1 .. Len(frames) /\ k # Depth
  BY <1>1 DEF Depth
<1>3. ASSUME NEW d \in 1 .. Len(records)
      PROVE  records'[d] = IF d = target
                           THEN records[d] \cup {[model |-> Top.model, mapping |-> Top.mapping]}
                           ELSE records[d]
  <2> DEFINE entry == [model |-> Top.model, mapping |-> Top.mapping]
  <2>1. records' = IF target = 0 THEN records
                   ELSE [records EXCEPT ![target] = @ \cup {entry}]
    BY DEF Pop
  <2> HIDE DEF entry
  <2>2. DOMAIN records = 1 .. Len(records)
    BY DEF TypeOK
  <2>3. records'[d] = IF d = target THEN records[d] \cup {entry} ELSE records[d]
    <3>1. CASE target = 0
      <4>1. d # 0
        BY ModelFacts
      <4> QED
        BY <2>1, <3>1, <4>1
    <3>2. CASE target # 0
      <4>1. records' = [records EXCEPT ![target] = records[target] \cup {entry}]
        BY <2>1, <3>2
      <4> QED
        BY <2>2, <4>1
    <3> QED
      BY <3>1, <3>2
  <2> QED
    BY <2>3 DEF entry
<1>4. target' = IF Depth = 1 THEN 0 ELSE target
  BY DEF Pop
<1> QED
  BY <1>1, <1>2, <1>3, <1>4 DEF Left

LEMMA FinishLeaves ==
    ASSUME TypeOK, StackInv, Finish
    PROVE  /\ ~ Idle /\ Depth \in 1 .. Len(frames) /\ Top = frames[Depth] /\ Top.phase = "init"
           /\ Left
           /\ \A i \in 1 .. Len(models) :
                models'[i].state = IF i = Top.result THEN "result" ELSE models[i].state
           /\ Put(Top.asked, Top.result) /\ Answered(Depth = 1, Top.asked, Top.result)
<1> DEFINE finished == [models[Top.result] EXCEPT !.state = "result"]
<1>1. /\ ~ Idle /\ Pop /\ Top.phase = "init"
      /\ Top = frames[Depth] /\ Depth \in 1 .. Len(frames)
  BY TopIsCall DEF Finish, Done
<1>2. Top.result \in 1 .. Len(models)
  BY <1>1, CallFacts
<1>3. models \in Seq(Model) /\ models[Top.result] \in Model
  BY <1>2 DEF TypeOK
<1>4. /\ finished \in Model /\ finished.state = "result"
      /\ finished.mapping = models[Top.result].mapping
      /\ finished.raw = models[Top.result].raw /\ finished.during = models[Top.result].during
  BY <1>3 DEF Model
<1>5. models' = [models EXCEPT ![Top.result] = finished]
  BY DEF Finish
<1> HIDE DEF finished
<1>6. /\ Len(models') = Len(models)
      /\ \A i \in 1 .. Len(models) : models'[i] = IF i = Top.result THEN finished ELSE models[i]
  BY <1>2, <1>3, <1>4, <1>5
<1>7. \A i \in 1 .. Len(models) : SameModel(i)
  BY <1>4, <1>6 DEF SameModel
<1>8. \A i \in 1 .. Len(models) :
        models'[i].state = IF i = Top.result THEN "result" ELSE models[i].state
  BY <1>4, <1>6
<1>9. Left
  BY <1>1, <1>6, <1>7, PopLeaves DEF Finish
<1> QED
  BY <1>1, <1>8, <1>9 DEF Finish

LEMMA UnwindLeaves ==
    ASSUME TypeOK, StackInv, Unwind
    PROVE  /\ ~ Idle /\ Depth \in 1 .. Len(frames) /\ Top = frames[Depth]
           /\ Left
           /\ \A i \in 1 .. Len(models) :
                models'[i].state = IF i \in {Top.model, Top.result} THEN "failed" ELSE models[i].state
           /\ UNCHANGED <<cache, answers>>
<1> DEFINE failed(i) == [models[i] EXCEPT !.state = "failed"]
           after(i) == IF i \in {Top.model, Top.result} THEN failed(i) ELSE models[i]
<1>1. /\ ~ Idle /\ Pop /\ Top = frames[Depth] /\ Depth \in 1 .. Len(frames)
  BY TopIsCall DEF Unwind
<1>2. DOMAIN models = 1 .. Len(models) /\ Len(models) \in Nat
  BY DEF TypeOK
<1>3. ASSUME NEW i \in 1 .. Len(models)
      PROVE  /\ failed(i).state = "failed" /\ failed(i).mapping = models[i].mapping
             /\ failed(i).raw = models[i].raw /\ failed(i).during = models[i].during
  BY ModelFacts DEF Model
<1>4. models' = [i \in 1 .. Len(models) |-> after(i)]
  BY <1>2 DEF Unwind
<1> HIDE DEF failed
<1>5. /\ Len(models') = Len(models)
      /\ \A i \in 1 .. Len(models) : models'[i] = after(i)
  BY <1>2, <1>4
<1>6. \A i \in 1 .. Len(models) : SameModel(i)
  BY <1>3, <1>5 DEF SameModel
<1>7. \A i \in 1 .. Len(models) :
        models'[i].state = IF i \in {Top.model, Top.result} THEN "failed" ELSE models[i].state
  BY <1>3, <1>5
<1>8. Left
  BY <1>1, <1>5, <1>6, PopLeaves DEF Unwind
<1> QED
  BY <1>1, <1>7, <1>8 DEF Unwind

-----------------------------------------------------------------------------
(* Calls and their models *)

LEMMA StaysOwner ==
    ASSUME TypeOK, CallsOwnModels, NEW k \in 1 .. Len(frames), SameCall(k),
           frames[k].phase # "create" =>
                /\ SameModel(frames[k].model) /\ SameModel(frames[k].result)
                /\ models'[frames[k].result].state = models[frames[k].result].state
                /\ recording' = recording
    PROVE  OwnsModel(frames[k])'
<1>1. OwnsModel(frames[k])
  BY DEF CallsOwnModels, Depth
<1> QED
  BY <1>1 DEF OwnsModel, SameCall, SameModel

(* The models of the other calls are left alone by what is done to that of  *)
(* the innermost one.                                                      *)
LEMMA OthersStayOwners ==
    ASSUME TypeOK, StackInv, CallsOwnModels, ~ Idle, recording' = recording,
           \A i \in 1 .. Len(models) :
                /\ SameModel(i)
                /\ ~ (Top.phase # "create" /\ i \in {Top.model, Top.result})
                        => models'[i].state = models[i].state,
           NEW k \in 1 .. Len(frames), k # Depth, SameCall(k)
    PROVE  OwnsModel(frames[k])'
<1>1. Depth \in 1 .. Len(frames) /\ Top = frames[Depth]
  BY TopIsCall
<1>2. ASSUME frames[k].phase # "create"
      PROVE  /\ SameModel(frames[k].model) /\ SameModel(frames[k].result)
             /\ models'[frames[k].result].state = models[frames[k].result].state
  <2>1. frames[k].model \in 1 .. Len(models) /\ frames[k].result \in 1 .. Len(models)
    BY <1>2, CallFacts
  <2>2. Top.phase # "create" => frames[k].result \notin {Top.model, Top.result}
    BY <1>1, <1>2, ModelsApart
  <2> QED
    BY <2>1, <2>2
<1> QED
  BY <1>2, StaysOwner

LEMMA QuietKeepsOwners ==
    ASSUME TypeOK, CallsOwnModels, Quiet, ~ Idle => recording' = recording
    PROVE  CallsOwnModels'
<1> SUFFICES ASSUME NEW k \in 1 .. Len(frames) PROVE OwnsModel(frames[k])'
  BY DEF CallsOwnModels, Depth, Quiet
<1>1. recording' = recording
  BY DEF TypeOK, Idle
<1> QED
  BY <1>1, StaysOwner DEF Quiet, SameModel

LEMMA BeginKeepsOwners ==
    ASSUME TypeOK, CallsOwnModels, NEW a \in Adaptations, Begin(a)
    PROVE  CallsOwnModels'
<1>1. Len(frames) \in Nat
  BY DEF TypeOK
<1> SUFFICES ASSUME NEW k \in 1 .. Len(frames) + 1 PROVE OwnsModel(frames[k])'
  BY BeginAdds DEF CallsOwnModels, Depth
<1>2. CASE k = Len(frames) + 1
  BY <1>2, BeginAdds DEF OwnsModel
<1>3. CASE k \in 1 .. Len(frames)
  BY <1>3, BeginAdds, StaysOwner DEF SameModel
<1> QED
  BY <1>1, <1>2, <1>3

LEMMA CreateKeepsOwners ==
    ASSUME TypeOK, StackInv, CallsOwnModels, Create
    PROVE  CallsOwnModels'
<1>1. Len(frames) \in Nat
  BY DEF TypeOK
<1> SUFFICES ASSUME NEW k \in 1 .. Len(frames) PROVE OwnsModel(frames[k])'
  BY CreateAdds DEF CallsOwnModels, Depth, OthersSame
<1>2. CASE k = Depth
  <2>1. Top.mapping = MappingOf[Top.asked]
    BY CreateAdds DEF CallsOwnModels, OwnsModel, Depth
  <2>2. /\ frames'[k].mapping = Top.mapping /\ frames'[k].asked = Top.asked
        /\ frames'[k].phase = "fields"
        /\ frames'[k].model = Len(models') /\ frames'[k].result = Len(models')
    BY <1>2, CreateAdds DEF TopBecomes
  <2> QED
    BY <2>1, <2>2, CreateAdds DEF OwnsModel
<1>3. CASE k # Depth
  <2>1. SameCall(k) /\ recording' = recording
    BY <1>3, CreateAdds DEF OthersSame
  <2>2. \A i \in 1 .. Len(models) : SameModel(i) /\ models'[i].state = models[i].state
    BY CreateAdds DEF SameModel
  <2> QED
    BY <1>3, <2>1, <2>2, CreateAdds, OthersStayOwners
<1> QED
  BY <1>2, <1>3

LEMMA EndFieldsKeepsOwners ==
    ASSUME TypeOK, StackInv, CallsOwnModels, EndFields
    PROVE  CallsOwnModels'
<1> SUFFICES ASSUME NEW k \in 1 .. Len(frames) PROVE OwnsModel(frames[k])'
  BY EndFieldsEnters DEF CallsOwnModels, Depth, OthersSame
<1>1. CASE k = Depth
  <2>1. OwnsModel(Top) /\ Top.phase = "fields"
    BY EndFieldsEnters DEF CallsOwnModels, Depth
  <2>2. /\ frames'[k].mapping = Top.mapping /\ frames'[k].asked = Top.asked
        /\ frames'[k].phase = "after"
        /\ frames'[k].model = Top.model /\ frames'[k].result = Top.result
    BY <1>1, EndFieldsEnters DEF TopBecomes
  <2> QED
    BY <2>1, <2>2, EndFieldsEnters DEF OwnsModel
<1>2. CASE k # Depth
  <2>1. SameCall(k)
    BY <1>2, EndFieldsEnters DEF OthersSame
  <2> QED
    BY <2>1, StaysOwner, EndFieldsEnters DEF SameModel
<1> QED
  BY <1>1, <1>2

LEMMA PostProcessKeepsOwners ==
    ASSUME TypeOK, StackInv, CallsOwnModels, PostProcess
    PROVE  CallsOwnModels'
<1> SUFFICES ASSUME NEW k \in 1 .. Len(frames) PROVE OwnsModel(frames[k])'
  BY PostProcessChanges DEF CallsOwnModels, Depth, OthersSame
<1>1. /\ ~ Idle /\ Depth \in 1 .. Len(frames) /\ Top = frames[Depth] /\ Top.phase = "after"
      /\ Top.model \in 1 .. Len(models) /\ recording' = recording /\ Len(models) \in Nat
  BY PostProcessChanges, ModelFacts
<1>2. OwnsModel(Top) /\ Top.result = Top.model
  BY <1>1 DEF CallsOwnModels, Depth, OwnsModel
<1>3. CASE k = Depth
  <2>1. CASE models' = models /\ TopBecomes("init", Top.model, Top.result)
    BY <1>1, <1>2, <1>3, <2>1 DEF TopBecomes, OwnsModel
  <2>2. CASE Replaces
    BY <1>1, <1>2, <1>3, <2>2 DEF Replaces, TopBecomes, OwnsModel, SameModel
  <2> QED
    BY <2>1, <2>2, PostProcessChanges
<1>4. CASE k # Depth
  <2>1. SameCall(k)
    BY <1>4, PostProcessChanges DEF OthersSame
  <2>2. \A i \in 1 .. Len(models) :
            SameModel(i) /\ (i # Top.model => models'[i].state = models[i].state)
    BY PostProcessChanges DEF SameModel, Replaces
  <2> QED
    BY <1>1, <1>4, <2>1, <2>2, OthersStayOwners
<1> QED
  BY <1>3, <1>4

LEMMA LeavingKeepsOwners ==
    ASSUME TypeOK, StackInv, CallsOwnModels, Finish \/ Unwind
    PROVE  CallsOwnModels'
<1>1. ~ Idle /\ Left /\ Depth \in 1 .. Len(frames) /\ Top = frames[Depth]
  BY FinishLeaves, UnwindLeaves
<1> SUFFICES ASSUME NEW k \in 1 .. Len(frames') PROVE OwnsModel(frames[k])'
  BY DEF CallsOwnModels, Depth
<1>2. k \in 1 .. Len(frames) /\ k # Depth /\ SameCall(k) /\ recording' = recording
  BY <1>1 DEF Left, SameCall
<1>3. ASSUME NEW i \in 1 .. Len(models), ~ (Top.phase # "create" /\ i \in {Top.model, Top.result})
      PROVE  models'[i].state = models[i].state
  <2>1. i \notin {Top.model, Top.result}
    <3>1. Top.phase = "create" => Top.model = Nothing /\ Top.result = Nothing
      BY <1>1 DEF CallsOwnModels, OwnsModel, Depth
    <3> QED
      BY <1>3, <3>1, ModelFacts DEF Nothing
  <2> QED
    BY <2>1, FinishLeaves, UnwindLeaves
<1> QED
  BY <1>1, <1>2, <1>3, OthersStayOwners DEF Left

-----------------------------------------------------------------------------
(* Recordings *)

RecordsGrow ==
    /\ Len(records') \in Nat /\ Len(records) <= Len(records')
    /\ \A d \in 1 .. Len(records) : records[d] \subseteq records'[d]

LEMMA StaysRecorded ==
    ASSUME TypeOK, ResultsRecorded, RecordsGrow,
           NEW i \in 1 .. Len(models), SameModel(i),
           models'[i].state = "result" => models[i].state = "result"
    PROVE  /\ models'[i].during <= Len(records')
           /\ models'[i].state = "result" /\ models'[i].during # 0 => IsRecorded(i)'
<1>1. models[i].during \in Nat /\ models'[i].during = models[i].during /\ Len(records) \in Nat
  BY ModelFacts DEF SameModel
<1>2. models[i].during <= Len(records)
  BY DEF ResultsRecorded
<1>3. ASSUME models'[i].state = "result", models[i].during # 0
      PROVE  IsRecorded(i)'
  <2>1. IsRecorded(i)
    BY <1>3 DEF ResultsRecorded
  <2>2. models[i].during \in 1 .. Len(records)
    BY <1>1, <1>2, <1>3
  <2>3. records[models[i].during] \subseteq records'[models[i].during]
    BY <2>2 DEF RecordsGrow
  <2> QED
    BY <2>1, <2>3 DEF IsRecorded, SameModel
<1> QED
  BY <1>1, <1>2, <1>3 DEF RecordsGrow

LEMMA SameRecordsGrow ==
    ASSUME TypeOK, records' = records
    PROVE  RecordsGrow
BY ModelFacts DEF RecordsGrow

LEMMA QuietKeepsRecorded ==
    ASSUME TypeOK, ResultsRecorded, Quiet, RecordsGrow,
           ~ Idle => target' = target /\ recording' = recording
    PROVE  ResultsRecorded'
<1>1. (~ Idle)' => ~ Idle
  BY DEF Quiet, Idle
<1>2. \A i \in 1 .. Len(models) :
        /\ models'[i].during <= Len(records')
        /\ models'[i].state = "result" /\ models'[i].during # 0 => IsRecorded(i)'
  BY StaysRecorded DEF Quiet, SameModel
<1> QED
  BY <1>1, <1>2 DEF ResultsRecorded, Quiet

LEMMA SurroundingsKeepRecorded ==
    ASSUME TypeOK, ResultsRecorded,
           Throw \/ Catch \/ EnterFilter \/ LeaveFilter \/ BeginRecording \/ EndRecording
           \/ UNCHANGED vars
    PROVE  ResultsRecorded'
<1>1. Quiet /\ UNCHANGED target
  BY SurroundingsAreQuiet
<1>2. ~ Idle => recording' = recording
  BY DEF Throw, Catch, EnterFilter, LeaveFilter, BeginRecording, EndRecording, vars
<1>3. RecordsGrow
  <2>1. CASE BeginRecording
    <3>1. records' = Append(records, {})
      BY <2>1 DEF BeginRecording
    <3>2. /\ Len(records') = Len(records) + 1
          /\ \A d \in 1 .. Len(records) : records'[d] = records[d]
      BY <3>1 DEF TypeOK
    <3> QED
      BY <3>2, ModelFacts DEF RecordsGrow
  <2>2. CASE ~ BeginRecording
    <3>1. records' = records
      BY <2>2 DEF Throw, Catch, EnterFilter, LeaveFilter, EndRecording, vars
    <3> QED
      BY <3>1, SameRecordsGrow
  <2> QED
    BY <2>1, <2>2
<1> QED
  BY <1>1, <1>2, <1>3, QuietKeepsRecorded

LEMMA BeginKeepsRecorded ==
    ASSUME TypeOK, StackInv, ResultsRecorded, NEW a \in Adaptations, Begin(a)
    PROVE  ResultsRecorded'
<1>1. RecordsGrow /\ recording' = recording /\ models' = models
  BY BeginAdds, SameRecordsGrow
<1>2. target' = recording'
  <2>1. ongoing = <<>> <=> Idle
    BY DEF StackInv, StackMirrorsCalls, Idle, Depth, TypeOK
  <2>2. target' = IF ongoing = <<>> THEN recording ELSE target
    BY DEF Begin
  <2> QED
    BY <1>1, <2>1, <2>2 DEF ResultsRecorded
<1>3. \A i \in 1 .. Len(models) :
        /\ models'[i].during <= Len(records')
        /\ models'[i].state = "result" /\ models'[i].during # 0 => IsRecorded(i)'
  BY <1>1, StaysRecorded DEF SameModel
<1> QED
  BY <1>1, <1>2, <1>3 DEF ResultsRecorded

LEMMA MappingKeepsRecorded ==
    ASSUME TypeOK, StackInv, CallsOwnModels, ResultsRecorded, Create \/ EndFields \/ PostProcess
    PROVE  ResultsRecorded'
<1>1. ~ Idle /\ UNCHANGED <<recording, records, target>> /\ Len(models) \in Nat
  BY CreateAdds, EndFieldsEnters, PostProcessChanges, ModelFacts
<1>2. RecordsGrow /\ target' = recording'
  BY <1>1, SameRecordsGrow DEF ResultsRecorded
<1>3. ASSUME NEW i \in 1 .. Len(models)
      PROVE  /\ models'[i].during <= Len(records')
             /\ models'[i].state = "result" /\ models'[i].during # 0 => IsRecorded(i)'
  <2>1. SameModel(i) /\ (models'[i].state = "result" => models[i].state = "result")
    BY CreateAdds, EndFieldsEnters, PostProcessChanges DEF SameModel, Replaces
  <2> QED
    BY <1>2, <2>1, StaysRecorded
<1>4. CASE models' = models
  BY <1>2, <1>3, <1>4 DEF ResultsRecorded
<1>5. CASE Len(models') = Len(models) + 1
  <2>1. models'[Len(models')].during <= Len(records') /\ models'[Len(models')].state = "ongoing"
    <3>1. CASE Create
      BY <1>1, <3>1, CreateAdds DEF TypeOK
    <3>2. CASE PostProcess
      <4>1. OwnsModel(Top) /\ Top.phase = "after" /\ Top.model \in 1 .. Len(models)
        BY <3>2, PostProcessChanges DEF CallsOwnModels, Depth
      <4>2. models[Top.model].state = "ongoing" /\ models[Top.model].during = recording
        BY <4>1 DEF OwnsModel
      <4>3. Replaces
        BY <1>1, <1>5, <3>2, PostProcessChanges
      <4>4. recording <= Len(records)
        BY DEF TypeOK
      <4> QED
        BY <1>1, <4>2, <4>3, <4>4 DEF Replaces
    <3>3. CASE EndFields
      BY <1>1, <1>5, <3>3, EndFieldsEnters
    <3> QED
      BY <3>1, <3>2, <3>3
  <2>2. \A i \in 1 .. Len(models') : i = Len(models') \/ i \in 1 .. Len(models)
    BY <1>1, <1>5
  <2>3. \A i \in 1 .. Len(models') :
            /\ models'[i].during <= Len(records')
            /\ models'[i].state = "result" /\ models'[i].during # 0 => IsRecorded(i)'
    BY <1>3, <2>1, <2>2
  <2> QED
    BY <1>2, <2>3 DEF ResultsRecorded
<1> QED
  BY <1>4, <1>5, CreateAdds, EndFieldsEnters, PostProcessChanges DEF Replaces

LEMMA LeavingGrowsRecords ==
    ASSUME TypeOK, Left
    PROVE  RecordsGrow
<1>1. Len(records) \in Nat /\ Len(records') = Len(records)
  BY ModelFacts DEF Left
<1>2. ASSUME NEW d \in 1 .. Len(records)
      PROVE  records[d] \subseteq records'[d]
  BY DEF Left
<1> QED
  BY <1>1, <1>2 DEF RecordsGrow

LEMMA LeavingKeepsRecorded ==
    ASSUME TypeOK, StackInv, CallsOwnModels, ResultsRecorded, Finish \/ Unwind
    PROVE  ResultsRecorded'
<1>1. ~ Idle /\ Left /\ Depth \in 1 .. Len(frames) /\ Top = frames[Depth] /\ RecordsGrow
  BY FinishLeaves, UnwindLeaves, LeavingGrowsRecords
<1>2. (~ Idle)' => target' = recording'
  <2>1. frames' = <<>> \/ Depth # 1
    <3>1. Pop
      BY DEF Finish, Unwind
    <3>2. frames' \in Seq(Call) /\ Len(frames') = Len(frames) - 1
      BY <1>1, <3>1, PopCall
    <3>3. Depth = 1 => Len(frames') = 0
      BY <3>2 DEF Depth
    <3> QED
      BY <3>2, <3>3
  <2> QED
    BY <1>1, <2>1 DEF Left, Idle, ResultsRecorded
<1>3. ASSUME NEW i \in 1 .. Len(models)
      PROVE  /\ models'[i].during <= Len(records')
             /\ models'[i].state = "result" /\ models'[i].during # 0 => IsRecorded(i)'
  <2>1. SameModel(i)
    BY <1>1 DEF Left
  <2>2. CASE Finish /\ i = Top.result
    <3> DEFINE entry == [model |-> Top.model, mapping |-> Top.mapping]
    <3>1. OwnsModel(Top) /\ Top.phase = "init" /\ target = recording
      BY <1>1, <2>2, FinishLeaves DEF CallsOwnModels, Depth, ResultsRecorded
    <3>2. models[i].mapping = Top.mapping /\ models[i].during = target
          /\ Top.model \in {i, models[i].raw}
      BY <2>2, <3>1 DEF OwnsModel
    <3>3. recording <= Len(records) /\ Len(records') = Len(records)
      BY <1>1 DEF TypeOK, Left
    <3>4. ASSUME target # 0 PROVE entry \in records'[target]
      <4>1. target \in 1 .. Len(records)
        BY <3>4 DEF TypeOK
      <4> QED
        BY <1>1, <4>1 DEF Left
    <3>5. entry.mapping = Top.mapping /\ entry.model = Top.model
      OBVIOUS
    <3> HIDE DEF entry
    <3> QED
      BY <2>1, <3>1, <3>2, <3>3, <3>4, <3>5 DEF SameModel, IsRecorded
  <2>3. CASE ~ (Finish /\ i = Top.result)
    <3>1. models'[i].state = "result" => models[i].state = "result"
      BY <2>3, FinishLeaves, UnwindLeaves
    <3> QED
      BY <1>1, <2>1, <3>1, StaysRecorded
  <2> QED
    BY <2>2, <2>3
<1> QED
  BY <1>1, <1>2, <1>3 DEF ResultsRecorded, Left

-----------------------------------------------------------------------------
(* The cache *)

Sound(a) ==
    cache[a] > 0 =>
        /\ cache[a] <= Len(models)
        /\ models[cache[a]].mapping = MappingOf[a]
        /\ OnlyKey(a) => models[cache[a]].state \in {"result", "failed"} \/ BeingMapped(a)

LEMMA CacheFacts ==
    ASSUME TypeOK, NEW a \in Adaptations
    PROVE  /\ cache[a] \in {Unknown} \cup Nat
           /\ CacheSound /\ cache[a] > 0 => Sound(a) /\ cache[a] \in 1 .. Len(models) /\ caching
<1>1. cache[a] \in {Unknown} \cup Nat
  BY DEF TypeOK
<1>2. ASSUME CacheSound, cache[a] > 0
      PROVE  Sound(a) /\ cache[a] \in 1 .. Len(models) /\ caching
  <2>1. Sound(a) /\ cache[a] <= Len(models)
    BY <1>2 DEF CacheSound, Sound
  <2>2. cache[a] # Unknown
    BY <1>2 DEF Unknown
  <2>3. cache[a] \in Nat
    BY <1>1, <2>2
  <2>4. caching
    BY <1>2, <2>2 DEF CacheSound
  <2> QED
    BY <1>2, <2>1, <2>3, <2>4, ModelFacts
<1> QED
  BY <1>1, <1>2

(* An entry that is left alone while its model and, if it is not finished,  *)
(* its mapping are there.                                                   *)
LEMMA StaysSound ==
    ASSUME TypeOK, CacheSound, NEW a \in Adaptations, cache'[a] = cache[a],
           Len(models') \in Nat, Len(models) <= Len(models'),
           \A i \in 1 .. Len(models) : SameModel(i),
           cache[a] \in 1 .. Len(models) /\ OnlyKey(a)
           /\ models'[cache[a]].state \notin {"result", "failed"} =>
                /\ models[cache[a]].state \notin {"result", "failed"}
                /\ \A k \in 1 .. Len(frames) :
                     frames[k].asked = a /\ cache[a] \in {frames[k].model, frames[k].result} =>
                        /\ k \in 1 .. Len(frames')
                        /\ frames'[k].asked = a
                        /\ cache[a] \in {frames'[k].model, frames'[k].result}
    PROVE  Sound(a)'
<1> SUFFICES ASSUME cache'[a] > 0
             PROVE  /\ cache'[a] <= Len(models')
                    /\ models'[cache'[a]].mapping = MappingOf[a]
                    /\ OnlyKey(a) => models'[cache'[a]].state \in {"result", "failed"}
                                     \/ BeingMapped(a)'
  BY DEF Sound, OnlyKey
<1>1. Sound(a) /\ cache[a] \in 1 .. Len(models) /\ cache[a] > 0 /\ Len(models) \in Nat
  BY CacheFacts, ModelFacts
<1>2. models'[cache'[a]].mapping = MappingOf[a]
  BY <1>1 DEF Sound, SameModel
<1>3. cache'[a] <= Len(models')
  BY <1>1
<1>4. ASSUME OnlyKey(a), models'[cache'[a]].state \notin {"result", "failed"}
      PROVE  BeingMapped(a)'
  <2>1. BeingMapped(a)
    BY <1>1, <1>4 DEF Sound
  <2>2. PICK k \in 1 .. Len(frames) :
            frames[k].asked = a /\ cache[a] \in {frames[k].model, frames[k].result}
    BY <2>1 DEF BeingMapped, Depth
  <2>3. /\ k \in 1 .. Len(frames')
        /\ frames'[k].asked = a
        /\ cache'[a] \in {frames'[k].model, frames'[k].result}
    BY <1>1, <1>4, <2>2
  <2> QED
    BY <2>3 DEF BeingMapped, Depth
<1> QED
  BY <1>2, <1>3, <1>4

LEMMA QuietStaysSound ==
    ASSUME TypeOK, CacheSound, Quiet, NEW a \in Adaptations, cache'[a] = cache[a]
    PROVE  Sound(a)'
<1>1. Len(models') \in Nat /\ Len(models) <= Len(models') /\ \A i \in 1 .. Len(models) : SameModel(i)
  BY ModelFacts DEF Quiet, SameModel
<1>2. ASSUME NEW k \in 1 .. Len(frames), frames[k].asked = a,
             cache[a] \in {frames[k].model, frames[k].result}
      PROVE  /\ k \in 1 .. Len(frames')
             /\ frames'[k].asked = a
             /\ cache[a] \in {frames'[k].model, frames'[k].result}
  BY <1>2 DEF Quiet, SameCall
<1>3. models' = models
  BY DEF Quiet
<1> QED
  BY <1>1, <1>2, <1>3, StaysSound

LEMMA AnswersKeepSound ==
    ASSUME TypeOK, CallsOwnModels, CacheSound, NEW a \in Adaptations,
           Hit(a) \/ FindNothing(a) \/ RefuseAmbiguous(a) \/ YieldOngoing(a) \/ RefuseCycle(a)
    PROVE  CacheSound'
<1>1. Quiet /\ UNCHANGED scope
  BY AnswersAreQuiet
<1>2. CASE UNCHANGED cache
  <2>1. \A b \in Adaptations : Sound(b)'
    BY <1>1, <1>2, QuietStaysSound
  <2>2. ~ caching' => \A b \in Adaptations : cache'[b] = Unknown
    BY <1>1, <1>2 DEF scope, CacheSound
  <2> QED
    BY <2>1, <2>2 DEF CacheSound, Sound
<1>3. CASE caching /\ FindNothing(a)
  <2>1. cache' = [cache EXCEPT ![a] = Nothing]
    BY <1>3 DEF FindNothing, Put
  <2>2. ASSUME NEW b \in Adaptations PROVE Sound(b)'
    <3>1. CASE b = a
      <4>1. cache'[b] = 0
        BY <2>1, <3>1 DEF TypeOK, Nothing
      <4> QED
        BY <4>1 DEF Sound
    <3>2. CASE b # a
      BY <1>1, <2>1, <3>2, QuietStaysSound
    <3> QED
      BY <3>1, <3>2
  <2>3. caching'
    BY <1>1, <1>3 DEF scope
  <2> QED
    BY <2>2, <2>3 DEF CacheSound, Sound
<1>4. CASE caching /\ YieldOngoing(a)
  <2>1. PICK k \in 1 .. Len(frames) :
            /\ frames[k].mapping = MappingOf[a]
            /\ frames[k].model # Nothing
            /\ Put(a, frames[k].model)
    BY <1>4 DEF YieldOngoing, Depth
  <2>2. cache' = [cache EXCEPT ![a] = frames[k].model]
    BY <1>4, <2>1 DEF Put
  <2>3. ASSUME NEW b \in Adaptations PROVE Sound(b)'
    <3>1. CASE b = a
      <4>1. cache'[a] = frames[k].model
        BY <2>2 DEF TypeOK
      <4>2. OwnsModel(frames[k]) /\ frames[k].phase # "create"
        BY <2>1 DEF CallsOwnModels, OwnsModel, Depth
      <4>3. frames[k].model \in 1 .. Len(models) /\ models[frames[k].model].mapping = MappingOf[a]
        BY <2>1, <4>2, CallFacts DEF OwnsModel
      <4>4. ASSUME OnlyKey(a) PROVE BeingMapped(a)'
        <5>1. frames[k].asked = a
          BY <2>1, <4>2, <4>4, CallFacts DEF OnlyKey, OwnsModel
        <5>2. k \in 1 .. Len(frames') /\ frames'[k].asked = a /\ frames'[k].model = cache'[a]
          BY <1>1, <4>1, <5>1 DEF Quiet, SameCall
        <5> QED
          BY <5>2 DEF BeingMapped, Depth
      <4>5. models' = models
        BY <1>1 DEF Quiet
      <4>6. cache'[a] <= Len(models') /\ models'[cache'[a]].mapping = MappingOf[a]
        BY <4>1, <4>3, <4>5, ModelFacts
      <4> QED
        BY <3>1, <4>4, <4>6 DEF Sound, OnlyKey
    <3>2. CASE b # a
      BY <1>1, <2>2, <3>2, QuietStaysSound
    <3> QED
      BY <3>1, <3>2
  <2>4. caching'
    BY <1>1, <1>4 DEF scope
  <2> QED
    BY <2>3, <2>4 DEF CacheSound, Sound
<1>5. UNCHANGED cache \/ (caching /\ (FindNothing(a) \/ YieldOngoing(a)))
  BY DEF Hit, FindNothing, RefuseAmbiguous, YieldOngoing, RefuseCycle, Put
<1> QED
  BY <1>2, <1>3, <1>4, <1>5

LEMMA SurroundingsKeepSound ==
    ASSUME TypeOK, CacheSound,
           Throw \/ Catch \/ EnterFilter \/ LeaveFilter \/ BeginRecording \/ EndRecording
           \/ UNCHANGED vars
    PROVE  CacheSound'
<1>1. CASE EnterFilter \/ LeaveFilter
  <2>1. \A a \in Adaptations : cache'[a] = Unknown
    BY <1>1 DEF EnterFilter, LeaveFilter
  <2>2. \A a \in Adaptations : ~ (cache'[a] > 0)
    BY <2>1 DEF Unknown
  <2> QED
    BY <2>1, <2>2 DEF CacheSound
<1>2. CASE ~ (EnterFilter \/ LeaveFilter)
  <2>1. Quiet /\ UNCHANGED <<cache, scope>>
    BY <1>2, SurroundingsAreQuiet
       DEF Throw, Catch, BeginRecording, EndRecording, vars
  <2>2. \A a \in Adaptations : Sound(a)'
    BY <2>1, QuietStaysSound
  <2> QED
    BY <2>1, <2>2 DEF CacheSound, Sound, scope
<1> QED
  BY <1>1, <1>2

LEMMA BeginKeepsSound ==
    ASSUME TypeOK, CacheSound, NEW a \in Adaptations, Begin(a)
    PROVE  CacheSound'
<1>1. /\ Len(frames') = Len(frames) + 1 /\ Len(frames) \in Nat
      /\ \A k \in 1 .. Len(frames) : SameCall(k)
      /\ UNCHANGED <<models, scope, cache>>
  BY BeginAdds DEF TypeOK
<1>2. ASSUME NEW b \in Adaptations PROVE Sound(b)'
  <2>1. ASSUME NEW k \in 1 .. Len(frames), frames[k].asked = b,
               cache[b] \in {frames[k].model, frames[k].result}
        PROVE  /\ k \in 1 .. Len(frames')
               /\ frames'[k].asked = b
               /\ cache[b] \in {frames'[k].model, frames'[k].result}
    BY <1>1, <2>1 DEF SameCall
  <2>2. /\ Len(models') \in Nat /\ Len(models) <= Len(models') /\ cache'[b] = cache[b]
        /\ models' = models /\ \A i \in 1 .. Len(models) : SameModel(i)
    BY <1>1, ModelFacts DEF SameModel
  <2> QED
    BY <2>1, <2>2, StaysSound
<1> QED
  BY <1>1, <1>2 DEF CacheSound, Sound, scope

LEMMA MappingKeepsSound ==
    ASSUME TypeOK, StackInv, CallsOwnModels, CacheSound, Create \/ EndFields \/ PostProcess
    PROVE  CacheSound'
<1>1. /\ ~ Idle /\ Depth \in 1 .. Len(frames) /\ Top = frames[Depth] /\ OthersSame
      /\ UNCHANGED <<scope, cache>>
  BY CreateAdds, EndFieldsEnters, PostProcessChanges
<1>2. /\ Len(models') \in Nat /\ Len(models) <= Len(models')
      /\ \A i \in 1 .. Len(models) : SameModel(i)
  BY CreateAdds, EndFieldsEnters, PostProcessChanges, ModelFacts DEF SameModel, Replaces
<1>3. OwnsModel(Top)
  BY <1>1 DEF CallsOwnModels, Depth
<1>4. ASSUME NEW a \in Adaptations PROVE Sound(a)'
  <2>1. ASSUME cache[a] \in 1 .. Len(models), models'[cache[a]].state \notin {"result", "failed"}
        PROVE  models[cache[a]].state \notin {"result", "failed"}
    <3>1. CASE PostProcess /\ cache[a] = Top.model
      <4>1. models[Top.model].state = "ongoing"
        BY <1>3, <3>1, PostProcessChanges DEF OwnsModel
      <4> QED
        BY <3>1, <4>1
    <3>2. CASE ~ (PostProcess /\ cache[a] = Top.model)
      <4>1. models'[cache[a]].state = models[cache[a]].state
        BY <2>1, <3>2, CreateAdds, EndFieldsEnters, PostProcessChanges DEF Replaces
      <4> QED
        BY <2>1, <4>1
    <3> QED
      BY <3>1, <3>2
  <2>2. ASSUME cache[a] \in 1 .. Len(models), NEW k \in 1 .. Len(frames), frames[k].asked = a,
               cache[a] \in {frames[k].model, frames[k].result}
        PROVE  /\ k \in 1 .. Len(frames')
               /\ frames'[k].asked = a
               /\ cache[a] \in {frames'[k].model, frames'[k].result}
    <3>1. Len(frames') = Len(frames)
      BY <1>1 DEF OthersSame
    <3>2. CASE k # Depth
      BY <1>1, <2>2, <3>1, <3>2 DEF OthersSame, SameCall
    <3>3. CASE k = Depth
      <4>1. Top.asked = a /\ cache[a] \in {Top.model, Top.result} /\ cache[a] # 0
        BY <1>1, <2>2, <3>3, ModelFacts
      <4>2. ~ Create
        BY <1>3, <4>1, CreateAdds DEF OwnsModel, Nothing
      <4>3. cache[a] = Top.model \/ EndFields
        BY <1>3, <4>1, <4>2, PostProcessChanges DEF OwnsModel
      <4>4. frames'[k].asked = a /\ frames'[k].model = Top.model
            /\ (EndFields => frames'[k].result = Top.result)
        BY <3>3, <4>1, <4>2, EndFieldsEnters, PostProcessChanges DEF TopBecomes, Replaces
      <4> QED
        BY <2>2, <3>1, <4>1, <4>3, <4>4
    <3> QED
      BY <3>2, <3>3
  <2> QED
    BY <1>1, <1>2, <2>1, <2>2, StaysSound
<1> QED
  BY <1>1, <1>4 DEF CacheSound, Sound, scope

LEMMA LeavingKeepsSound ==
    ASSUME TypeOK, StackInv, CallsOwnModels, CacheSound, Finish \/ Unwind
    PROVE  CacheSound'
<1>1. ~ Idle /\ Left /\ Depth \in 1 .. Len(frames) /\ Top = frames[Depth]
  BY FinishLeaves, UnwindLeaves
<1>2. /\ Len(models') \in Nat /\ Len(models) <= Len(models')
      /\ \A i \in 1 .. Len(models) : SameModel(i)
  BY <1>1, ModelFacts DEF Left
<1>3. OwnsModel(Top) /\ Top.asked \in Adaptations
  BY <1>1, CallFacts DEF CallsOwnModels, Depth
<1>4. ASSUME NEW a \in Adaptations, cache'[a] = cache[a],
             (Finish /\ cache[a] \in 1 .. Len(models)) => a # Top.asked \/ cache[a] = Top.result
      PROVE  Sound(a)'
  <2>1. ASSUME cache[a] \in 1 .. Len(models), models'[cache[a]].state \notin {"result", "failed"}
        PROVE  models[cache[a]].state \notin {"result", "failed"}
    BY <2>1, FinishLeaves, UnwindLeaves
  <2>2. ASSUME cache[a] \in 1 .. Len(models), models'[cache[a]].state \notin {"result", "failed"},
               NEW k \in 1 .. Len(frames), frames[k].asked = a,
               cache[a] \in {frames[k].model, frames[k].result}
        PROVE  /\ k \in 1 .. Len(frames')
               /\ frames'[k].asked = a
               /\ cache[a] \in {frames'[k].model, frames'[k].result}
    <3>1. k # Depth
      <4> SUFFICES ASSUME k = Depth PROVE FALSE
        OBVIOUS
      <4>1. a = Top.asked /\ cache[a] \in {Top.model, Top.result}
        BY <1>1, <2>2
      <4>2. CASE Unwind
        <5>1. models'[cache[a]].state = "failed"
          BY <2>2, <4>1, <4>2, UnwindLeaves
        <5> QED
          BY <2>2, <5>1
      <4>3. CASE Finish
        <5>1. models'[cache[a]].state = "result"
          BY <1>4, <2>2, <4>1, <4>3, FinishLeaves
        <5> QED
          BY <2>2, <5>1
      <4> QED
        BY <4>2, <4>3
    <3>2. k \in 1 .. Len(frames') /\ frames'[k] = frames[k]
      <4>1. Len(frames) \in Nat /\ Len(frames') = Len(frames) - 1
        BY <1>1 DEF TypeOK, Left
      <4>2. k \in 1 .. Len(frames')
        BY <3>1, <4>1 DEF Depth
      <4> QED
        BY <1>1, <4>2 DEF Left
    <3> QED
      BY <2>2, <3>2
  <2> QED
    BY <1>2, <1>4, <2>1, <2>2, StaysSound
<1>5. CASE Unwind
  <2>1. UNCHANGED <<cache, scope>> /\ ~ Finish
    BY <1>1, <1>5, UnwindLeaves DEF Left, Finish, Unwind, Done
  <2> QED
    BY <1>4, <2>1 DEF CacheSound, Sound, scope
<1>6. CASE Finish
  <2>1. Put(Top.asked, Top.result) /\ UNCHANGED scope /\ Top.phase = "init"
    BY <1>1, <1>6, FinishLeaves DEF Left
  <2>2. CASE caching
    <3>1. cache' = [cache EXCEPT ![Top.asked] = Top.result]
      BY <2>1, <2>2 DEF Put
    <3>2. ASSUME NEW a \in Adaptations PROVE Sound(a)'
      <4>1. CASE a = Top.asked
        <5>1. cache'[a] = Top.result
          BY <3>1, <4>1 DEF TypeOK
        <5>2. Top.result \in 1 .. Len(models) /\ models[Top.result].mapping = MappingOf[a]
          BY <1>1, <1>3, <2>1, <4>1, CallFacts DEF OwnsModel
        <5>3. models'[Top.result].state = "result" /\ models'[Top.result].mapping = MappingOf[a]
          BY <1>2, <1>6, <5>2, FinishLeaves DEF SameModel
        <5>4. Top.result <= Len(models')
          BY <1>2, <5>2, ModelFacts
        <5> QED
          BY <5>1, <5>3, <5>4 DEF Sound, OnlyKey
      <4>2. CASE a # Top.asked
        <5>1. cache'[a] = cache[a]
          BY <3>1, <4>2
        <5> QED
          BY <1>4, <4>2, <5>1
      <4> QED
        BY <4>1, <4>2
    <3> QED
      BY <2>1, <2>2, <3>2 DEF CacheSound, Sound, scope
  <2>3. CASE ~ caching
    <3>1. cache' = cache /\ \A a \in Adaptations : cache[a] = Unknown
      BY <2>1, <2>3 DEF Put, CacheSound
    <3>2. \A a \in Adaptations : ~ (cache'[a] > 0)
      BY <3>1 DEF Unknown
    <3> QED
      BY <3>1, <3>2 DEF CacheSound
  <2> QED
    BY <2>2, <2>3
<1> QED
  BY <1>5, <1>6

-----------------------------------------------------------------------------
(* The answers of a request *)

LEMMA AnswersStayCached ==
    ASSUME TypeOK, AnswersCached, UNCHANGED <<scope, answers>>,
           filters > 0 => \A i \in 1 .. Len(answers) :
                cache'[answers[i].asked] = cache[answers[i].asked]
                    \/ cache'[answers[i].asked] = answers[i].model,
           filters > 0 => \A i \in 1 .. Len(answers) : \A k \in 1 .. Len(frames') :
                frames'[k].asked # answers[i].asked
    PROVE  AnswersCached'
BY DEF AnswersCached, scope, Depth

LEMMA AnswerFacts ==
    ASSUME TypeOK, NEW i \in 1 .. Len(answers)
    PROVE  answers[i].asked \in Adaptations /\ answers[i].model \in Nat
<1> DEFINE Answer == [asked : Adaptations, model : Nat]
<1>1. answers \in Seq(Answer)
  BY DEF TypeOK
<1> HIDE DEF Answer
<1>2. answers[i] \in Answer
  BY <1>1
<1> QED
  BY <1>2 DEF Answer

(* An answer that is in the cache when it is given. *)
LEMMA NewAnswerCached ==
    ASSUME TypeOK, AnswersCached, NEW idle \in BOOLEAN, NEW a \in Adaptations, NEW v \in Nat,
           Answered(idle, a, v), UNCHANGED scope,
           idle => Len(frames') = 0,
           filters > 0 /\ idle => cache'[a] = v,
           filters > 0 => \A i \in 1 .. Len(answers) :
                cache'[answers[i].asked] = answers[i].model,
           filters > 0 => \A i \in 1 .. Len(answers) : \A k \in 1 .. Len(frames') :
                frames'[k].asked # answers[i].asked
    PROVE  AnswersCached'
<1>1. CASE ~ idle
  <2>1. answers' = answers
    BY <1>1 DEF Answered
  <2> QED
    BY <2>1 DEF AnswersCached, scope, Depth
<1>2. CASE idle
  <2> DEFINE answer == [asked |-> a, model |-> v]
  <2>1. answers' = Append(answers, answer)
    BY <1>2 DEF Answered
  <2>2. answer.asked = a /\ answer.model = v
    OBVIOUS
  <2> HIDE DEF answer
  <2>3. Len(answers) \in Nat /\ Len(answers') = Len(answers) + 1
    BY <2>1 DEF TypeOK
  <2>4. \A i \in 1 .. Len(answers) : answers'[i] = answers[i]
    BY <2>1 DEF TypeOK
  <2>5. answers'[Len(answers) + 1] = answer
    BY <2>1 DEF TypeOK
  <2>6. \A i \in 1 .. Len(answers') : i \in 1 .. Len(answers) \/ i = Len(answers) + 1
    BY <2>3
  <2>7. filters > 0 => \A i \in 1 .. Len(answers') : cache'[answers'[i].asked] = answers'[i].model
    BY <1>2, <2>2, <2>4, <2>5, <2>6
  <2> QED
    BY <1>2, <2>7 DEF AnswersCached, scope, Depth
<1> QED
  BY <1>1, <1>2

LEMMA AnswersKeepAnswers ==
    ASSUME TypeOK, AnswersCached, NEW a \in Adaptations,
           Hit(a) \/ FindNothing(a) \/ RefuseAmbiguous(a) \/ YieldOngoing(a) \/ RefuseCycle(a)
    PROVE  AnswersCached'
<1>1. Quiet /\ UNCHANGED scope
  BY AnswersAreQuiet
<1>2. filters > 0 => \A i \in 1 .. Len(answers) : \A k \in 1 .. Len(frames') :
            frames'[k].asked # answers[i].asked
  BY <1>1 DEF AnswersCached, Depth, Quiet, SameCall
<1>3. Idle => Len(frames') = 0
  BY <1>1 DEF Quiet, Idle
<1>4. Idle \in BOOLEAN
  BY DEF Idle
<1>5. filters > 0 => \A i \in 1 .. Len(answers) :
        cache[answers[i].asked] = answers[i].model /\ cache[answers[i].asked] # Unknown
  BY AnswerFacts DEF AnswersCached, Unknown
<1>6. CASE Hit(a)
  <2>1. cache[a] \in Nat /\ cache' = cache /\ Answered(Idle, a, cache[a])
    BY <1>6, CacheFacts DEF Hit
  <2> QED
    BY <1>1, <1>2, <1>3, <1>4, <1>5, <2>1, NewAnswerCached
<1>7. CASE FindNothing(a)
  <2>1. cache[a] = Unknown /\ Put(a, Nothing) /\ Answered(Idle, a, Nothing) /\ Nothing \in Nat
    BY <1>7 DEF FindNothing, Misses, Nothing
  <2>2. filters > 0 => cache' = [cache EXCEPT ![a] = Nothing]
    BY <2>1 DEF Put, AnswersCached
  <2>3. filters > 0 => cache'[a] = Nothing
    BY <2>2 DEF TypeOK
  <2>4. ASSUME filters > 0, NEW i \in 1 .. Len(answers)
        PROVE  cache'[answers[i].asked] = answers[i].model
    <3>1. answers[i].asked \in Adaptations
      BY AnswerFacts
    <3>2. cache[answers[i].asked] = answers[i].model /\ answers[i].asked # a
      BY <1>5, <2>1, <2>4
    <3> HIDE DEF Answered
    <3> QED
      BY <2>2, <2>4, <3>1, <3>2 DEF TypeOK
  <2> QED
    BY <1>1, <1>2, <1>3, <1>4, <2>1, <2>3, <2>4, NewAnswerCached
<1>8. CASE YieldOngoing(a)
  <2>1. cache[a] = Unknown /\ UNCHANGED answers
    BY <1>8 DEF YieldOngoing, Misses
  <2>2. \A b \in Adaptations : b # a => cache'[b] = cache[b]
    BY <1>8 DEF YieldOngoing, Put
  <2>3. filters > 0 => \A i \in 1 .. Len(answers) :
            cache'[answers[i].asked] = cache[answers[i].asked]
    BY <1>5, <2>1, <2>2, AnswerFacts
  <2> QED
    BY <1>1, <1>2, <2>1, <2>3, AnswersStayCached
<1>9. CASE RefuseAmbiguous(a) \/ RefuseCycle(a)
  <2>1. UNCHANGED <<cache, answers>>
    BY <1>9 DEF RefuseAmbiguous, RefuseCycle
  <2> QED
    BY <1>1, <1>2, <2>1, AnswersStayCached
<1> QED
  BY <1>6, <1>7, <1>8, <1>9

LEMMA BeginKeepsAnswers ==
    ASSUME TypeOK, AnswersCached, NEW a \in Adaptations, Begin(a)
    PROVE  AnswersCached'
<1>1. /\ Len(frames') = Len(frames) + 1 /\ Len(frames) \in Nat
      /\ \A k \in 1 .. Len(frames) : SameCall(k)
      /\ frames'[Len(frames) + 1].asked = a
      /\ UNCHANGED <<scope, cache, answers>>
  BY BeginAdds DEF TypeOK
<1>2. cache[a] = Unknown
  BY DEF Begin, Misses
<1>3. ASSUME filters > 0, NEW i \in 1 .. Len(answers), NEW k \in 1 .. Len(frames')
      PROVE  frames'[k].asked # answers[i].asked
  <2>1. CASE k \in 1 .. Len(frames)
    BY <1>1, <1>3, <2>1 DEF AnswersCached, Depth, SameCall
  <2>2. CASE k = Len(frames) + 1
    <3>1. cache[answers[i].asked] # Unknown
      BY <1>3, AnswerFacts DEF AnswersCached, Unknown
    <3> QED
      BY <1>1, <1>2, <2>2, <3>1
  <2> QED
    BY <1>1, <2>1, <2>2
<1> QED
  BY <1>1, <1>3, AnswersStayCached

LEMMA MappingKeepsAnswers ==
    ASSUME TypeOK, AnswersCached, Create \/ EndFields \/ PostProcess
    PROVE  AnswersCached'
<1>1. /\ Depth \in 1 .. Len(frames) /\ Top = frames[Depth] /\ OthersSame
      /\ frames'[Depth].asked = Top.asked
      /\ UNCHANGED <<scope, cache, answers>>
  BY CreateAdds, EndFieldsEnters, PostProcessChanges DEF TopBecomes, Replaces
<1>2. Len(frames') = Len(frames) /\ \A k \in 1 .. Len(frames) : frames'[k].asked = frames[k].asked
  BY <1>1 DEF OthersSame, SameCall
<1>3. filters > 0 => \A i \in 1 .. Len(answers) : \A k \in 1 .. Len(frames') :
            frames'[k].asked # answers[i].asked
  BY <1>2 DEF AnswersCached, Depth
<1> QED
  BY <1>1, <1>3, AnswersStayCached

LEMMA LeavingKeepsAnswers ==
    ASSUME TypeOK, StackInv, AnswersCached, Finish \/ Unwind
    PROVE  AnswersCached'
<1>1. ~ Idle /\ Left /\ Depth \in 1 .. Len(frames) /\ Top = frames[Depth] /\ UNCHANGED scope
  BY FinishLeaves, UnwindLeaves DEF Left
<1>2. filters > 0 => \A i \in 1 .. Len(answers) : \A k \in 1 .. Len(frames') :
            frames'[k].asked # answers[i].asked
  BY <1>1 DEF Left, AnswersCached, Depth
<1>3. CASE Unwind
  BY <1>1, <1>2, <1>3, UnwindLeaves, AnswersStayCached
<1>4. CASE Finish
  <2>1. /\ Put(Top.asked, Top.result) /\ Answered(Depth = 1, Top.asked, Top.result)
        /\ Top.asked \in Adaptations /\ Top.result \in Nat
    BY <1>1, <1>4, FinishLeaves, CallFacts
  <2>2. filters > 0 => cache' = [cache EXCEPT ![Top.asked] = Top.result]
    BY <2>1 DEF Put, AnswersCached
  <2>3. filters > 0 => cache'[Top.asked] = Top.result
    BY <2>1, <2>2 DEF TypeOK
  <2>4. ASSUME filters > 0, NEW i \in 1 .. Len(answers)
        PROVE  cache'[answers[i].asked] = answers[i].model
    <3>1. answers[i].asked \in Adaptations
      BY AnswerFacts
    <3>2. cache[answers[i].asked] = answers[i].model
      BY <2>4 DEF AnswersCached
    <3>3. frames[Depth].asked # answers[i].asked
      BY <1>1, <2>4 DEF AnswersCached, Depth
    <3>4. Top.asked # answers[i].asked
      BY <1>1, <3>3
    <3> QED
      BY <2>1, <2>2, <2>4, <3>1, <3>2, <3>4 DEF TypeOK
  <2>6. Depth = 1 => Len(frames') = 0
    BY <1>1 DEF Left, Depth
  <2>7. (Depth = 1) \in BOOLEAN
    OBVIOUS
  <2> QED
    BY <1>1, <1>2, <2>1, <2>3, <2>4, <2>6, <2>7, NewAnswerCached
<1> QED
  BY <1>3, <1>4

LEMMA SurroundingsKeepAnswers ==
    ASSUME TypeOK, AnswersCached, MaxFilters <= 1,
           Throw \/ Catch \/ EnterFilter \/ LeaveFilter \/ BeginRecording \/ EndRecording
           \/ UNCHANGED vars
    PROVE  AnswersCached'
<1>1. filters \in Nat /\ filters <= 1
  BY MappingAssumption DEF TypeOK
<1>2. CASE EnterFilter
  <2>1. filters = 0
    BY <1>1, <1>2, MappingAssumption DEF EnterFilter
  <2>2. answers' = <<>> /\ caching'
    BY <1>2, <2>1 DEF EnterFilter
  <2>3. Len(answers') = 0
    BY <2>2
  <2> QED
    BY <2>2, <2>3 DEF AnswersCached
<1>3. CASE LeaveFilter
  <2>1. filters' = 0
    BY <1>1, <1>3 DEF LeaveFilter
  <2> QED
    BY <2>1 DEF AnswersCached
<1>4. CASE Throw \/ Catch \/ BeginRecording \/ EndRecording \/ UNCHANGED vars
  <2>1. UNCHANGED <<scope, cache, answers, frames>>
    BY <1>4 DEF Throw, Catch, BeginRecording, EndRecording, vars
  <2> QED
    BY <2>1 DEF AnswersCached, scope, Depth
<1> QED
  BY <1>2, <1>3, <1>4

-----------------------------------------------------------------------------
(* The invariant of the mapping with the cache and the recordings *)

RequestInv == CallsOwnModels /\ ResultsRecorded /\ CacheSound

LEMMA InitRequestInv == Init => RequestInv /\ AnswersCached
<1> SUFFICES ASSUME Init PROVE RequestInv /\ AnswersCached
  OBVIOUS
<1>1. /\ frames = <<>> /\ Len(frames) = 0 /\ Len(models) = 0 /\ filters = 0
      /\ \A a \in Adaptations : cache[a] = Unknown
  BY DEF Init
<1>2. \A a \in Adaptations : ~ (cache[a] > 0)
  BY <1>1 DEF Unknown
<1>3. CallsOwnModels /\ ResultsRecorded
  BY <1>1 DEF CallsOwnModels, ResultsRecorded, Depth, Idle
<1>4. CacheSound
  BY <1>1, <1>2 DEF CacheSound
<1>5. AnswersCached
  BY <1>1 DEF AnswersCached
<1> QED
  BY <1>3, <1>4, <1>5 DEF RequestInv

LEMMA NextRequestInv == IInv /\ RequestInv /\ [Next]_vars => RequestInv'
<1> SUFFICES ASSUME IInv, RequestInv, [Next]_vars PROVE RequestInv'
  OBVIOUS
<1> USE DEF IInv, StackInv, RequestInv
<1>1. ASSUME NEW a \in Adaptations, Ask(a) PROVE RequestInv'
  <2>1. CASE Begin(a)
    BY <2>1, BeginKeepsOwners, BeginKeepsRecorded, BeginKeepsSound
  <2>2. CASE Hit(a) \/ FindNothing(a) \/ RefuseAmbiguous(a) \/ YieldOngoing(a) \/ RefuseCycle(a)
    <3>1. Quiet /\ UNCHANGED <<recording, records, target>>
      BY <2>2, AnswersAreQuiet
    <3>2. CallsOwnModels' /\ ResultsRecorded'
      BY <3>1, QuietKeepsOwners, SameRecordsGrow, QuietKeepsRecorded
    <3> QED
      BY <2>2, <3>2, AnswersKeepSound
  <2> QED
    BY <1>1, <2>1, <2>2 DEF Ask
<1>2. CASE Create \/ EndFields \/ PostProcess
  BY <1>2, CreateKeepsOwners, EndFieldsKeepsOwners, PostProcessKeepsOwners,
     MappingKeepsRecorded, MappingKeepsSound
<1>3. CASE Finish \/ Unwind
  BY <1>3, LeavingKeepsOwners, LeavingKeepsRecorded, LeavingKeepsSound
<1>4. CASE Throw \/ Catch \/ EnterFilter \/ LeaveFilter \/ BeginRecording \/ EndRecording
           \/ UNCHANGED vars
  <2>1. Quiet
    BY <1>4, SurroundingsAreQuiet
  <2>2. ~ Idle => recording' = recording
    BY <1>4 DEF Throw, Catch, EnterFilter, LeaveFilter, BeginRecording, EndRecording, vars
  <2>3. CallsOwnModels'
    BY <2>1, <2>2, QuietKeepsOwners
  <2> QED
    BY <1>4, <2>3, SurroundingsKeepRecorded, SurroundingsKeepSound
<1> QED
  BY <1>1, <1>2, <1>3, <1>4 DEF Next, Step

(* The calls of map, the recordings and the cache agree with one another,  *)
(* whatever the models ask for, throw and catch.                           *)
THEOREM RequestInvariance == Spec => []RequestInv
BY InitRequestInv, NextRequestInv, Invariance, PTL DEF Spec

(* What a request finds in its cache when nothing is being mapped is a      *)
(* model of the key, and not one that a cycle has seen half mapped.        *)
THEOREM CachedIsResult == Spec => []CachedModelIsResult
<1>1. IInv /\ RequestInv => CachedModelIsResult
  <2> SUFFICES ASSUME IInv, RequestInv, Idle, NEW a \in Adaptations, cache[a] > 0
               PROVE  /\ models[cache[a]].mapping = MappingOf[a]
                      /\ OnlyKey(a) => models[cache[a]].state \in {"result", "failed"}
    BY DEF CachedModelIsResult
  <2>1. Len(frames) = 0
    BY DEF Idle
  <2>2. ~ BeingMapped(a)
    BY <2>1 DEF BeingMapped, Depth
  <2> QED
    BY <2>2 DEF RequestInv, CacheSound
<1> QED
  BY <1>1, RequestInvariance, Invariance, PTL

(* A recording has every mapping that was completed since it began.        *)
THEOREM AllRecorded == Spec => []RecordingComplete
<1>1. RequestInv => RecordingComplete
  <2> SUFFICES ASSUME RequestInv, recording # 0, NEW i \in 1 .. Len(models),
                      models[i].state = "result", models[i].during = recording
               PROVE  IsRecorded(i)
    BY DEF RecordingComplete, IsRecorded
  <2> QED
    BY DEF RequestInv, ResultsRecorded
<1> QED
  BY <1>1, RequestInvariance, PTL

(* Within one pass through the filter a key always yields the same model.  *)
(* Where passes are nested it does not: the inner one takes the cache away. *)
THEOREM OneModel == ASSUME MaxFilters <= 1 PROVE Spec => []OneModelPerRequest
<1>1. IInv /\ AnswersCached /\ [Next]_vars => AnswersCached'
  <2> SUFFICES ASSUME IInv, AnswersCached, [Next]_vars PROVE AnswersCached'
    OBVIOUS
  <2> USE DEF IInv, StackInv
  <2>1. ASSUME NEW a \in Adaptations, Ask(a) PROVE AnswersCached'
    BY <2>1, BeginKeepsAnswers, AnswersKeepAnswers DEF Ask
  <2>2. CASE Create \/ EndFields \/ PostProcess
    BY <2>2, MappingKeepsAnswers
  <2>3. CASE Finish \/ Unwind
    BY <2>3, LeavingKeepsAnswers
  <2>4. CASE Throw \/ Catch \/ EnterFilter \/ LeaveFilter \/ BeginRecording \/ EndRecording
             \/ UNCHANGED vars
    BY <2>4, MaxFilters <= 1, SurroundingsKeepAnswers
  <2> QED
    BY <2>1, <2>2, <2>3, <2>4 DEF Next, Step
<1>2. AnswersCached => OneModelPerRequest
  BY DEF AnswersCached, OneModelPerRequest
<1> QED
  BY <1>1, <1>2, InitRequestInv, Invariance, PTL DEF Spec
==============================================================================
