--------------------------- MODULE ModelResolution ---------------------------
(***************************************************************************)
(* Which models apply to a resource: the traversal of its mappable type    *)
(* hierarchy as a function of the registered sources and of the content.   *)
(*                                                                         *)
(* Everything here is a constant operator.  src maps a type name to the    *)
(* model sources registered for it, sup maps a resource type to its super  *)
(* type (NoType when it has none), without cycles: the iterator of the     *)
(* code does not end on a cycle.  A question is what a lookup asks for:    *)
(* the resource type to start at (NoType if the resource only has node     *)
(* types), the type names that follow the resource types (the node types,  *)
(* or the synthetic root), and the criterion, a kind with an argument.     *)
(***************************************************************************)
EXTENDS Integers, Sequences

CONSTANTS
    Types,          \* names of resource types and node types
    NoType,         \* null in place of a type name
    Sources,        \* the OsgiModelSources that can be registered
    NameOf,         \* [Sources -> model names]
    AssignableTo,   \* [Sources -> set of target types the model can be cast to]
    Hierarchies     \* the super type functions the content can hold

(* A type and the types above it: the least set that holds the type and    *)
(* the super type of each of its members.                                  *)
Line ==
    [sup \in Hierarchies |->
        [y \in Types |->
            {x \in Types :
                \A S \in SUBSET Types :
                    y \in S /\ (\A z \in S : sup[z] # NoType => sup[z] \in S) => x \in S}]]

ASSUME HierarchyAssumption ==
    /\ NoType \notin Types
    /\ Hierarchies \subseteq [Types -> Types \cup {NoType}]
    /\ \A sup \in Hierarchies : \A y \in Types :
        sup[y] # NoType => y \notin Line[sup][sup[y]]

ResolvedModelSource == [source : Sources, type : Types]

(* ModelRegistry.filter: by assignability, by name, or no filter at all. *)
Accepts(q, s) ==
    /\ q.kind = "name" => NameOf[s] = q.arg
    /\ q.kind = "type" => q.arg \in AssignableTo[s]

(* Positions of the iterator over the hierarchy: index 0 while it is in    *)
(* the resource types, i at the i-th of the further types.                 *)
End == [type |-> NoType, index |-> -1]

Further(q, i) ==
    IF i <= Len(q.further) THEN [type |-> q.further[i], index |-> i] ELSE End

First(q) ==
    IF q.start # NoType THEN [type |-> q.start, index |-> 0] ELSE Further(q, 1)

(* A slip in hasNext() would be not to leave a further type. *)
AfterStuck(sup, q, p) ==
    IF p.index = 0 /\ sup[p.type] # NoType
    THEN [type |-> sup[p.type], index |-> 0]
    ELSE Further(q, IF p.index = 0 THEN 1 ELSE p.index)

After(sup, q, p) ==
    IF p.index = 0 /\ sup[p.type] # NoType
    THEN [type |-> sup[p.type], index |-> 0]
    ELSE Further(q, p.index + 1)

Positions(q) ==
    [type : Types, index : {0}] \cup {Further(q, i) : i \in 1 .. Len(q.further)}

(* The models found at one type, and where a traversal stops. *)
MatchesAt(src, q, type) == {s \in src[type] : Accepts(q, s)}

ResolvedAt(src, q, type) ==
    {[source |-> s, type |-> type] : s \in MatchesAt(src, q, type)}

Stops(src, q, p) == q.kind # "all" /\ MatchesAt(src, q, p.type) # {}

(* The order in which positions are visited, and the positions from p on.  *)
Precedes(sup, x, y) ==
    \/ x.index < y.index
    \/ x.index = 0 /\ y.index = 0 /\ x # y /\ y.type \in Line[sup][x.type]

From(sup, q, p) == {x \in Positions(q) : x = p \/ Precedes(sup, p, x)}

(* What a traversal standing at p still finds: the matching models of each *)
(* type from p on that no type with a stop precedes.                       *)
FoundFrom(src, sup, q, p) ==
    IF p = End
    THEN {}
    ELSE UNION {ResolvedAt(src, q, x.type) :
                    x \in {y \in From(sup, q, p) :
                            \A z \in From(sup, q, p) :
                                Precedes(sup, z, y) => ~ Stops(src, q, z)}}

(* The answer to a question for a given registry and content. *)
ResolveIn(src, sup, q) == FoundFrom(src, sup, q, First(q))
==============================================================================
