CONSTANTS
    b1 = b1
    b2 = b2
    s1 = s1
    s2 = s2
    page = page
    target = target
    Types <- MCTypes
    NoType = NoType
    Sources = {s1, s2}
    NameOf <- MCNameOf
    AssignableTo <- MCAssignableTo
    Hierarchies <- MCHierarchies
    Bundles = {b1, b2}
    BundleOf <- MCBundleOf
    TypesOf <- MCTypesOf
    Resources = {page}
    Signature <- MCSignature
    ResourceType <- MCResourceType
    FurtherTypes <- MCFurtherTypes
    Lookups <- AnyOfPage
    Requests = {t1, t2}
    Deactivator = Deactivator
    Worker = Worker
    Absent = Absent
    NoSource = NoSource
    NoLookup = NoLookup
    MaxChanges = 1
SPECIFICATION Spec
INVARIANTS
    TypeOK
    CacheCoherent
    TraversalOnCourse
    OneComputation
PROPERTY ReturnsFresh
