CONSTANTS
    b1 = b1
    b2 = b2
    s1 = s1
    s2 = s2
    page = page
    target = target
    Types <- MCTypes
    NoType = NoType
    Sources = {s1, s2}
    NameOf <- MCNameOf
    AssignableTo <- MCAssignableTo
    Hierarchies <- MCHierarchies
    Bundles = {b1, b2}
    BundleOf <- MCBundleOf
    TypesOf <- MCTypesOf
    Resources = {page}
    Signature <- MCSignature
    ResourceType <- MCResourceType
    FurtherTypes <- MCFurtherTypes
    Lookups <- NamedOfPage
    Requests = {t1}
    Deactivator = Deactivator
    Worker = Worker
    Absent = Absent
    NoSource = NoSource
    NoLookup = NoLookup
    MaxChanges = 2
SPECIFICATION FairSpec
PROPERTIES
    OutdatedEntryGoes
    ComputationEnds
    ImplementsCoherentCache
