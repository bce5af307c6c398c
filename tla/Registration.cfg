CONSTANTS
    pages = pages
    teasers = teasers
    NoSource = NoSource
    Factories = {pages, teasers}
    Bundles = {"site", "library"}
    Models <- MCModels
    DefinitionsOf <- MCDefinitionsOf
    Classes <- MCClasses
    Names <- MCNames
    NamesOf <- MCNamesOf
    BundleOf <- OwnBundle
    ClassOf <- OwnClass
    Early = {pages, teasers}
    Impatient = {teasers}
    MaxEvents = 4
SPECIFICATION FairSpec
INVARIANTS
    TypeOK
    
    RegisteredAreKnown
    MetaDataReleased
    AdapterAccurate
PROPERTY AdapterSettles
CHECK_DEADLOCK FALSE
