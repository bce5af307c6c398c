CONSTANTS
    page = page
    home = home
    teaser = teaser
    Page = Page
    Teaser = Teaser
    NoModel = NoModel
    Ambiguous = Ambiguous
    Mappings <- MCMappings
    Types = {Page, Teaser}
    TypeOf <- MCTypeOf
    Adaptations <- MCAdaptations
    MappingOf <- MCMappingOf
    Contents <- MCContents
    Replacing = {Page}
    Failing = {"after"}
    MaxFilters = 1
    MaxAsks = 2
    MaxRecordings = 1
SPECIFICATION Spec
INVARIANTS
    TypeOK
    StackMirrorsCalls
    NoNestedRepetition
    OutermostTracked
    CachedModelIsResult
    OneModelPerRequest
    RecordingComplete
CHECK_DEADLOCK FALSE
