CONSTANTS
    r1 = r1
    r2 = r2
    r3 = r3
    r4 = r4
    Page = Page
    Teaser = Teaser
    Rows = {r1, r2, r3, r4}
    ModelTypes = {Page, Teaser}
    ModelTypeOf <- MCModelTypeOf
    Resolvable = {r1, r3}
    Answers <- MCAnswers
    MaxRequests = 3
SPECIFICATION Spec
INVARIANTS
    TypeOK
    HiddenForAReason
PROPERTY NothingLeftOver
