CONSTANTS
    Filters = {"m > 0", "m > 1"}
    Rejected = {"m >", " m", " m > 0"}
    Blanked = {" m"}
    Broken = {" m > 0"}
    MaxShows = 4
SPECIFICATION Spec
INVARIANT AnyChangeApplied
