SPECIFICATION Spec
CONSTANTS
    Apps = {a1, a2}
    Everyone = everyone
    Ids = {t1, t2, t3}
    NoId = noid
    Contents = {c1, c2}
    Unusable = {c2}
    Verdicts <- MCVerdicts
    Unnoted = none
    TagSets <- MCTagSets
    Requests = {r1, r2}
    Menus <- RetaggedMenus
    Filters = {nofilter, "a"}
    NoFilter = nofilter
    PageSize = 1
    ExportCap = 1
    MaxEdits = 3
    nofilter = nofilter
    a1 = a1
    a2 = a2
    t1 = t1
    t2 = t2
    t3 = t3
    r1 = r1
    r2 = r2
    everyone = everyone
    c1 = c1
    c2 = c2
    none = none
    noid = noid
SYMMETRY MCSymmetry
INVARIANTS
    PagesSkipNothing
CHECK_DEADLOCK FALSE
