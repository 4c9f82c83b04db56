SPECIFICATION Spec
CONSTANTS
    s1 = s1  s2 = s2  s3 = s3
    d1 = d1  d2 = d2
    t1 = t1  t2 = t2
    c1 = c1  c2 = c2
    Threads = {t1}
    Serialized = TRUE
    MayStarve = TRUE
    Static = {s1, s2, s3}
    Dynamic = {d1, d2}
    Names <- MCNames
    LongNames = {"long"}
    StaticContent <- MCStaticContent
    StaticTable <- MCStaticTable
    Locals <- MCLocals
    Headers <- MCHeaders
    Catalogs = {c1, c2}
SYMMETRY MCSymmetry
INVARIANT RecordsOfLiving AnswersAsUnregistered CatalogComplete NothingLeft
CHECK_DEADLOCK FALSE
