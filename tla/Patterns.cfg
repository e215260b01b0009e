\* A cache of two entries and three texts.
CONSTANTS
    Texts = {p, q, r}
    Objects = {o}
    CacheLimit = 2
    Nothing = Nothing
SPECIFICATION PatternsSpec
INVARIANT Resolves
