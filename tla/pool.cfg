SPECIFICATION FairSpec
CONSTANTS
    N = 6
    Concurrency = 3
    None = None
INVARIANTS MappedOnce ResolvedIsComplete SettledIsQuiet FirstErrorThrown
PROPERTIES NoStartAfterError PoolSettles
