\* A cache of four entries, of which two are looked at.
CONSTANTS
    null = null
    CacheSize = 4
    CacheScan = 2
    Hash <- MCHash
    Null = null
    Sources <- MCSources
    Builds = {TRUE, FALSE}
SPECIFICATION Spec
INVARIANTS OneEntryPerName SymbolIsOfItsText
PROPERTIES ScanAdvances  RefusesOnlyBadUtf8
\* The scanner stops at the end of the source and at an error.
CHECK_DEADLOCK FALSE
