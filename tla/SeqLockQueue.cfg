SPECIFICATION FairSpec
CONSTANTS
    r1 = r1
    Length = 2
    Words <- MCWords
    Readers <- MCReaders
    MaxEntries = 7
INVARIANTS
    TypeOK
    NoTornReads
PROPERTIES
    MissesOnlyWholeLaps
    NothingMeansCurrent
    ImplementsFeed
    EveryReaderCatchesUp
