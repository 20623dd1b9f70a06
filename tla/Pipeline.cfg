SPECIFICATION FairSpec
CONSTANTS
    main = main
    Main = main
    Streams <- MCStreams
    Length = 2
    Words <- MCWords
    MaxEntries = 4
INVARIANTS
    TypeOK
    ProcessedInOrder
    LosesOnlyTheUnseen
PROPERTY ThreadsFinish
