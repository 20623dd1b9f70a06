SPECIFICATION Spec
CONSTANTS
    main = main
    Main = main
    Streams <- MCShortStreams
    Length = 4
    Words <- MCWords
    MaxEntries = 4
INVARIANT AllProcessed
