SPECIFICATION FairSpec
CONSTANT Streams <- MCStreams
INVARIANTS
    TypeOK
    AnswersInOrder
    NeverReadsAhead
PROPERTY ReadsToTheEnd
