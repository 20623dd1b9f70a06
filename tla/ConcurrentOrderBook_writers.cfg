SPECIFICATION Spec
CONSTANTS
    w1 = w1
    w2 = w2
    r1 = r1
    Writers <- MCTwoWriters
    Shifters <- MCOneWriter
    Readers <- MCNoThreads
    Queries <- MCBothQueries
    Volumes <- MCVolumes
    Shifts <- MCShifts
    MaxCalls = 2
    BasePrices = {1}
    Prices = {1, 2}
    StrayVolumes = {0}
    BookLength = 2
    IntMax = 15
    EntryMax = 4
INVARIANT OneWriter
PROPERTIES
    Linearizable
