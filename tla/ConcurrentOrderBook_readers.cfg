SPECIFICATION FairSpec
CONSTANTS
    w1 = w1
    w2 = w2
    r1 = r1
    Writers <- MCTwoWriters
    Shifters <- MCNoThreads
    Readers <- MCOneReader
    Queries <- MCBothQueries
    Volumes <- MCLargePurchase
    Shifts <- MCNoShift
    MaxCalls = 1
    BasePrices = {1}
    Prices = {1, 2}
    StrayVolumes = {0}
    BookLength = 2
    IntMax = 15
    EntryMax = 4
PROPERTIES
    QuoteNotTorn
    VolumeReturnsOnceWritten
    WritersReturn
