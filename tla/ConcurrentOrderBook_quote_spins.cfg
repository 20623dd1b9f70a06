SPECIFICATION FairSpec
CONSTANTS
    w1 = w1
    w2 = w2
    r1 = r1
    Writers <- MCOneWriter
    Shifters <- MCNoThreads
    Readers <- MCOneReader
    Queries <- MCQuotes
    Volumes <- MCVolumes
    Shifts <- MCNoShift
    MaxCalls = 1
    BasePrices = {1}
    Prices = {1, 2}
    StrayVolumes = {0}
    BookLength = 2
    IntMax = 15
    EntryMax = 4
PROPERTY QuoteReturns
