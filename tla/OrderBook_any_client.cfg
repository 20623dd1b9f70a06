SPECIFICATION AnyClientSpec
CONSTANTS
    BookLength = 3
    IntMax = 7
    EntryMax = 2
    BasePrices = {2}
    StrayVolumes = {0}
    Prices = {2, 3, 4, 5}
    Volumes <- MCUnitVolumes
    Shifts <- MCShiftByOne
INVARIANT StatsExact
