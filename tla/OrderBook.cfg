SPECIFICATION Spec
CONSTANTS
    BookLength = 3
    IntMax = 5
    EntryMax = 2
    BasePrices = {1}
    StrayVolumes = {1}
    Prices = {1, 2, 3, 4}
    Volumes <- MCVolumes
    Shifts <- MCShifts
INVARIANTS
    TypeOK
    InvariantsCheckPasses
    StatsExact
    Uncrossed
    AddThenWithdrawRestores
    RefusedOutOfRange
PROPERTIES
    VolumeConserved
    RevenueMatchesTrades
    BestPricesFirst
    FillsWhileLiquidityLasts
    ShiftKeepsVolumes
    ShiftRefusedForCause
    WritesInsideSpan
    ImplementsMarket
