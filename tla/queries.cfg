SPECIFICATION Spec
CONSTANTS
    EventIds = {1, 2, 3}
    Clocks = {1, 2}
    Deltas <- SmallAndLarge
    NoRow = NoRow
    PageSizes = {1, 2}
    RecentLimit = 2
    MantissaBits = 8
    Scale = 10
    ExactDigits = 2
INVARIANTS PagingNeverSkips BalanceNotAhead AmountsReadBackExactly
