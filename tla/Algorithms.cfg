CONSTANTS
    N = 5
    Values = {1, 2, 3}
    Zero = Zero
    x = x
    id1 = id1
    id2 = id2
SPECIFICATION AllSpec
CHECK_DEADLOCK FALSE
INVARIANTS
    Selected IsTheRate PayoutsAreShared
    DifficultyIsNumber HashesIdentify TotalsMatch
PROPERTIES
    SelectionReturns
