SPECIFICATION FairSpec
CONSTANTS
    x1 = x1
    x2 = x2
    x3 = x3
    Rows = {x1, x2, x3}
    Times = {1, 2, 3}
    PageSize = 2
    MaxItems = 4
INVARIANTS TypeOK NothingMissed FewRepeats
PROPERTIES PagingEnds
CHECK_DEADLOCK FALSE
