CONSTANTS
    Id = {1, 2, 3, 4}
    Exact = 2
    Calls <- MCCalls
    Liked = {2, 3, 4}
    Filters <- MCFilters
    MaxChanges = 2
SPECIFICATION Spec
CONSTRAINT Focus
INVARIANTS TypeOK OneMoment NothingInvented NobodyLeftOut FailsOnlyIfGone WalksAgree
