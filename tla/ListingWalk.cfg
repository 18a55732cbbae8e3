\* Tables of up to three rows and one more, three changes while a list is read.
CONSTANTS
    Names <- MCNames
    Searches <- MCSearches
    Words <- MCWords
    Limits = {0, 3}
    DefaultLimit = 1
    MaxAllowed = 2
    MaxRows = 3
    MaxEdits = 3
    None = None
SPECIFICATION Spec
INVARIANTS TypeOK WalkInv NothingMissed NothingRepeated
PROPERTIES PagesAreToTheQuestion
CHECK_DEADLOCK FALSE
