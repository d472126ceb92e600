SPECIFICATION FairSpec
CONSTANTS
    Modes <- AllModes
INVARIANTS ServedRight BooksKept
PROPERTIES Served
CHECK_DEADLOCK FALSE
