SPECIFICATION HistorySpec
CONSTANTS
    Expense = {1, 2, 3}
    Tab = {t1, t2}
    Value <- SomeValues
    Acceptable <- SomeAccepted
    Confirmed <- SomeConfirmed
    Patches <- SomePatches
    NoRow = NoRow
    MaxClock = 2
    MaxChanges = 2
    Filters <- AllAndSome
    PageSizes = {1, 2}
CONSTRAINT Apart
SYMMETRY Symmetry
INVARIANTS ChangesTellTheStory ShownOnce
PROPERTIES NoForeignOverwrite
