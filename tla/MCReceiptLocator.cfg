\* All tables of two rows, the fixed layer in line or a quarter of a row off.
SPECIFICATION LSpec
CONSTANTS
    N = 2
    Height = 4
    Shifts <- ShiftsMC
INVARIANTS
    MappedControlIsTheRows
    PendingActionIsNoGuess
    SearchesAgree
\* Both searches have answered.
CHECK_DEADLOCK FALSE
