\* Three fields: one between a first and a last, and a chain of changes.  The
\* code looks three times after each movement, as here.
SPECIFICATION DSpec
CONSTANTS
    Plan <- PlanMC
    Cascade <- CascadeMC
    Looks = 3
INVARIANTS
    DryRunStaysHere
    OkMeansUntouched
    FoundWasWatched
    PageHandedBack
PROPERTIES
    CallsSettle
