\* One RMA beside the demonstration and the legacy order; the list has room for
\* the RMA received twice.  A request whose page has been left stays under way,
\* so two requests of one tab race like those of two.
SPECIFICATION Spec
CONSTANTS
    Tabs = {t1}
    Rmas = {"RMA-1"}
    DemoOrders <- DemoOrdersMC
    LegacyOrder = "OLD-1"
    MaxRequests = 2
    MaxOrders = 3
INVARIANTS
    MirrorIsCurrent
    CopiesAgree
    HistoryEndsWithStatus
PROPERTIES
    NothingIsForgotten
