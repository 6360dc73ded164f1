SPECIFICATION Spec
CONSTANTS
    ge = ge
    Filters <- MCFilters
    CaseConfigs <- MCCaseConfigs
    NoFilter = NoFilter
    Other = Other
    None = None
    N = 5
    INSERT_BATCH = 2
    K = 10
    MaxCalls = 3
INVARIANTS
    TypeOK
    ReportIsTrue
    WiresAgree
    SearchIsTheCase
    DropMeansNew
    ProvenWireIsKept
