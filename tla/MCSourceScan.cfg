SPECIFICATION Spec
CONSTANTS
    Procs = {p1, p2}
    Candidates = {"BASE", "WIDE"}
    Baseline = "BASE"
    SymbolOrder <- MCOrder
    Slots = 2
    Versions = {0, 1}
    Markets <- MCMarkets
    TrustedBases <- MCTrusted
    Step = 2
    WindowLength = 3
    MaxRuns = 3
    MaxHarms = 2
    None = None
SYMMETRY Processes
INVARIANTS
    ReportsAgree
    ReportCountsThePlanOnce
    SinkIsComplete
    GateOpensOnTheBaseline
    
CHECK_DEADLOCK FALSE
