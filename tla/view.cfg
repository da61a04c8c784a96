CONSTANTS
    Views = {"row", "tab"}
    Tools = {search, drive}
    Quotes = {"real", "mock", "none"}
    MaxInspects = 3
    MaxReturns = 1
SPECIFICATION Spec
SYMMETRY Symmetry
INVARIANTS NoSpinnerLeft NoRequestStorm GreenUnlessExcused ReportUnlessExcused FreshnessOfShownReport
CHECK_DEADLOCK FALSE
