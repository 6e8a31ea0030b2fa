CONSTANTS
    None = None
    Requests = {r1, r2}
    Limits <- MCLimits
    MaxLate = 1

SPECIFICATION Spec

SYMMETRY MCSymmetry

INVARIANTS
    TypeOK
    StaleIsNotAttached
    LeakNeedsOverlap
    NoSilentLoss
