CONSTANTS
    None = None
    Requests = {r1, r2}
    Limits <- MCRestarting
    MaxLate = 1

SPECIFICATION Spec

SYMMETRY MCSymmetry

PROPERTIES
    FailedResumeIsMarked
