CONSTANTS
    None = None
    Requests = {r1, r2}
    Tokens = {t1, t2, t3}
    BootTokens = {b1, b2}

SPECIFICATION Spec

SYMMETRY MCSymmetry

INVARIANTS
    TypeOK
    OneExchangePerRun
    RetiredStaysRetired
    IssuedSurvivesRestart
    QuietMeansSaved

\* generate_token never runs dry; the three tokens of the instance do.
CHECK_DEADLOCK FALSE
