CONSTANTS
    None = None
    Requests = {r1, r2}
    Offered <- MCOverlapping
    Ids = {i1, i2}
    Paths <- MCPaths
    Sessions = {s1}
    Names = {n1}
    Labels = {l1}
    FirstName = n1
    FirstLabel = l1
    Canonical <- MCCanonical

SPECIFICATION Spec

SYMMETRY MCSymmetry

INVARIANTS
    RegistrationSurvives
    RegistryAgreesWithDisk
    SessionsStayHome
