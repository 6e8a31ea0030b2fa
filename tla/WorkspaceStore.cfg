CONSTANTS
    None = None
    Requests = {r1}
    Offered <- MCAll
    Ids = {i1, i2, i3}
    Paths <- MCPaths
    Sessions = {s1}
    Names = {n1, n2}
    Labels = {l1, l2}
    FirstName = n1
    FirstLabel = l1
    Canonical <- MCCanonical

SPECIFICATION Spec

SYMMETRY MCSymmetry

INVARIANTS
    TypeOK

PROPERTIES
    ImplementsWorkspaces
