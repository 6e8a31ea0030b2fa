CONSTANTS
    None = None
    Requests = {r1, r2}
    ProviderOrder <- MCProviderOrder
    AutoInstall = TRUE
    PinMaxAttempts = 2
    MaxTunnels = 2
    MaxCrashes = 1

SPECIFICATION Spec

INVARIANTS
    InviteIsBounded
    NoTunnelLeftBehind
    ShareHasItsTunnel

PROPERTIES
    StartsAreAnswered
