SPECIFICATION Spec
CONSTANTS
    a = a
    b = b
    n1 = n1
    n2 = n2
    p1 = p1
    p2 = p2
    w = w
    e1 = e1
    e2 = e2
    NoEnvelope = NoEnvelope
    Envelopes = {e1, e2}
    CommandIds = {a, b}
    Nonces = {n1, n2}
    IdOf <- BothIds
    NonceOf <- FreshNonces
    PinOf <- PinPerCommand
    IssuedAt <- BothIssued
    ExpiresAt <- BothExpires
    Watches = {w}
    FirstPins = {p1}
    Pins = {p1, p2}
    WatchOf <- TwoPinWatch
    TupleOf <- TwoPinTuple
    MaxTtl = 1
    ClockSkew = 1
    ReceiptRetention = 4
    Horizon = 4
    MaxSetBacks = 0
    MaxCrashes = 2
    MaxUnlinks = 1
    MaxBuilds = 2
INVARIANTS
    OneReceiptPerCommand
    ReceiptsTellTheTruth
    ReferencedPinsAreKept
CHECK_DEADLOCK FALSE
