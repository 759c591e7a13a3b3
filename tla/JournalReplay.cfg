SPECIFICATION FairSpec
CONSTANTS
    a = a
    b = b
    n1 = n1
    n2 = n2
    p1 = p1
    p2 = p2
    w = w
    e1 = e1
    e2 = e2
    NoEnvelope = NoEnvelope
    Envelopes = {e1, e2}
    CommandIds = {a, b}
    Nonces = {n1, n2}
    IdOf <- BothIds
    NonceOf <- RepeatedNonces
    PinOf <- FirstPin
    IssuedAt <- BothIssued
    ExpiresAt <- BothExpires
    Watches = {w}
    FirstPins = {p1}
    Pins = {p1}
    WatchOf <- OnePinWatch
    TupleOf <- OnePinTuple
    MaxTtl = 1
    ClockSkew = 2
    ReceiptRetention = 7
    Horizon = 5
    MaxSetBacks = 1
    MaxCrashes = 1
    MaxUnlinks = 0
    MaxBuilds = 2
INVARIANTS
    AtMostOnceDispatch
PROPERTIES
    OutcomeIsFinal
    PipelineSettles
