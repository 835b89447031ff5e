CONSTANTS
    c1 = c1
    c2 = c2
    k1 = k1
    k2 = k2
    Callers = {c1, c2}
    Keys = {k1, k2}
    Payloads <- MCPayloads
    Stores <- MCStores
    MaxIndex = 2
    MaxSize = 2
    MaxTransit = 2
    MaxDamage = 1
SPECIFICATION FairSpec
INVARIANTS AcceptedOnce VerifiersAreExact
PROPERTY CallersReturn
