\* Every window of an address, and every wait it is told: one token takes 1.1
\* seconds, so that a wait spans whole seconds, and a tick is a twentieth of a
\* second, so that waits are rounded.
SPECIFICATION WSpec
CONSTANTS
    Addresses = {a1}
    NoBucket = NoBucket
    Burst = 2
    Cost = 22
    SweepEvery = 3
    Tenth = 2
    MaxTime = 52
INVARIANTS
    AnyWindowIsBounded
    RetryAfterSuffices
