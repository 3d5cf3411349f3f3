\* Two addresses; a sweep comes round before a bucket has refilled.
SPECIFICATION Spec
CONSTANTS
    Addresses = {a1, a2}
    NoBucket = NoBucket
    Burst = 2
    Cost = 3
    SweepEvery = 2
    Tenth = 1
    MaxTime = 14
INVARIANTS
    TypeOK
    NothingIsRemembered
PROPERTY KeepsBudget
