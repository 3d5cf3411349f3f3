\* Two chains, an arbitrary record, and a gateway that may answer a wrong block.
SPECIFICATION FairSpec
CONSTANTS
    File = acta
    other = other
    third = third
    good = good
    foreign = foreign
    rollux = rollux
    lacchain = lacchain
    Evidences = {acta, other}
    Chains <- Networks
    Cids = {good, foreign}
    NoCid = NoCid
    Published <- Blocks
    Served <- Fickle
    Mentions <- Inputs
    NoRecord = NoRecord
    WithIssuer = TRUE
INVARIANTS
    TypeOK
    VerifiedIsAnchored
    InventedIsExposed
    SoundIsVerified
PROPERTY EveryRunEnds
CHECK_DEADLOCK FALSE
