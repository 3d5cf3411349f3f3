\* What the verifier prints with VERIFICADA, with a gateway that does what it should.
SPECIFICATION Spec
CONSTANTS
    File = acta
    other = other
    third = third
    good = good
    foreign = foreign
    rollux = rollux
    lacchain = lacchain
    Evidences = {acta, other}
    Chains <- Networks
    Cids = {good, foreign}
    NoCid = NoCid
    Published <- Blocks
    Served <- Faithful
    Mentions <- Inputs
    NoRecord = NoRecord
    WithIssuer = TRUE
INVARIANT VerifiedIsWitnessed
CHECK_DEADLOCK FALSE
