\* A run and its retry, either of them a rehearsal; the file is signed, put in
\* custody, sealed by somebody else and signed again, in any order.
SPECIFICATION Spec
CONSTANTS
    ours = ours
    theirs = theirs
    Identifiers = {acta}
    Contents = {signed, resigned}
    Accounts = {onpe, other}
    NoDoc = NoDoc
    NoAccount = NoAccount
    Token = onpe
    StrayAnswers = FALSE
    MaxChanges = 4
    Codes = {}
    NoIdentifier = NoIdentifier
    Decode <- NoCodes
    ExpectedIssuer = onpe
    Unreadable = {}
    Unviewable = {}
    Runs = {first, retry}
    Sheet = acta
    Operator = onpe
    Inputs <- Papers
    NoInput = NoInput
INVARIANT WhoeverRegistersKeepsTheProof
CHECK_DEADLOCK FALSE
