\* A token of the entity's account; another account seals the same files.
SPECIFICATION HSpec
CONSTANTS
    forged = forged
    sheet = sheet
    Identifiers = {sheet}
    Contents = {original, edited}
    Accounts = {entity, other}
    NoDoc = NoDoc
    NoAccount = NoAccount
    Token = entity
    StrayAnswers = FALSE
    MaxChanges = 3
    Codes = {code1}
    NoIdentifier = NoIdentifier
    Decode <- OneSheet
    ExpectedIssuer = entity
    Unreadable = {}
    Unviewable = {edited}
    Requests = {r1, r2}
    WellFormed = {code1}
    NoEntry = NoEntry
    TTL = 1
    CacheMax = 5
    MaxFlight = 1
    MaxTime = 2
INVARIANTS
    TypeOK
    VerifiedIsGenuine
    EvidenceIsRecent
    GenuineIsReported
    PageIsCurrent
    ImpostorCannotHide
