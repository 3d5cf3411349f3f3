\* No token: the public route, another account that seals the same files, and
\* a service that may answer the wrong row; three codes of two sheets and a
\* forged one, against a cache that is full at two entries; a file the PDF
\* library cannot open and one whose row to_view raises on.
SPECIFICATION FairSpec
CONSTANTS
    forged = forged
    foreign = foreign
    sheet2 = sheet2
    sheet = sheet
    Identifiers = {sheet, sheet2}
    Contents = {original, edited, blank}
    Accounts = {entity, other}
    NoDoc = NoDoc
    NoAccount = NoAccount
    Token = NoAccount
    StrayAnswers = TRUE
    MaxChanges = 3
    Codes = {code1,code2,foreign,forged}
    NoIdentifier = NoIdentifier
    Decode <- Sheets
    ExpectedIssuer = entity
    Unreadable = {edited}
    Unviewable = {blank}
    Requests = {r1}
    WellFormed = {code1, forged}
    NoEntry = NoEntry
    TTL = 1
    CacheMax = 1
    MaxFlight = 1
    MaxTime = 2
INVARIANTS
    VerifiedIsGenuine
    CacheIsBounded
PROPERTIES
    KeepsContract
    EveryRequestIsAnswered
