\* Two browsers, one of which keeps copies, the page and the PDF; the signed
\* file, a version of it without the page, and the signed file back again.
SPECIFICATION FairSpec
CONSTANTS
    front = front
    signed = signed
    Browsers = {b1, b2}
    Keepers = {b1}
    Documents = {signed, edited}
    NoDoc = NoDoc
    Pages = {front, pdf}
    Pdf = pdf
    Printed <- Prints
    Unreadable = {}
    NoCopy = NoCopy
    MaxAge = 2
    MaxFlight = 1
    MaxChanges = 2
INVARIANTS
    TypeOK
    FilesAreAccountedFor
    PageIsTheOneAskedFor
    PageIsRecent
PROPERTY EveryPageIsAnswered
