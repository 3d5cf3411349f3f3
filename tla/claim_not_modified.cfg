\* A browser reads a file another request is writing, and comes back.
SPECIFICATION Spec
CONSTANTS
    front = front
    signed = signed
    Browsers = {b1, b2}
    Keepers = {b1, b2}
    Documents = {signed}
    NoDoc = NoDoc
    Pages = {front, pdf}
    Pdf = pdf
    Printed <- Prints
    Unreadable = {}
    NoCopy = NoCopy
    MaxAge = 1
    MaxFlight = 1
    MaxChanges = 1
INVARIANT NotModifiedMeansItHasIt
