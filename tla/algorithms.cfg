\* Lists of up to six of two leaves; every text of up to five of eight symbols,
\* a second character for one of them, the padding and a character base64 skips;
\* up to three options; identifiers of up to six pieces, some of them too long.
SPECIFICATION Spec
CONSTANTS
    Leaves = {acta, other}
    MaxLeaves = 6
    ByteBits = 4
    SymbolBits = 3
    NonceBytes = 1
    acta1 = acta1
    acta2 = acta2
    Sealed <- Prints
    Alias <- Standard
    slash = slash
    Pad = Pad
    Junk = Junk
    InvalidCode = InvalidCode
    MaxText = 5
    MaxVotes = 3
    MaxOptions = 3
    Alphanumeric = {"a", "l"}
    MaxLength = 9
    MaxPieces = 6
    Root <- Place
    Links <- Away
INVARIANTS
    RootIsTheTree
    RootDeterminesTheSheets
    OneSpellingPerCode
    AcceptedCanBeShown
    StaysInCustody
CHECK_DEADLOCK FALSE
