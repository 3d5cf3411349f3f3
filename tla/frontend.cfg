\* Two taps on the rail, two downloads, one reload.
SPECIFICATION FFairSpec
CONSTANTS
    MaxTaps = 2
    MaxReloads = 1
    Downloads = {d1, d2}
INVARIANTS
    FTypeOK
    VeilMatchesSheets
    VerdictComesLast
    PanelMeansWork
PROPERTIES
    PageSettles
    ButtonsComeBack
CHECK_DEADLOCK FALSE
