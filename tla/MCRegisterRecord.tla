--------------------------- MODULE MCRegisterRecord ---------------------------
(***************************************************************************)
(* A small instance of RegisterRecord: the results of a station, the same  *)
(* with a figure corrected, figures that do not add up, and the data of    *)
(* another station.                                                        *)
(***************************************************************************)
EXTENDS RegisterRecord

CONSTANTS ours, theirs

Figures(station, options, valid, blank) ==
    [station |-> station, options |-> options, valid |-> valid, null |-> 0,
     blank |-> blank, voters |-> valid + blank, eligible |-> 4]

Identified(station) == [station |-> station, wellFormed |-> TRUE]

Papers ==
    {[results |-> Figures(ours, <<2, 1>>, 3, 0), data |-> Identified(ours)],
     [results |-> Figures(ours, <<1, 1>>, 2, 1), data |-> Identified(ours)],
     [results |-> Figures(ours, <<1, 1>>, 3, 0), data |-> Identified(ours)],
     [results |-> Figures(theirs, <<2, 1>>, 3, 0), data |-> Identified(ours)]}

NoCodes == [c \in Codes |-> NoIdentifier]
=============================================================================
