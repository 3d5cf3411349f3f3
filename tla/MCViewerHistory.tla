--------------------------- MODULE MCViewerHistory ---------------------------
(***************************************************************************)
(* Small instances of ViewerHistory: one sheet with one QR code or two, a  *)
(* forged code, two files, the electoral body and another account.         *)
(***************************************************************************)
EXTENDS ViewerHistory

CONSTANTS forged, sheet

OneSheet == [c \in Codes |-> IF c = forged THEN NoIdentifier ELSE sheet]
==============================================================================
