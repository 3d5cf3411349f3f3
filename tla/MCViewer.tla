------------------------------ MODULE MCViewer ------------------------------
(***************************************************************************)
(* Small instances of Viewer.  Several QR codes of one sheet (the cipher   *)
(* draws a fresh nonce for every code), a code of another sheet, a forged  *)
(* code, two files, the electoral body and another account.                *)
(***************************************************************************)
EXTENDS Viewer

CONSTANTS forged, foreign, sheet, sheet2

Sheets ==
    [c \in Codes |-> IF c = forged THEN NoIdentifier
                     ELSE IF c = foreign THEN sheet2 ELSE sheet]
=============================================================================
