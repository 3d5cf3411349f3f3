----------------------------- MODULE MCPageCache -----------------------------
(***************************************************************************)
(* Small instances of PageCache: a signed PDF of a page, a version of it   *)
(* without that page, and one that does not open.                          *)
(***************************************************************************)
EXTENDS PageCache

CONSTANTS front, signed

Prints == [d \in Documents |-> IF d = signed THEN {front, Pdf} ELSE {Pdf}]
=============================================================================
