---------------------------- MODULE RecordService ----------------------------
(***************************************************************************)
(* The decisions of app/services/record_service.py: what a QR code, the    *)
(* file in custody and the row the attestation service answered add up to. *)
(* The waiting between those three steps is modelled in Viewer.            *)
(*                                                                         *)
(* A view keeps what the properties tell apart: its status, the evidence   *)
(* it shows the citizen, and whether it shows chain anchors.  Every other  *)
(* field is a formatting of the same row.                                  *)
(***************************************************************************)
EXTENDS Upstream

CONSTANTS
    Codes,            \* codes a QR may carry, forged ones included
    NoIdentifier,     \* decoding failed
    Decode,           \* Decode[c]: what CodeCipher.decode recovers from c
    ExpectedIssuer,   \* settings.expected_issuer_id; NoAccount when empty
    Unreadable,       \* contents the PDF library cannot open
    Unviewable        \* contents whose row carries data to_view raises on

ASSUME NoIdentifierAssumption == NoIdentifier \notin Identifiers
ASSUME DecodeAssumption  == Decode \in [Codes -> Identifiers \cup {NoIdentifier}]
ASSUME IssuerAssumption  == ExpectedIssuer \in Accounts \cup {NoAccount}
ASSUME ContentAssumption == Unreadable \cup Unviewable \subseteq Contents

\* RecordStatus has "altered" too; no code path produces it.  "none" stands
\* for no answer yet, "sent" for a PDF, "failed" for a 500 or a lost connection.
Statuses ==
    {"none", "verified", "pending", "altered", "not_found", "sent", "failed"}

View(status, evidence, anchors) ==
    [status |-> status, evidence |-> evidence, anchored |-> anchors]

Views == [status : Statuses, evidence : Contents \cup {NoDoc}, anchored : BOOLEAN]

NoView       == View("none", NoDoc, FALSE)
PendingView  == View("pending", NoDoc, FALSE)      \* to_view's bare base
NotFoundView == View("not_found", NoDoc, FALSE)    \* HTTP 404
FailedView   == View("failed", NoDoc, FALSE)       \* HTTP 500, or no answer
SentView(d)  == View("sent", d, FALSE)             \* the PDF itself

\* Mutant: an unexpected issuer is logged and let through.
IssuedByAnyone(row) == row.owner \in Accounts

(***************************************************************************)
(* The row has to belong to the electoral body; an empty setting turns the *)
(* comparison off.                                                         *)
(***************************************************************************)
IssuedByTheEntity(row) ==
    ExpectedIssuer # NoAccount => row.owner = ExpectedIssuer

\* Mutant: the evidence is not compared again.
IssuerOnly(d, row) == IssuedByTheEntity(row)

\* The two checks of resolve() on a row that was found for the file d.
Attests(d, row) == IssuedByTheEntity(row) /\ row.evidence = d

(***************************************************************************)
(* to_view of the record resolve() returns for file d and the row found.   *)
(* The evidence shown is the hash of the file read from custody; anchors   *)
(* are listed only when they exist.                                        *)
(***************************************************************************)
ToView(d, row) ==
    IF Attests(d, row) THEN View("verified", d, row.anchored) ELSE PendingView

(***************************************************************************)
(* Does to_view raise?  A row with a blank latitude reaches float("") in   *)
(* _location; nothing catches it and the request ends in a 500.            *)
(***************************************************************************)
ViewRaises(d, view) == view.status = "verified" /\ d \in Unviewable
=============================================================================
