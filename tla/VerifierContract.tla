--------------------------- MODULE VerifierContract ---------------------------
(***************************************************************************)
(* What the viewer promises a citizen, with nothing of how it works:       *)
(* custody has held some files for each sheet, some accounts have sealed   *)
(* some files, and whatever the citizen is answered is warranted by the    *)
(* two at that moment.  There is no cache, no request under way and no     *)
(* failure here, only the answers.                                         *)
(***************************************************************************)
CONSTANTS Clients, Codes, Identifiers, Contents, Accounts,
          NoIdentifier, NoAccount, Decode, ExpectedIssuer, Silent

VARIABLES held, sealed, answers

cvars == <<held, sealed, answers>>

\* The electoral body sealed the file or, with no expected issuer configured,
\* somebody did.
Attested(d) ==
    IF ExpectedIssuer # NoAccount THEN <<ExpectedIssuer, d>> \in sealed
    ELSE \E a \in Accounts : <<a, d>> \in sealed

HeldFor(c, d) == Decode[c] # NoIdentifier /\ d \in held[Decode[c]]

(***************************************************************************)
(* "verified" names a file that custody held for the very sheet the code   *)
(* deciphers to and that the electoral body sealed; a PDF handed out is    *)
(* one of that sheet's files; a code that does not decipher is never       *)
(* answered as if it named a sheet.                                        *)
(***************************************************************************)
Warranted(a) ==
    /\ a.status = "verified" => HeldFor(a.code, a.evidence) /\ Attested(a.evidence)
    /\ a.status = "sent" => HeldFor(a.code, a.evidence)
    /\ Decode[a.code] = NoIdentifier => a.status \in {"not_found", "failed"}

Init ==
    /\ held = [i \in Identifiers |-> {}]
    /\ sealed = {}
    /\ answers = [p \in Clients |-> Silent]

\* Files are deposited and rows registered; neither is ever forgotten.
Publish ==
    /\ \A i \in Identifiers : held[i] \subseteq held'[i]
    /\ sealed \subseteq sealed'
    /\ UNCHANGED answers

\* Some clients are answered, others fall silent while they ask anew.
Serve ==
    /\ \A p \in Clients :
          answers'[p] \in {Silent, answers[p]} \/ Warranted(answers'[p])
    /\ UNCHANGED <<held, sealed>>

Next == Publish \/ Serve

Spec == Init /\ [][Next]_cvars
===============================================================================
