---------------------------- MODULE ViewerHistory ----------------------------
(***************************************************************************)
(* Viewer with a witness per request, for the properties that relate an    *)
(* answer to what was true while it was being prepared: whether the world  *)
(* moved since the request arrived, and whether custody or the service     *)
(* failed it.  The witness is never read by the program.                   *)
(***************************************************************************)
EXTENDS Viewer

VARIABLE witness

hvars == <<vars, witness>>

\* The file in custody is one the viewer can find the right attestation of:
\* the issuer sealed it and, on the public route, nobody sealed it later.
Findable(d) ==
    \E row \in VisibleRows(d) : Attests(d, row)

\* What resolve() and to_view make of the world as it is, with no failure.
CurrentView(c) ==
    IF Decode[c] = NoIdentifier THEN NotFoundView
    ELSE LET d == custody[Decode[c]]
         IN  IF d # NoDoc /\ Findable(d)
             THEN ToView(d, CHOOSE row \in VisibleRows(d) : TRUE)
             ELSE PendingView

Unmoved == [moved |-> FALSE, faulted |-> FALSE]

HInit ==
    /\ Init
    /\ witness = [r \in Requests |-> Unmoved]

HArrive(r) ==
    /\ Arrive(r)
    /\ witness' = [witness EXCEPT ![r] = Unmoved]

HProceed(r) ==
    /\ \/ FetchFound(r) \/ FetchMissing(r) \/ LookupMisses(r)
       \/ \E row \in Rows :
             LookupAnswers(r, row) /\ row \in VisibleRows(req[r].doc)
       \/ CountPages(r) \/ CountFails(r)
    /\ UNCHANGED witness

HFault(r) ==
    /\ \/ FetchFails(r) \/ LookupFails(r) \/ LookupCrashes(r)
       \/ \E row \in Rows :
             LookupAnswers(r, row) /\ row \notin VisibleRows(req[r].doc)
    /\ witness' = [witness EXCEPT ![r].faulted = TRUE]

HRestart ==
    /\ Restart
    /\ witness' = [r \in Requests |->
                     [witness[r] EXCEPT !.faulted = @ \/ InFlight(r)]]

HWorld ==
    /\ WorldStep
    /\ witness' = [r \in Requests |-> [witness[r] EXCEPT !.moved = TRUE]]

HTick == Tick /\ UNCHANGED witness

HNext ==
    \/ \E r \in Requests : HArrive(r) \/ HProceed(r) \/ HFault(r)
    \/ HTick \/ HWorld \/ HRestart

HSpec == HInit /\ [][HNext]_hvars
-----------------------------------------------------------------------------
\* Answered with no failure, the world having stood still meanwhile.
Steady(r) ==
    /\ req[r].pc = "answered"
    /\ ~witness[r].moved
    /\ ~witness[r].faulted

Servable(d) == d \notin Unreadable \cup Unviewable

(***************************************************************************)
(* A genuine sheet is not withheld: while custody holds a file for which   *)
(* the issuer's row can be found, a citizen who asks and meets no failure  *)
(* is told so, whatever the cache holds and whoever else sealed the file.  *)
(***************************************************************************)
GenuineIsReported ==
    \A r \in Requests :
        /\ Steady(r)
        /\ req[r].kind = "record" \/ (req[r].kind = "index" /\ req[r].code \in WellFormed)
        /\ CurrentView(req[r].code).status = "verified"
        /\ Servable(custody[Decode[req[r].code]])
        => req[r].view.status = "verified"

(***************************************************************************)
(* The Open Graph description of the page is never out of date: index goes *)
(* through the whole chain, so a steady world is described exactly.        *)
(***************************************************************************)
PageIsCurrent ==
    \A r \in Requests :
        /\ Steady(r)
        /\ req[r].kind = "index" /\ req[r].code \in WellFormed
        /\ req[r].view # FailedView
        => req[r].view = CurrentView(req[r].code)

(***************************************************************************)
(* With a token the lookup is scoped to the entity's own rows, so nobody   *)
(* hides a sheet by sealing its file later under another account.          *)
(***************************************************************************)
ImpostorCannotHide ==
    \A r \in Requests :
        /\ Steady(r)
        /\ req[r].kind = "record"
        /\ Decode[req[r].code] # NoIdentifier
        /\ LET d == custody[Decode[req[r].code]]
           IN  <<ExpectedIssuer, d>> \in sealed /\ Servable(d)
        => req[r].view.status = "verified"
=============================================================================
