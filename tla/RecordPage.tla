----------------------------- MODULE RecordPage -----------------------------
(***************************************************************************)
(* The page in the browser: web/js/app.js, which loads the dictionary and  *)
(* the record and mounts the views, the sheets that slide over the page,   *)
(* and the verification sequence of web/js/views/verification.js.          *)
(*                                                                         *)
(* Handlers run to their next await.  Between two timers of the sequence   *)
(* the citizen may tap anything, close the sheet, or reload the page.      *)
(***************************************************************************)
EXTENDS Naturals, FiniteSets

CONSTANTS
    MaxTaps,      \* bound on the taps on the verification rail of one page
    MaxReloads    \* bound on the reloads

ASSUME TapsAssumption == MaxTaps \in Nat /\ MaxReloads \in Nat

\* What _signature of the record service may report: it looks for the bytes
\* of a signature and never validates one.
Signatures == {"unsigned", "unverified"}

\* What GET api/records/{code} may answer: a view, a 404, or anything else.
\* results is null when the sealed figures could not be decoded.
Records ==
    [status : {"verified"}, signature : Signatures, results : BOOLEAN]
        \cup [status : {"pending", "missing", "failed", "none"},
              signature : {"none"}, results : {FALSE}]

Nothing == [status |-> "none", signature |-> "none", results |-> FALSE]

Sheets   == {"results", "share", "verify"}
Screens  == {"blank", "record", "no_code", "pending", "not_found", "unavailable"}
Verdicts == {"none", "ok", "unsigned", "warning"}
Steps    == 1..4
Taps     == 1..MaxTaps

VARIABLES
    hasCode,    \* the address carries a code
    reloads,
    page,       \* how far boot() is, the screen, its controls, the record
    sheets,     \* which sheets are open, the veil, aria-expanded
    rail,       \* state.verified, the taps so far, the label
    walk,       \* how far the sequence that each tap started is
    shown,      \* the steps, their folding and the verdict in the sheet
    sharing     \* the system's own share dialog is open

vars == <<hasCode, reloads, page, sheets, rail, walk, shown, sharing>>

NewPage   == [boot |-> "dictionary", screen |-> "blank", chrome |-> FALSE, record |-> Nothing]
NoSheet   == [open |-> {}, veil |-> FALSE, expanded |-> FALSE]
NewRail   == [verified |-> FALSE, taps |-> 0, label |-> "none"]
NoWalk    == [t \in Taps |-> 0]
NothingShown == [steps |-> [k \in Steps |-> "idle"], folded |-> FALSE, verdict |-> "none"]

Init ==
    /\ hasCode \in BOOLEAN /\ reloads = 0
    /\ page = NewPage /\ sheets = NoSheet /\ sharing = FALSE
    /\ rail = NewRail /\ walk = NoWalk /\ shown = NothingShown

\* The language control navigates to the same page too.
Reload ==
    /\ reloads < MaxReloads
    /\ reloads' = reloads + 1
    /\ page' = NewPage /\ sheets' = NoSheet /\ sharing' = FALSE
    /\ rail' = NewRail /\ walk' = NoWalk /\ shown' = NothingShown
    /\ UNCHANGED hasCode
-----------------------------------------------------------------------------
OnlyPage == UNCHANGED <<hasCode, reloads, sheets, rail, walk, shown, sharing>>

\* The dictionary arrived: the controls of every screen are wired.
DictionaryLoads ==
    /\ page.boot = "dictionary"
    /\ page' = IF hasCode
               THEN [page EXCEPT !.boot = "record", !.chrome = TRUE]
               ELSE [page EXCEPT !.boot = "done", !.chrome = TRUE, !.screen = "no_code"]
    /\ OnlyPage

\* It did not: boot() is left before it wires anything.
DictionaryFails ==
    /\ page.boot = "dictionary"
    /\ page' = [page EXCEPT !.boot = "done", !.screen = "unavailable"]
    /\ OnlyPage

\* Mutant: what raises leaves the page blank.
BlankWithoutFigures(r) ==
    CASE r.status = "verified" -> IF r.results THEN "record" ELSE "blank"
      [] r.status = "pending"  -> "pending"
      [] r.status = "missing"  -> "not_found"
      [] OTHER                 -> "unavailable"

\* The screen for an answer.  A verified record without figures raises at the
\* note on the votes, before anything is mounted.
ScreenFor(r) ==
    CASE r.status = "verified" -> IF r.results THEN "record" ELSE "unavailable"
      [] r.status = "pending"  -> "pending"
      [] r.status = "missing"  -> "not_found"
      [] OTHER                 -> "unavailable"

RecordArrives(r) ==
    /\ page.boot = "record"
    /\ r.status # "none"
    /\ page' = [page EXCEPT !.boot = "done", !.record = r, !.screen = ScreenFor(r)]
    /\ OnlyPage
-----------------------------------------------------------------------------
OnRecord == page.screen = "record"

CloseSheets == sheets' = NoSheet

\* Mutant: the sheet that was open is left open.
OpenOver(id) == sheets' = [sheets EXCEPT !.open = @ \cup {id}, !.veil = TRUE]

OpenSheet(id) == sheets' = [NoSheet EXCEPT !.open = {id}, !.veil = TRUE]

OnlySheets == UNCHANGED <<hasCode, reloads, page, rail, walk, shown, sharing>>

\* The veil, or a cross.
TapClose == OnRecord /\ sheets.veil /\ CloseSheets /\ OnlySheets

TapResults ==
    /\ OnRecord
    /\ IF "results" \in sheets.open THEN CloseSheets
       ELSE sheets' = [open |-> {"results"}, veil |-> TRUE, expanded |-> TRUE]
    /\ OnlySheets

\* Without a share dialog, or if it refuses, the page's own sheet opens; one
\* that is open already refuses a second.
TapShare ==
    /\ OnRecord
    /\ \/ ~sharing /\ sharing' = TRUE /\ UNCHANGED sheets
       \/ OpenSheet("share") /\ UNCHANGED sharing
    /\ UNCHANGED <<hasCode, reloads, page, rail, walk, shown>>

\* The dialog is used, or dismissed, or fails long after it was opened.
ShareEnds ==
    /\ sharing
    /\ sharing' = FALSE
    /\ OpenSheet("share") \/ UNCHANGED sheets
    /\ UNCHANGED <<hasCode, reloads, page, rail, walk, shown>>
-----------------------------------------------------------------------------
Tap == rail.taps + 1

\* Mutant: the result is remembered when the sequence has ended.
RememberAtEnd ==
    /\ OnRecord /\ rail.taps < MaxTaps
    /\ OpenSheet("verify")
    /\ rail' = [rail EXCEPT !.taps = Tap]
    /\ IF rail.label # "none" THEN UNCHANGED <<walk, shown>>
       ELSE /\ walk' = [walk EXCEPT ![Tap] = 1]
            /\ shown' = [shown EXCEPT !.steps[1] = "busy"]
    /\ UNCHANGED <<hasCode, reloads, page, sharing>>

\* state.verified is set before the sequence is awaited.
TapRail ==
    /\ OnRecord /\ rail.taps < MaxTaps
    /\ OpenSheet("verify")
    /\ rail' = [rail EXCEPT !.taps = Tap, !.verified = TRUE]
    /\ IF rail.verified THEN UNCHANGED <<walk, shown>>
       ELSE /\ walk' = [walk EXCEPT ![Tap] = 1]
            /\ shown' = [shown EXCEPT !.steps[1] = "busy"]
    /\ UNCHANGED <<hasCode, reloads, page, sharing>>

\* Mutant: the status is taken for the verdict.
StatusAsVerdict(signature) == signature

\* The verdict is computed from the signature twice, for the sheet and for
\* the label of the rail; anything not valid nor unsigned is a warning.
VerdictOn(signature) ==
    IF signature = "valid" THEN "ok"
    ELSE IF signature = "unsigned" THEN "unsigned" ELSE "warning"

Advance(t) ==
    /\ walk' = [walk EXCEPT ![t] = @ + 1]
    /\ UNCHANGED <<hasCode, reloads, page, sheets, sharing>>

\* A timer ends: the step is ticked and the next one begins.
StepEnds(t) ==
    /\ walk[t] \in Steps
    /\ shown' = [shown EXCEPT !.steps =
                    [k \in Steps |-> IF k = walk[t] THEN "done"
                                     ELSE IF k = walk[t] + 1 THEN "busy" ELSE @[k]]]
    /\ Advance(t)
    /\ UNCHANGED rail

Fold(t) ==
    /\ walk[t] = 5
    /\ shown' = [shown EXCEPT !.folded = TRUE]
    /\ Advance(t)
    /\ UNCHANGED rail

GiveVerdict(t) ==
    /\ walk[t] = 6
    /\ shown' = [shown EXCEPT !.verdict = VerdictOn(page.record.signature)]
    /\ rail' = [rail EXCEPT !.label = VerdictOn(page.record.signature)]
    /\ Advance(t)
-----------------------------------------------------------------------------
Boot == DictionaryLoads \/ DictionaryFails \/ \E r \in Records : RecordArrives(r)

Sequence == \E t \in Taps : StepEnds(t) \/ Fold(t) \/ GiveVerdict(t)

Next ==
    \/ Boot \/ Sequence \/ Reload
    \/ TapClose \/ TapResults \/ TapRail \/ TapShare \/ ShareEnds

Spec == Init /\ [][Next]_vars
-----------------------------------------------------------------------------
(***************************************************************************)
(* Type invariant.                                                         *)
(***************************************************************************)
TypeOK ==
    /\ hasCode \in BOOLEAN /\ sharing \in BOOLEAN
    /\ reloads \in 0..MaxReloads
    /\ page \in [boot : {"dictionary", "record", "done"}, screen : Screens,
                 chrome : BOOLEAN, record : Records]
    /\ sheets \in [open : SUBSET Sheets, veil : BOOLEAN, expanded : BOOLEAN]
    /\ rail \in [verified : BOOLEAN, taps : 0..MaxTaps, label : Verdicts]
    /\ walk \in [Taps -> 0..7]
    /\ shown \in [steps : [Steps -> {"idle", "busy", "done"}],
                  folded : BOOLEAN, verdict : Verdicts]

(***************************************************************************)
(* One sheet at a time, under a veil that is there exactly while it is: a  *)
(* veil left behind would block the page.  The share dialog may fail and   *)
(* open its sheet long after the citizen went on to another one.           *)
(***************************************************************************)
VeilMatchesSheets ==
    /\ Cardinality(sheets.open) <= 1
    /\ sheets.veil <=> sheets.open # {}
    /\ sheets.expanded <=> "results" \in sheets.open

(***************************************************************************)
(* The verdict comes last and stays: it is never next to a step still in   *)
(* progress, however often the rail is tapped while the sequence runs, and *)
(* the rail says what the sheet says.                                      *)
(***************************************************************************)
VerdictComesLast ==
    /\ rail.label = shown.verdict
    /\ shown.verdict # "none" =>
          shown.folded /\ \A k \in Steps : shown.steps[k] = "done"
    /\ Cardinality({k \in Steps : shown.steps[k] = "busy"}) <= 1

\* The page settles on a screen, and a sequence that was started ends in a
\* verdict unless the page is reloaded first.
PageSettles ==
    /\ (page.screen = "blank") ~> (page.screen # "blank")
    /\ rail.verified ~> (shown.verdict # "none" \/ ~rail.verified)
=============================================================================
