--------------------------- MODULE FrontendProofs ---------------------------
(***************************************************************************)
(* Proofs about Frontend, and so about RecordPage and Download, for any    *)
(* number of taps, downloads and reloads.                                  *)
(***************************************************************************)
EXTENDS Frontend, FiniteSetTheorems, TLAPS

\* What the sequence shows when it has come to place w.
StepAt(k, w) == IF k < w THEN "done" ELSE IF k = w THEN "busy" ELSE "idle"

ShownAt(w) ==
    /\ \A k \in Steps : shown.steps[k] = StepAt(k, w)
    /\ shown.folded <=> w >= 6
    /\ shown.verdict # "none" <=> w = 7

PageInv ==
    /\ hasCode \in BOOLEAN /\ sharing \in BOOLEAN
    /\ reloads \in 0..MaxReloads
    /\ page \in [boot : {"dictionary", "record", "done"}, screen : Screens,
                 chrome : BOOLEAN, record : Records]

\* No sheet, or one with its veil.
SheetInv ==
    \/ sheets = NoSheet
    \/ \E id \in Sheets :
          sheets = [open |-> {id}, veil |-> TRUE, expanded |-> id = "results"]

RailInv ==
    /\ rail \in [verified : BOOLEAN, taps : 0..MaxTaps, label : Verdicts]
    /\ shown \in [steps : [Steps -> {"idle", "busy", "done"}],
                  folded : BOOLEAN, verdict : Verdicts]
    /\ rail.label = shown.verdict
    /\ rail.verified <=> rail.taps > 0

(***************************************************************************)
(* Only the first tap on the rail of a page starts a sequence, so that the *)
(* sheet shows how far that one is.                                        *)
(***************************************************************************)
WalkInv ==
    /\ walk \in [Taps -> 0..7]
    /\ \A t \in Taps : walk[t] # 0 => t = 1 /\ rail.verified /\ ShownAt(walk[t])
    /\ IF rail.verified THEN \E t \in Taps : walk[t] # 0 ELSE ShownAt(0)

Inv == PageInv /\ SheetInv /\ RailInv /\ WalkInv
-----------------------------------------------------------------------------
LEMMA TapFact == ASSUME NEW t \in Taps PROVE t \in Nat /\ t >= 1 /\ t <= MaxTaps /\ 1 \in Taps
  BY TapsAssumption DEF Taps

LEMMA NewPageInv ==
  ASSUME hasCode' \in BOOLEAN, reloads' \in 0..MaxReloads,
         page' = NewPage, sheets' = NoSheet, sharing' = FALSE,
         rail' = NewRail, walk' = NoWalk, shown' = NothingShown
  PROVE  Inv'
<1>1. PageInv'
  BY DEF PageInv, NewPage, Screens, Records, Nothing
<1>2. SheetInv'
  BY DEF SheetInv
<1>3. RailInv'
  BY TapsAssumption DEF RailInv, NewRail, NothingShown, Verdicts
<1>4. ShownAt(0)'
  BY DEF ShownAt, NothingShown, StepAt, Steps
<1>5. rail'.verified = FALSE /\ walk' = [t \in Taps |-> 0]
  BY DEF NewRail, NoWalk
<1>6. WalkInv'
  BY <1>4, <1>5 DEF WalkInv
<1> QED
  BY <1>1, <1>2, <1>3, <1>6 DEF Inv

LEMMA InitInv == Init => Inv
<1> SUFFICES ASSUME Init PROVE Inv
  OBVIOUS
<1>1. PageInv
  <2>1. hasCode \in BOOLEAN /\ page = NewPage /\ sharing = FALSE
    BY DEF Init
  <2>2. reloads \in 0..MaxReloads
    BY TapsAssumption DEF Init
  <2>3. page \in [boot : {"dictionary", "record", "done"}, screen : Screens,
                  chrome : BOOLEAN, record : Records]
    BY <2>1 DEF NewPage, Screens, Records, Nothing
  <2> QED
    BY <2>1, <2>2, <2>3 DEF PageInv
<1>2. SheetInv
  BY DEF Init, SheetInv
<1>3. RailInv
  BY TapsAssumption DEF Init, RailInv, NewRail, NothingShown, Verdicts
<1>4. ShownAt(0)
  BY DEF Init, ShownAt, NothingShown, StepAt, Steps
<1>5. rail.verified = FALSE /\ walk = [t \in Taps |-> 0]
  BY DEF Init, NewRail, NoWalk
<1>6. WalkInv
  BY <1>4, <1>5 DEF WalkInv
<1> QED
  BY <1>1, <1>2, <1>3, <1>6 DEF Inv

\* boot() touches the screen alone.
LEMMA BootInv == ASSUME Inv, Boot PROVE Inv'
<1>1. UNCHANGED <<hasCode, reloads, sheets, rail, walk, shown, sharing>>
  BY DEF Boot, DictionaryLoads, DictionaryFails, RecordArrives, OnlyPage
<1>2. PICK p : p = page
  OBVIOUS
<1>3. p \in [boot : {"dictionary", "record", "done"}, screen : Screens,
             chrome : BOOLEAN, record : Records]
  BY <1>2 DEF Inv, PageInv
<1>4. page' \in [boot : {"dictionary", "record", "done"}, screen : Screens,
                 chrome : BOOLEAN, record : Records]
  <2>1. CASE DictionaryLoads
    BY <1>2, <1>3, <2>1 DEF DictionaryLoads, Screens
  <2>2. CASE DictionaryFails
    BY <1>2, <1>3, <2>2 DEF DictionaryFails, Screens
  <2>3. ASSUME NEW r \in Records, RecordArrives(r)
        PROVE  page' \in [boot : {"dictionary", "record", "done"}, screen : Screens,
                          chrome : BOOLEAN, record : Records]
    <3>1. PICK screen : screen = ScreenFor(r)
      OBVIOUS
    <3>2. screen \in Screens
      BY <3>1 DEF ScreenFor, Screens
    <3>3. page' = [p EXCEPT !.boot = "done", !.record = r, !.screen = screen]
      BY <1>2, <2>3, <3>1 DEF RecordArrives
    <3> QED
      BY <1>3, <3>2, <3>3
  <2> QED
    BY <2>1, <2>2, <2>3 DEF Boot
<1>5. PageInv'
  BY <1>1, <1>4 DEF Inv, PageInv
<1>6. SheetInv' /\ RailInv' /\ WalkInv'
  BY <1>1 DEF Inv, SheetInv, RailInv, WalkInv, ShownAt
<1> QED
  BY <1>5, <1>6 DEF Inv

LEMMA OpenSheetFact ==
  ASSUME NEW id \in {"share", "verify"}, OpenSheet(id)
  PROVE  SheetInv'
<1>1. sheets' = [open |-> {id}, veil |-> TRUE, expanded |-> FALSE]
  BY DEF OpenSheet, NoSheet
<1>2. id \in Sheets /\ (id = "results") = FALSE
  BY DEF Sheets
<1> QED
  BY <1>1, <1>2 DEF SheetInv

\* What opens and closes sheets touches nothing else but the share dialog.
LEMMA SheetsInv ==
  ASSUME Inv, TapClose \/ TapResults \/ TapShare \/ ShareEnds
  PROVE  Inv'
<1>1. UNCHANGED <<hasCode, reloads, page, rail, walk, shown>> /\ sharing' \in BOOLEAN
  BY DEF Inv, PageInv, TapClose, TapResults, TapShare, ShareEnds, OnlySheets
<1>2. SheetInv'
  <2>1. CASE TapClose
    BY <2>1 DEF TapClose, CloseSheets, SheetInv
  <2>2. CASE TapResults
    BY <2>2 DEF TapResults, CloseSheets, SheetInv, Sheets
  <2>3. CASE TapShare
    <3>1. UNCHANGED sheets \/ OpenSheet("share")
      BY <2>3 DEF TapShare
    <3>2. ASSUME UNCHANGED sheets PROVE SheetInv'
      BY <3>2 DEF Inv, SheetInv
    <3> QED
      BY <3>1, <3>2, OpenSheetFact
  <2>4. CASE ShareEnds
    <3>1. UNCHANGED sheets \/ OpenSheet("share")
      BY <2>4 DEF ShareEnds
    <3>2. ASSUME UNCHANGED sheets PROVE SheetInv'
      BY <3>2 DEF Inv, SheetInv
    <3> QED
      BY <3>1, <3>2, OpenSheetFact
  <2> QED
    BY <2>1, <2>2, <2>3, <2>4
<1>3. PageInv' /\ RailInv' /\ WalkInv'
  BY <1>1 DEF Inv, PageInv, RailInv, WalkInv, ShownAt
<1> QED
  BY <1>2, <1>3 DEF Inv

LEMMA ReloadInv == ASSUME Inv, Reload PROVE Inv'
<1>1. hasCode' \in BOOLEAN
  BY DEF Inv, PageInv, Reload
<1>2. reloads' \in 0..MaxReloads
  BY TapsAssumption DEF Inv, PageInv, Reload
<1> QED
  BY <1>1, <1>2, NewPageInv DEF Reload
-----------------------------------------------------------------------------
\* The first tap of a page starts the sequence, and no other does.
LEMMA TapRailInv == ASSUME Inv, TapRail PROVE Inv'
<1>1. /\ UNCHANGED <<hasCode, reloads, page, sharing>> /\ OpenSheet("verify")
      /\ rail.taps < MaxTaps
  BY DEF TapRail
<1>2. PageInv' /\ SheetInv'
  BY <1>1, OpenSheetFact DEF Inv, PageInv
<1>3. /\ rail.taps \in Nat /\ rail.taps \in 0..MaxTaps /\ rail.verified \in BOOLEAN
      /\ rail.label \in Verdicts /\ rail.verified <=> rail.taps > 0
  BY TapsAssumption DEF Inv, RailInv
<1>4. PICK tap : tap = Tap
  OBVIOUS
<1>5. tap = rail.taps + 1 /\ tap \in Taps /\ tap \in 0..MaxTaps /\ tap > 0
  BY <1>1, <1>3, <1>4, TapsAssumption DEF Tap, Taps
<1>6. /\ rail' \in [verified : BOOLEAN, taps : 0..MaxTaps, label : Verdicts]
      /\ rail'.verified = TRUE /\ rail'.taps = tap /\ rail'.label = rail.label
  <2>1. PICK r \in [verified : BOOLEAN, taps : 0..MaxTaps, label : Verdicts] : r = rail
    BY DEF Inv, RailInv
  <2>2. rail' = [r EXCEPT !.taps = tap, !.verified = TRUE]
    BY <1>4, <2>1 DEF TapRail
  <2> QED
    BY <1>5, <2>1, <2>2
<1>7. CASE rail.verified
  <2>1. UNCHANGED <<walk, shown>>
    BY <1>7 DEF TapRail
  <2> QED
    BY <1>2, <1>5, <1>6, <1>7, <2>1 DEF Inv, RailInv, WalkInv, ShownAt
<1>8. CASE ~rail.verified
  <2>1. /\ walk' = [walk EXCEPT ![tap] = 1]
        /\ shown' = [shown EXCEPT !.steps[1] = "busy"]
    BY <1>4, <1>8 DEF TapRail
  <2>2. tap = 1 /\ \A t \in Taps : walk[t] = 0
    BY <1>3, <1>5, <1>8 DEF Inv, WalkInv
  <2>3. ShownAt(0)
    BY <1>8 DEF Inv, WalkInv
  <2>4. PICK s \in [steps : [Steps -> {"idle", "busy", "done"}],
                    folded : BOOLEAN, verdict : Verdicts] : s = shown
    BY DEF Inv, RailInv
  <2>5. PICK steps : steps = [s.steps EXCEPT ![1] = "busy"]
    OBVIOUS
  <2>6. steps \in [Steps -> {"idle", "busy", "done"}]
    BY <2>5 DEF Steps
  <2>7. shown' = [s EXCEPT !.steps = steps]
    BY <2>1, <2>4, <2>5
  <2>8. /\ shown' \in [steps : [Steps -> {"idle", "busy", "done"}],
                       folded : BOOLEAN, verdict : Verdicts]
        /\ shown'.steps = steps /\ shown'.folded = shown.folded
        /\ shown'.verdict = shown.verdict
    BY <2>4, <2>6, <2>7
  <2>9. \A k \in Steps : steps[k] = StepAt(k, 1)
    BY <2>3, <2>4, <2>5 DEF ShownAt, StepAt, Steps
  <2>10. ShownAt(1)'
    BY <2>3, <2>8, <2>9 DEF ShownAt
  <2>11. /\ walk' \in [Taps -> 0..7] /\ walk'[tap] # 0
         /\ \A t \in Taps : walk'[t] # 0 => t = 1 /\ walk'[t] = 1
    BY <1>5, <2>1, <2>2 DEF Inv, WalkInv
  <2>12. WalkInv'
    BY <1>5, <1>6, <2>10, <2>11 DEF WalkInv
  <2>13. RailInv'
    BY <1>5, <1>6, <2>8 DEF Inv, RailInv
  <2> QED
    BY <1>2, <2>12, <2>13 DEF Inv
<1> QED
  BY <1>7, <1>8

\* The sequence goes on by one place, and the sheet shows it.
LEMMA AdvanceInv ==
  ASSUME Inv, NEW t \in Taps, walk[t] \in 1..6, Advance(t), RailInv',
         rail'.verified = rail.verified, NEW w \in 0..7, w = walk[t] + 1, ShownAt(w)'
  PROVE  Inv'
<1>1. UNCHANGED <<hasCode, reloads, page, sheets, sharing>>
  BY DEF Advance
<1>2. PageInv' /\ SheetInv'
  BY <1>1 DEF Inv, PageInv, SheetInv
<1>3. walk[t] # 0 /\ walk \in [Taps -> 0..7]
  BY DEF Inv, WalkInv
<1>4. t = 1 /\ rail.verified /\ \A u \in Taps : u # t => walk[u] = 0
  BY <1>3 DEF Inv, WalkInv
<1>5. walk' = [walk EXCEPT ![t] = w]
  BY DEF Advance
<1>6. w # 0
  <2>1. PICK v \in 1..6 : v = walk[t]
    OBVIOUS
  <2> QED
    BY <2>1
<1>7. walk' \in [Taps -> 0..7] /\ walk'[t] = w
  BY <1>3, <1>5
<1>8. ASSUME NEW u \in Taps, walk'[u] # 0 PROVE u = 1 /\ walk'[u] = w
  <2>1. u = t
    BY <1>3, <1>4, <1>5, <1>8
  <2> QED
    BY <1>4, <1>7, <2>1
<1>9. WalkInv'
  BY <1>4, <1>6, <1>7, <1>8 DEF WalkInv
<1> QED
  BY <1>2, <1>9 DEF Inv

LEMMA StepEndsInv == ASSUME Inv, NEW t \in Taps, StepEnds(t) PROVE Inv'
<1>1. walk[t] \in Steps /\ Advance(t) /\ rail' = rail
  BY DEF StepEnds
<1>2. PICK v \in 1..4 : v = walk[t]
  BY <1>1 DEF Steps
<1>3. ShownAt(v)
  BY <1>2 DEF Inv, WalkInv
<1>4. PICK s \in [steps : [Steps -> {"idle", "busy", "done"}],
                  folded : BOOLEAN, verdict : Verdicts] : s = shown
  BY DEF Inv, RailInv
<1>5. PICK steps :
         steps = [k \in Steps |-> IF k = v THEN "done"
                                  ELSE IF k = v + 1 THEN "busy" ELSE s.steps[k]]
  OBVIOUS
<1>6. steps \in [Steps -> {"idle", "busy", "done"}]
  BY <1>4, <1>5
<1>7. shown' = [s EXCEPT !.steps = steps]
  BY <1>2, <1>4, <1>5 DEF StepEnds
<1>8. /\ shown' \in [steps : [Steps -> {"idle", "busy", "done"}],
                     folded : BOOLEAN, verdict : Verdicts]
      /\ shown'.steps = steps /\ shown'.folded = shown.folded
      /\ shown'.verdict = shown.verdict
  BY <1>4, <1>6, <1>7
<1>9. PICK w \in 0..7 : w = v + 1
  OBVIOUS
<1>10. \A k \in Steps : steps[k] = StepAt(k, w)
  BY <1>3, <1>4, <1>5, <1>9 DEF ShownAt, StepAt, Steps
<1>11. ShownAt(w)'
  <2>1. ~(v >= 6) /\ ~(w >= 6) /\ v # 7 /\ w # 7
    BY <1>9
  <2> QED
    BY <1>3, <1>8, <1>10, <2>1 DEF ShownAt
<1>12. RailInv'
  BY <1>1, <1>8 DEF Inv, RailInv
<1>13. walk[t] \in 1..6 /\ w = walk[t] + 1
  BY <1>2, <1>9
<1> QED
  BY <1>1, <1>11, <1>12, <1>13, AdvanceInv

LEMMA FoldInv == ASSUME Inv, NEW t \in Taps, Fold(t) PROVE Inv'
<1>1. walk[t] = 5 /\ Advance(t) /\ rail' = rail
  BY DEF Fold
<1>2. ShownAt(5)
  BY <1>1 DEF Inv, WalkInv
<1>3. PICK s \in [steps : [Steps -> {"idle", "busy", "done"}],
                  folded : BOOLEAN, verdict : Verdicts] : s = shown
  BY DEF Inv, RailInv
<1>4. /\ shown' \in [steps : [Steps -> {"idle", "busy", "done"}],
                     folded : BOOLEAN, verdict : Verdicts]
      /\ shown'.steps = shown.steps /\ shown'.folded = TRUE
      /\ shown'.verdict = shown.verdict
  BY <1>3 DEF Fold
<1>5. ShownAt(6)'
  BY <1>2, <1>4 DEF ShownAt, StepAt, Steps
<1>6. RailInv'
  BY <1>1, <1>4 DEF Inv, RailInv
<1> QED
  BY <1>1, <1>5, <1>6, AdvanceInv

LEMMA GiveVerdictInv == ASSUME Inv, NEW t \in Taps, GiveVerdict(t) PROVE Inv'
<1>1. walk[t] = 6 /\ Advance(t)
  BY DEF GiveVerdict
<1>2. ShownAt(6)
  BY <1>1 DEF Inv, WalkInv
<1>3. PICK verdict : verdict = VerdictOn(page.record.signature)
  OBVIOUS
<1>4. verdict \in Verdicts /\ verdict # "none"
  BY <1>3 DEF VerdictOn, Verdicts
<1>5. PICK s \in [steps : [Steps -> {"idle", "busy", "done"}],
                  folded : BOOLEAN, verdict : Verdicts] : s = shown
  BY DEF Inv, RailInv
<1>6. /\ shown' \in [steps : [Steps -> {"idle", "busy", "done"}],
                     folded : BOOLEAN, verdict : Verdicts]
      /\ shown'.steps = shown.steps /\ shown'.folded = shown.folded
      /\ shown'.verdict = verdict
  BY <1>3, <1>4, <1>5 DEF GiveVerdict
<1>7. PICK r \in [verified : BOOLEAN, taps : 0..MaxTaps, label : Verdicts] : r = rail
  BY DEF Inv, RailInv
<1>8. /\ rail' \in [verified : BOOLEAN, taps : 0..MaxTaps, label : Verdicts]
      /\ rail'.verified = rail.verified /\ rail'.taps = rail.taps /\ rail'.label = verdict
  BY <1>3, <1>4, <1>7 DEF GiveVerdict
<1>9. ShownAt(7)'
  BY <1>2, <1>4, <1>6 DEF ShownAt, StepAt, Steps
<1>10. RailInv'
  BY <1>6, <1>8 DEF Inv, RailInv
<1> QED
  BY <1>1, <1>8, <1>9, <1>10, AdvanceInv

LEMMA PageNextInv == Inv /\ [Next]_vars => Inv'
<1> SUFFICES ASSUME Inv, [Next]_vars PROVE Inv'
  OBVIOUS
<1>1. CASE UNCHANGED vars
  BY <1>1 DEF vars, Inv, PageInv, SheetInv, RailInv, WalkInv, ShownAt
<1>2. CASE Sequence
  BY <1>2, StepEndsInv, FoldInv, GiveVerdictInv DEF Sequence
<1> QED
  BY <1>1, <1>2, BootInv, ReloadInv, SheetsInv, TapRailInv DEF Next
-----------------------------------------------------------------------------
\* The button leaves the page alone, whatever it does.
LEMMA StepsOfThePage == [FNext]_fvars => [Next]_vars
<1>1. FPage => Next
  BY DEF FPage, Next
<1>2. ASSUME NEW d \in Downloads, FClick(d) \/ FDownload(d) PROVE UNCHANGED vars
  BY <1>2 DEF FClick, FDownload
<1>3. FPageShow => UNCHANGED vars
  BY DEF FPageShow
<1>4. FReload => Next
  BY DEF FReload, Next
<1> QED
  BY <1>1, <1>2, <1>3, <1>4 DEF FNext, fvars

LEMMA Invariance == FSpec => []Inv
<1>1. FInit => Inv
  BY InitInv DEF FInit
<1>2. Inv /\ [FNext]_fvars => Inv'
  BY StepsOfThePage, PageNextInv
<1> QED
  BY <1>1, <1>2, PTL DEF FSpec

(***************************************************************************)
(* The document view's button is a guest of the page: whatever downloads,  *)
(* reloads and pageshow events come between its handlers, app.js does what *)
(* it would do without the button.                                         *)
(***************************************************************************)
THEOREM FrontendIsARecordPage == FSpec => Spec
<1>1. FInit => Init
  BY DEF FInit
<1> QED
  BY <1>1, StepsOfThePage, PTL DEF FSpec, Spec

(***************************************************************************)
(* One sheet at a time, with its veil: also when the share dialog fails    *)
(* long after the citizen went on to another sheet.                        *)
(***************************************************************************)
THEOREM VeilAlwaysMatches == FSpec => []VeilMatchesSheets
<1>1. Inv => VeilMatchesSheets
  <2> SUFFICES ASSUME Inv PROVE VeilMatchesSheets
    OBVIOUS
  <2>1. CASE sheets = NoSheet
    <3>1. Cardinality({}) = 0
      BY FS_EmptySet
    <3>2. Cardinality(sheets.open) <= 1
      BY <2>1, <3>1 DEF NoSheet
    <3> QED
      BY <2>1, <3>2 DEF VeilMatchesSheets, NoSheet
  <2>2. ASSUME NEW id \in Sheets,
               sheets = [open |-> {id}, veil |-> TRUE, expanded |-> id = "results"]
        PROVE  VeilMatchesSheets
    <3>1. PICK open : open = {id}
      OBVIOUS
    <3>2. Cardinality(open) = 1
      BY <3>1, FS_Singleton, Zenon
    <3>3. sheets.open = open
      BY <2>2, <3>1
    <3>4. Cardinality(sheets.open) <= 1
      BY <3>2, <3>3
    <3> QED
      BY <2>2, <3>4 DEF VeilMatchesSheets
  <2> QED
    BY <2>1, <2>2 DEF Inv, SheetInv
<1> QED
  BY <1>1, Invariance, PTL

(***************************************************************************)
(* The verdict of the sequence comes after its four steps and stays, and   *)
(* the rail says what the sheet says: a second tap while the sequence runs *)
(* starts none, as state.verified is set before the first one is awaited.  *)
(***************************************************************************)
THEOREM VerdictAlwaysComesLast == FSpec => []VerdictComesLast
<1>1. ASSUME NEW w \in 0..7, ShownAt(w)
      PROVE  Cardinality({k \in Steps : shown.steps[k] = "busy"}) <= 1
  <2>1. PICK busy : busy = {k \in Steps : shown.steps[k] = "busy"}
    OBVIOUS
  <2>2. busy = IF w \in Steps THEN {w} ELSE {}
    BY <1>1, <2>1 DEF ShownAt, StepAt, Steps
  <2>3. Cardinality({}) = 0 /\ Cardinality({w}) = 1
    BY FS_EmptySet, FS_Singleton, Zenon
  <2>4. Cardinality(busy) = 0 \/ Cardinality(busy) = 1
    BY <2>2, <2>3, Zenon
  <2> QED
    BY <2>1, <2>4
<1>2. ASSUME NEW w \in 0..7, ShownAt(w), shown.verdict # "none"
      PROVE  shown.folded /\ \A k \in Steps : shown.steps[k] = "done"
  BY <1>2 DEF ShownAt, StepAt, Steps
<1>3. Inv => \E w \in 0..7 : ShownAt(w)
  <2> SUFFICES ASSUME Inv PROVE \E w \in 0..7 : ShownAt(w)
    OBVIOUS
  <2>1. CASE \E t \in Taps : walk[t] # 0
    BY <2>1 DEF Inv, WalkInv
  <2>2. CASE ~rail.verified
    BY <2>2 DEF Inv, WalkInv
  <2>3. rail.verified => \E t \in Taps : walk[t] # 0
    BY DEF Inv, WalkInv
  <2> QED
    BY <2>1, <2>2, <2>3
<1>4. Inv => VerdictComesLast
  BY <1>1, <1>2, <1>3 DEF Inv, RailInv, VerdictComesLast
<1> QED
  BY <1>4, Invariance, PTL
-----------------------------------------------------------------------------
\* Where a download may be, and what may have become of its file.
Places == {"idle", "reading", "sharing", "timer", "over"}
Ends   == {"none", "saved", "shared", "cancelled", "opened"}

ButtonInv == Button!TypeOK /\ PanelMeansWork

LEMMA ButtonInit == FInit => ButtonInv
  BY DEF FInit, Button!Init, ButtonInv, Button!TypeOK, Button!Labels, PanelMeansWork

\* A step of download d that takes it to place at.
LEMMA GoesInv ==
  ASSUME ButtonInv, NEW d \in Downloads, NEW at \in Places, NEW text \in Button!Labels,
         Button!Goes(d, at, text),
         outcome' = outcome \/ \E result \in Ends : Button!Results(d, result),
         panel' \in BOOLEAN, panel' => at \in {"reading", "sharing", "timer"}
  PROVE  ButtonInv'
<1>1. /\ shares' = shares /\ label' = text /\ pc' = [pc EXCEPT ![d] = at]
      /\ pc \in [Downloads -> Places] /\ outcome \in [Downloads -> Ends]
  BY DEF Button!Goes, ButtonInv, Button!TypeOK, Places, Ends
<1>2. pc' \in [Downloads -> Places] /\ pc'[d] = at
  BY <1>1
<1>3. outcome' \in [Downloads -> Ends]
  BY <1>1 DEF Button!Results
<1>4. Button!TypeOK'
  BY <1>1, <1>2, <1>3 DEF ButtonInv, Button!TypeOK, Places, Ends
<1>5. PanelMeansWork'
  BY <1>2 DEF PanelMeansWork
<1> QED
  BY <1>4, <1>5 DEF ButtonInv

LEMMA DownloadInv ==
  ASSUME ButtonInv, NEW d \in Downloads, FClick(d) \/ FDownload(d)
  PROVE  ButtonInv'
<1>1. panel \in BOOLEAN /\ label \in Button!Labels
  BY DEF ButtonInv, Button!TypeOK
<1>2. CASE Button!Click(d)
  <2>1. /\ Button!Goes(d, "reading", "downloading") /\ outcome' = outcome /\ panel' = TRUE
        /\ "reading" \in Places /\ "downloading" \in Button!Labels
    BY <1>2 DEF Button!Click, Places, Button!Labels
  <2> QED
    BY <2>1, GoesInv
<1>3. CASE Button!Chunk(d)
  <2>1. /\ Button!Goes(d, "reading", "downloading") /\ outcome' = outcome /\ panel' = panel
        /\ "reading" \in Places /\ "downloading" \in Button!Labels
    BY <1>3 DEF Button!Chunk, Places, Button!Labels
  <2> QED
    BY <1>1, <2>1, GoesInv
<1>4. CASE Button!Save(d)
  <2>1. /\ Button!Goes(d, "timer", "downloaded") /\ Button!Results(d, "saved") /\ panel' = panel
        /\ "timer" \in Places /\ "downloaded" \in Button!Labels /\ "saved" \in Ends
    BY <1>4 DEF Button!Save, Places, Button!Labels, Ends
  <2> QED
    BY <1>1, <2>1, GoesInv
<1>5. CASE Button!Offer(d)
  <2>1. /\ Button!Goes(d, "sharing", "save_prompt") /\ outcome' = outcome /\ panel' = panel
        /\ "sharing" \in Places /\ "save_prompt" \in Button!Labels
    BY <1>5 DEF Button!Offer, Places, Button!Labels
  <2> QED
    BY <1>1, <2>1, GoesInv
<1>6. CASE Button!OpenTab(d)
  <2>1. /\ Button!Goes(d, "timer", "download_direct") /\ Button!Results(d, "opened")
        /\ panel' = panel
        /\ "timer" \in Places /\ "download_direct" \in Button!Labels /\ "opened" \in Ends
    BY <1>6 DEF Button!OpenTab, Button!FallbackLabel, Places, Button!Labels, Ends
  <2> QED
    BY <1>1, <2>1, GoesInv
<1>7. CASE Button!TimerEnds(d)
  <2>1. /\ Button!Goes(d, "over", label) /\ outcome' = outcome /\ panel' = FALSE
        /\ "over" \in Places
    BY <1>7 DEF Button!TimerEnds, Places
  <2> QED
    BY <1>1, <2>1, GoesInv
<1>8. ASSUME NEW result \in {"shared", "cancelled"}, Button!DialogCloses(d, result)
      PROVE  ButtonInv'
  <2>1. /\ Button!Goes(d, "over", label) /\ Button!Results(d, result) /\ panel' = FALSE
        /\ "over" \in Places /\ result \in Ends
    BY <1>8 DEF Button!DialogCloses, Places, Ends
  <2> QED
    BY <1>1, <2>1, GoesInv
<1> QED
  BY <1>2, <1>3, <1>4, <1>5, <1>6, <1>7, <1>8 DEF FClick, FDownload, Button!Ends

LEMMA ButtonNextInv == ButtonInv /\ [FNext]_fvars => ButtonInv'
<1> SUFFICES ASSUME ButtonInv, [FNext]_fvars PROVE ButtonInv'
  OBVIOUS
<1>1. ASSUME UNCHANGED dvars PROVE ButtonInv'
  BY <1>1 DEF dvars, ButtonInv, Button!TypeOK, PanelMeansWork
<1>2. CASE FPageShow
  BY <1>2 DEF FPageShow, Button!PageShow, ButtonInv, Button!TypeOK, PanelMeansWork
<1>3. CASE FReload
  BY <1>3 DEF FReload, Button!Leave, ButtonInv, Button!TypeOK, Button!Labels, PanelMeansWork
<1> QED
  BY <1>1, <1>2, <1>3, DownloadInv DEF FNext, FPage, fvars

LEMMA ButtonInvariance == FSpec => []ButtonInv
<1>1. FInit => ButtonInv
  BY ButtonInit
<1>2. ButtonInv /\ [FNext]_fvars => ButtonInv'
  BY ButtonNextInv
<1> QED
  BY <1>1, <1>2, PTL DEF FSpec

(***************************************************************************)
(* The page and its button stay within their states: boot() leaves one of  *)
(* the six screens, a sequence no place beyond its last, and a download    *)
(* one of the labels of the dictionary.                                    *)
(***************************************************************************)
THEOREM TypeCorrect == FSpec => []FTypeOK
<1>1. Inv => TypeOK
  <2>1. SheetInv => sheets \in [open : SUBSET Sheets, veil : BOOLEAN, expanded : BOOLEAN]
    <3>1. NoSheet \in [open : SUBSET Sheets, veil : BOOLEAN, expanded : BOOLEAN]
      BY DEF NoSheet
    <3>2. ASSUME NEW id \in Sheets
          PROVE  [open |-> {id}, veil |-> TRUE, expanded |-> id = "results"]
                    \in [open : SUBSET Sheets, veil : BOOLEAN, expanded : BOOLEAN]
      <4>1. PICK expanded \in BOOLEAN : expanded = (id = "results")
        OBVIOUS
      <4>2. [open |-> {id}, veil |-> TRUE, expanded |-> expanded]
               \in [open : SUBSET Sheets, veil : BOOLEAN, expanded : BOOLEAN]
        OBVIOUS
      <4> QED
        BY <4>1, <4>2
    <3> QED
      BY <3>1, <3>2, Zenon DEF SheetInv
  <2> QED
    BY <2>1 DEF Inv, PageInv, RailInv, WalkInv, TypeOK
<1>2. Inv /\ ButtonInv => FTypeOK
  BY <1>1 DEF ButtonInv, FTypeOK
<1> QED
  BY <1>2, Invariance, ButtonInvariance, PTL

(***************************************************************************)
(* The buttons never stay hidden behind a panel of nobody: a panel is      *)
(* shown only while a download is on its way to the step that hides it,    *)
(* though downloads, pageshow and reloads all hide each other's.           *)
(***************************************************************************)
THEOREM PanelAlwaysMeansWork == FSpec => []PanelMeansWork
<1>1. ButtonInv => PanelMeansWork
  BY DEF ButtonInv
<1> QED
  BY <1>1, ButtonInvariance, PTL
=============================================================================
