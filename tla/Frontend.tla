------------------------------ MODULE Frontend ------------------------------
(***************************************************************************)
(* RecordPage with the download button its document view mounts: both live *)
(* in one page, are started by one boot() and lost by one reload, and the  *)
(* button is there once a record is.  A handler of the one may run between *)
(* any two steps of the other.  Taps under the veil are possible from the  *)
(* keyboard.                                                               *)
(***************************************************************************)
EXTENDS RecordPage

CONSTANT Downloads    \* taps on the download button of one page

VARIABLES shares, panel, label, pc, outcome    \* those of Download

Button == INSTANCE Download

dvars == <<shares, panel, label, pc, outcome>>
fvars == <<vars, dvars>>

FInit == Init /\ Button!Init

FPage ==
    /\ Boot \/ Sequence \/ TapClose \/ TapResults \/ TapRail \/ TapShare \/ ShareEnds
    /\ UNCHANGED dvars

FClick(d) == OnRecord /\ Button!Click(d) /\ UNCHANGED vars

FDownload(d) == (Button!Chunk(d) \/ Button!Ends(d)) /\ UNCHANGED vars

FPageShow == Button!PageShow /\ UNCHANGED vars

FReload == Reload /\ Button!Leave

FNext ==
    \/ FPage \/ FPageShow \/ FReload
    \/ \E d \in Downloads : FClick(d) \/ FDownload(d)

FSpec == FInit /\ [][FNext]_fvars

\* Requests end and timers fire; a body ends or breaks off, and a dialog of
\* the system is used or dismissed.  Nobody is obliged to tap or to close.
FFairSpec ==
    /\ FSpec
    /\ WF_fvars(Boot /\ UNCHANGED dvars)
    /\ WF_fvars(Sequence /\ UNCHANGED dvars)
    /\ \A d \in Downloads : WF_fvars(Button!Ends(d) /\ UNCHANGED vars)
-----------------------------------------------------------------------------
(***************************************************************************)
(* Type invariant.                                                         *)
(***************************************************************************)
FTypeOK == TypeOK /\ Button!TypeOK

\* A panel that stays says that something goes on: it is shown only while
\* some download is on its way to the step that hides it, although downloads
\* hide each other's panel, the browser hides it, and reloads drop them all.
PanelMeansWork ==
    panel => \E d \in Downloads : pc[d] \in {"reading", "sharing", "timer"}

\* However a download ends, the buttons come back, and every tap on the button
\* ends in a file, a tab or the citizen's own refusal, unless the page is left.
ButtonsComeBack ==
    /\ panel ~> ~panel
    /\ \A d \in Downloads :
          (pc[d] = "reading") ~> (pc[d] = "over" /\ outcome[d] # "none") \/ pc[d] = "idle"
=============================================================================
