------------------------------ MODULE Download ------------------------------
(***************************************************************************)
(* The download button of web/js/views/document.js (wireDownload): the     *)
(* body is read chunk by chunk and then saved or, where the system cannot  *)
(* save, offered to the share dialog.  A panel takes the place of the      *)
(* buttons meanwhile.  Taps are handled by coroutines of their own; any of *)
(* them shows and hides the same panel, and so does the browser's pageshow *)
(* event.                                                                  *)
(***************************************************************************)
CONSTANT Downloads    \* the taps on the button that one page may see

\* The labels of the panel, by their keys in the dictionaries.
Labels == {"", "downloading", "downloaded", "download_direct", "save_prompt"}

VARIABLES
    shares,     \* IS_IOS, and the system can share files
    panel,      \* the panel is shown, the buttons are hidden
    label,
    pc,         \* where each download is: reading, sharing, or at its timer
    outcome     \* what became of the file

vars == <<shares, panel, label, pc, outcome>>

Init ==
    /\ shares \in BOOLEAN
    /\ panel = FALSE
    /\ label = ""
    /\ pc = [d \in Downloads |-> "idle"]
    /\ outcome = [d \in Downloads |-> "none"]

Goes(d, at, text) ==
    /\ pc' = [pc EXCEPT ![d] = at]
    /\ label' = text
    /\ UNCHANGED shares

Results(d, result) == outcome' = [outcome EXCEPT ![d] = result]
-----------------------------------------------------------------------------
Click(d) ==
    /\ ~panel
    /\ pc[d] = "idle"
    /\ panel' = TRUE
    /\ Goes(d, "reading", "downloading")
    /\ UNCHANGED outcome

Chunk(d) ==
    /\ pc[d] = "reading"
    /\ Goes(d, "reading", "downloading")
    /\ UNCHANGED <<panel, outcome>>

\* The body is complete and the system saves it.
Save(d) ==
    /\ pc[d] = "reading" /\ ~shares
    /\ Goes(d, "timer", "downloaded")
    /\ Results(d, "saved")
    /\ UNCHANGED panel

\* The body is complete and goes to the share dialog.
Offer(d) ==
    /\ pc[d] = "reading" /\ shares
    /\ Goes(d, "sharing", "save_prompt")
    /\ UNCHANGED <<panel, outcome>>

\* Mutant: a dismissed dialog returns at once.
ReturnAtOnce(d, result) ==
    /\ pc[d] = "sharing"
    /\ Goes(d, "over", label)
    /\ Results(d, result)
    /\ panel' = (panel /\ result = "cancelled")

\* The dialog is used, or dismissed (AbortError): the panel goes at once.
DialogCloses(d, result) ==
    /\ pc[d] = "sharing"
    /\ Goes(d, "over", label)
    /\ Results(d, result)
    /\ panel' = FALSE

FallbackLabel == "download_direct"

\* Mutant: the last resort ends the handler.
OpenAndReturn(d) ==
    /\ pc[d] \in {"reading", "sharing"}
    /\ Goes(d, "over", FallbackLabel)
    /\ Results(d, "opened")
    /\ UNCHANGED panel

\* Any other failure, of the network or of the dialog: the last resort is a
\* tab, and the handler goes on to its timer.
OpenTab(d) ==
    /\ pc[d] \in {"reading", "sharing"}
    /\ Goes(d, "timer", FallbackLabel)
    /\ Results(d, "opened")
    /\ UNCHANGED panel

TimerEnds(d) ==
    /\ pc[d] = "timer"
    /\ Goes(d, "over", label)
    /\ panel' = FALSE
    /\ UNCHANGED outcome

\* The page is shown: after its load event, or again, coming back to it.
PageShow == panel' = FALSE /\ UNCHANGED <<shares, label, pc, outcome>>

\* The page is left or loaded anew, and its handlers are gone with it.
Leave ==
    /\ panel' = FALSE /\ label' = ""
    /\ pc' = [d \in Downloads |-> "idle"]
    /\ outcome' = [d \in Downloads |-> "none"]
    /\ UNCHANGED shares

\* What a download that was started goes through to its end.
Ends(d) ==
    \/ Save(d) \/ Offer(d) \/ OpenTab(d) \/ TimerEnds(d)
    \/ \E result \in {"shared", "cancelled"} : DialogCloses(d, result)

TypeOK ==
    /\ shares \in BOOLEAN /\ panel \in BOOLEAN
    /\ label \in Labels
    /\ pc \in [Downloads -> {"idle", "reading", "sharing", "timer", "over"}]
    /\ outcome \in [Downloads -> {"none", "saved", "shared", "cancelled", "opened"}]
=============================================================================
