---------------------------- MODULE RegisterRecord ----------------------------
(***************************************************************************)
(* The registration tool, tools/register_record.py, run by an operator     *)
(* against the attestation service of Upstream, while custody receives the *)
(* file and other accounts seal it too.                                    *)
(*                                                                         *)
(* One sheet, one path: the operator runs the tool on it again after a     *)
(* failure, or after the file was signed again or its results corrected,   *)
(* and may do so while a request of an earlier run is still on its way.    *)
(* The receipt ("proof") of every run goes to the same file beside the PDF.*)
(***************************************************************************)
EXTENDS RecordService, Ingestion

CONSTANTS
    Runs,        \* runs of the tool; each happens once at most
    Sheet,       \* the sheet's identifier in custody
    Operator,    \* the account of the tool's STAMPING_TOKEN
    Inputs,      \* [results, data] files the operator may pass
    NoInput      \* nothing sent yet, nothing registered

ASSUME SheetAssumption    == Sheet \in Identifiers
ASSUME OperatorAssumption == Operator \in Accounts
ASSUME InputsAssumption   == NoInput \notin Inputs

VARIABLES
    pdf,        \* the file at the path; NoDoc when there is none
    run,        \* the processes
    posted,     \* requests that have not reached the service yet
    info,       \* info[d]: what the operator's row of evidence d carries
    receipt     \* the .proof.json file

toolVars == <<pdf, run, posted, info, receipt>>
vars == <<worldVars, toolVars>>

Pcs == {"idle", "built", "posted", "answered", "saving", "done", "stopped"}

(***************************************************************************)
(* said is what the last line of the tool prints of the answer.  seen is   *)
(* an observation: the file that was at the path when the run read it.     *)
(***************************************************************************)
RunType ==
    [pc : Pcs, evidence : Contents \cup {NoDoc}, input : Inputs \cup {NoInput},
     said : {"nothing", "registered", "duplicated", "error"}, proof : BOOLEAN,
     seen : Contents \cup {NoDoc}]

NotRun == [pc |-> "idle", evidence |-> NoDoc, input |-> NoInput,
           said |-> "nothing", proof |-> FALSE, seen |-> NoDoc]

Receipts == [state : {"absent", "partial", "whole"}, of : Contents \cup {NoDoc}]

Init ==
    /\ WorldInit
    /\ pdf = NoDoc
    /\ run = [r \in Runs |-> NotRun]
    /\ posted = {}
    /\ info = [d \in Contents |-> NoInput]
    /\ receipt = [state |-> "absent", of |-> NoDoc]

Goes(r, pc) == run' = [run EXCEPT ![r].pc = pc]

\* The files build_body lets through.
Checked == {x \in Inputs : Accepted(x.results, x.data)}
-----------------------------------------------------------------------------
\* Mutant: the file is not looked for.
BuildWithoutFile(r, x) ==
    /\ run[r].pc = "idle"
    /\ x \in Checked
    /\ run' = [run EXCEPT ![r].pc = "built", ![r].evidence = pdf,
                          ![r].input = x, ![r].seen = pdf]
    /\ UNCHANGED <<worldVars, pdf, posted, info, receipt>>

\* Mutant: the hash of a path is remembered from an earlier run.
BuildRemembered(r, x) ==
    /\ run[r].pc = "idle"
    /\ pdf # NoDoc
    /\ x \in Checked
    /\ \E d \in ({pdf} \cup {run[q].evidence : q \in Runs}) \ {NoDoc} :
          run' = [run EXCEPT ![r].pc = "built", ![r].evidence = d,
                             ![r].input = x, ![r].seen = pdf]
    /\ UNCHANGED <<worldVars, pdf, posted, info, receipt>>

\* build_body: the results and the data are validated, the file is hashed.
BuildBody(r, x) ==
    /\ run[r].pc = "idle"
    /\ pdf # NoDoc
    /\ x \in Checked
    /\ run' = [run EXCEPT ![r].pc = "built", ![r].evidence = pdf,
                          ![r].input = x, ![r].seen = pdf]
    /\ UNCHANGED <<worldVars, pdf, posted, info, receipt>>

\* No such file, figures that do not add up, another station's data.
Rejects(r, x) ==
    /\ run[r].pc = "idle"
    /\ pdf = NoDoc \/ x \notin Checked
    /\ Goes(r, "stopped")
    /\ UNCHANGED <<worldVars, pdf, posted, info, receipt>>

\* --dry-run: nothing is sent.
DryRun(r) ==
    /\ run[r].pc = "built"
    /\ Goes(r, "done")
    /\ UNCHANGED <<worldVars, pdf, posted, info, receipt>>

\* register: one POST, sent once, with the body as it was built.
Post(r) ==
    /\ run[r].pc = "built"
    /\ Goes(r, "posted")
    /\ posted' = posted \cup {r}
    /\ UNCHANGED <<worldVars, pdf, info, receipt>>

\* Mutant: the call has no timeout.
StopsUnlessItWaits(r) ==
    /\ run[r].pc \in {"built", "answered", "saving"}
    /\ Goes(r, "stopped")
    /\ UNCHANGED <<worldVars, pdf, posted, info, receipt>>

(***************************************************************************)
(* The process ends early: no token or no connection, the answer does not  *)
(* come in time, is an HTTP error or no JSON, the disk is full, the        *)
(* operator interrupts it.  What it has posted stays on its way.           *)
(***************************************************************************)
Stops(r) ==
    /\ run[r].pc \in {"built", "posted", "answered", "saving"}
    /\ Goes(r, "stopped")
    /\ UNCHANGED <<worldVars, pdf, posted, info, receipt>>
-----------------------------------------------------------------------------
\* The answer reaches a run that still waits for it; nobody hears it otherwise.
Tells(r, said, proof) ==
    run' = IF run[r].pc = "posted"
           THEN [run EXCEPT ![r].pc = "answered", ![r].said = said, ![r].proof = proof]
           ELSE run

\* The first request for an evidence makes the row, and its answer the receipt.
Registers(r) ==
    /\ r \in posted
    /\ <<Operator, run[r].evidence>> \notin sealed
    /\ posted' = posted \ {r}
    /\ sealed' = sealed \cup {<<Operator, run[r].evidence>>}
    /\ latest' = [latest EXCEPT ![run[r].evidence] = Operator]
    /\ info' = [info EXCEPT ![run[r].evidence] = run[r].input]
    /\ Tells(r, "registered", TRUE)
    /\ UNCHANGED <<custody, held, anchored, changes, pdf, receipt>>

\* A later one finds it and changes nothing; its answer may have no receipt.
Repeats(r) ==
    /\ r \in posted
    /\ <<Operator, run[r].evidence>> \in sealed
    /\ posted' = posted \ {r}
    /\ \E proof \in BOOLEAN : Tells(r, "duplicated", proof)
    /\ UNCHANGED <<worldVars, pdf, info, receipt>>

\* The service refuses the request with HTTP 200 and a code of its own.
Refuses(r) ==
    /\ r \in posted
    /\ posted' = posted \ {r}
    /\ Tells(r, "error", FALSE)
    /\ UNCHANGED <<worldVars, pdf, info, receipt>>

\* The network loses a request.
Loses(r) ==
    /\ r \in posted
    /\ posted' = posted \ {r}
    /\ UNCHANGED <<worldVars, pdf, run, info, receipt>>
-----------------------------------------------------------------------------
\* An answer without a receipt: the response is printed, the exit code is 0.
Ends(r) ==
    /\ run[r].pc = "answered"
    /\ ~run[r].proof
    /\ Goes(r, "done")
    /\ UNCHANGED <<worldVars, pdf, posted, info, receipt>>

\* Mutant: an answer without a receipt is written like any other.
SavesAnything(r) ==
    /\ run[r].pc = "answered"
    /\ Goes(r, "saving")
    /\ receipt' = [state |-> "partial", of |-> NoDoc]
    /\ UNCHANGED <<worldVars, pdf, posted, info>>

\* write_text truncates the file beside the PDF ...
Saves(r) ==
    /\ run[r].pc = "answered"
    /\ run[r].proof
    /\ Goes(r, "saving")
    /\ receipt' = [state |-> "partial", of |-> NoDoc]
    /\ UNCHANGED <<worldVars, pdf, posted, info>>

\* ... and fills it.  Receipts have one length, so a later one covers it all.
Saved(r) ==
    /\ run[r].pc = "saving"
    /\ Goes(r, "done")
    /\ receipt' = [state |-> "whole",
                   of |-> IF run[r].proof THEN run[r].evidence ELSE NoDoc]
    /\ UNCHANGED <<worldVars, pdf, posted, info>>
-----------------------------------------------------------------------------
\* The file is signed, or signed again; it is put in custody as it is.
Sign(d) ==
    /\ WorldMoves
    /\ pdf # d
    /\ pdf' = d
    /\ UNCHANGED <<custody, held, sealed, latest, anchored, run, posted, info, receipt>>

Store(d) == d = pdf /\ Deposit(Sheet, d) /\ UNCHANGED toolVars

\* Somebody else seals the same file under an account of their own.
SealElsewhere(a, d) == a # Operator /\ Seal(a, d) /\ UNCHANGED toolVars

Step(r) ==
    \/ \E x \in Inputs : BuildBody(r, x) \/ Rejects(r, x)
    \/ DryRun(r) \/ Post(r) \/ Stops(r) \/ Ends(r) \/ Saves(r) \/ Saved(r)

Service(r) == Registers(r) \/ Repeats(r) \/ Refuses(r) \/ Loses(r)

Next ==
    \/ \E r \in Runs : Step(r) \/ Service(r)
    \/ \E d \in Contents : Sign(d) \/ Store(d) \/ \E a \in Accounts : SealElsewhere(a, d)

Spec == Init /\ [][Next]_vars

\* A run that was started goes on: its one call has a timeout.
FairSpec == Spec /\ \A r \in Runs : WF_vars(run[r].pc # "idle" /\ Step(r))
-----------------------------------------------------------------------------
(***************************************************************************)
(* Type invariant.                                                         *)
(***************************************************************************)
ToolTypeOK ==
    /\ WorldTypeOK
    /\ pdf \in Contents \cup {NoDoc}
    /\ run \in [Runs -> RunType]
    /\ posted \in SUBSET Runs
    /\ info \in [Contents -> Inputs \cup {NoInput}]
    /\ receipt \in Receipts

(***************************************************************************)
(* Whatever was lost on the way, sent late, repeated or overtaken: once    *)
(* the tool has printed that a file is registered, or was already, and     *)
(* custody serves that very file, the viewer finds the operator's row, and *)
(* only rows it takes for the electoral body's, although others seal the   *)
(* file as well; and the figures of that row, whichever run sent them,     *)
(* decode, and are those of the station the page names.                    *)
(***************************************************************************)
RegisteredIsVerified ==
    \A r \in Runs :
        /\ run[r].said \in {"registered", "duplicated"}
        /\ custody[Sheet] = run[r].seen
        => /\ VisibleRows(run[r].seen) # {}
           /\ \A row \in VisibleRows(run[r].seen) :
                 ToView(run[r].seen, row).status = "verified"
           /\ LET x == info[run[r].seen]
              IN  /\ ResultsOK(x.results) /\ DataOK(x.data)
                  /\ x.results.station = x.data.station

(***************************************************************************)
(* A receipt that can be read is one of a file the operator registered.    *)
(* A retry whose answer carries none leaves the one on disk alone; a write *)
(* that was cut short leaves a file nobody takes for one.                  *)
(***************************************************************************)
ReceiptIsGenuine ==
    receipt.state = "whole" => <<Operator, receipt.of>> \in sealed

\* Every run that was started ends, with an exit code or a traceback.
EveryRunOfTheToolEnds ==
    \A r \in Runs : run[r].pc # "idle" ~> run[r].pc \in {"done", "stopped"}
-----------------------------------------------------------------------------
(***************************************************************************)
(* What a comment says and the program does not do.                        *)
(***************************************************************************)

\* register_record.py:141: whoever registers has to keep the receipt.  When no
\* run is under way and the last word was a success, it lies beside the PDF.
WhoeverRegistersKeepsTheProof ==
    /\ \A r \in Runs : run[r].pc \in {"idle", "done", "stopped"}
    /\ \E r \in Runs : /\ run[r].pc = "done" /\ run[r].seen = pdf
                       /\ run[r].said \in {"registered", "duplicated"}
    => receipt = [state |-> "whole", of |-> pdf]
=============================================================================
