------------------------------ MODULE PageCache ------------------------------
(***************************************************************************)
(* The page images and the PDF: get_page and get_pdf of                    *)
(* app/routers/records.py over PageRenderer of app/services/rendering.py,  *)
(* the files it leaves on disk and the copies browsers keep under an ETag  *)
(* and show for a day without asking.                                      *)
(*                                                                         *)
(* A page stands for a number together with a density, or for the PDF      *)
(* itself, which has a URL and a tag of its own but is never rendered.     *)
(* The lookup of the file happens on the event loop; reading and rendering *)
(* happen in worker threads, several at once, on files without a lock:     *)
(* write_bytes first truncates the file and then fills it.                 *)
(*                                                                         *)
(* Time is kept in ages, not dates: left is what remains of a copy's       *)
(* max-age, age how long a request has held the document it read.          *)
(***************************************************************************)
EXTENDS Naturals, FiniteSets

CONSTANTS
    Browsers,     \* clients; each waits for one request at a time
    Keepers,      \* those that keep copies; a crawler or a private tab does not
    Documents,    \* contents custody may hold for the sheet
    NoDoc,        \* custody holds nothing, or fails
    Pages,        \* page numbers and densities a client may ask for, and Pdf
    Pdf,          \* the PDF's own URL
    Printed,      \* Printed[d]: the pages document d has, the PDF included
    Unreadable,   \* documents the PDF library cannot open
    NoCopy,       \* a browser holds no copy of a page
    MaxAge,       \* max-age of a copy
    MaxFlight,    \* the longest from reading custody to the answer
    MaxChanges    \* bound on the changes of custody

ASSUME DocumentsAssumption == NoDoc \notin Documents
ASSUME PrintedAssumption   == Printed \in [Documents -> SUBSET Pages]
ASSUME KeepersAssumption   == Keepers \subseteq Browsers
ASSUME PdfAssumption       == Pdf \in Pages /\ \A d \in Documents : Pdf \in Printed[d]
ASSUME AgeAssumption       == MaxAge \in Nat \ {0}
ASSUME BoundAssumption     == {MaxFlight, MaxChanges} \subseteq Nat

VARIABLES
    custody,    \* the document custody holds now
    changes,    \* how often it changed
    disk,       \* the image files, by document hash and page
    job,        \* the request of each browser
    copy,       \* what each browser keeps of each page's URL
    cut,        \* observation: the files a write of which was cut short
    gone        \* observation: gone[d], how long ago custody last held d

vars == <<custody, changes, disk, job, copy, cut, gone>>

\* The longest a replaced sheet may still be shown; longer is not told apart.
Day == MaxFlight + MaxAge

Bodies == {"partial", "whole"}
Files  == {"absent"} \cup Bodies
Shown  == [doc : Documents, page : Pages, body : Bodies]
Copies == [shown : Shown, left : 0..MaxAge] \cup {NoCopy}

ASSUME NoCopyAssumption ==
    NoCopy \notin Shown /\ NoCopy \notin [shown : Shown, left : 0..MaxAge]

JobType ==
    [pc : {"idle", "fetch", "read", "render", "write", "answered"},
     page : Pages, doc : Documents \cup {NoDoc},
     status : {0, 200, 304, 404, 500}, shown : Shown \cup {NoCopy},
     rendered : BOOLEAN, age : 0..MaxFlight, late : 0..Day]

Idle == [pc |-> "idle", page |-> CHOOSE p \in Pages : TRUE, doc |-> NoDoc,
         status |-> 0, shown |-> NoCopy, rendered |-> FALSE, age |-> 0, late |-> 0]

Init ==
    /\ custody \in Documents \cup {NoDoc}
    /\ changes = 0
    /\ disk = [k \in Documents \X Pages |-> "absent"]
    /\ job = [b \in Browsers |-> Idle]
    /\ copy = [b \in Browsers |-> [p \in Pages |-> NoCopy]]
    /\ cut = {}
    /\ gone = [d \in Documents |-> IF d = custody THEN 0 ELSE Day]

FileOf(b) == <<job[b].doc, job[b].page>>

Waiting(b) == job[b].pc \in {"fetch", "read", "render", "write"}

\* The request has read the document and is not answered yet.
Holding(b) == job[b].pc \in {"read", "render", "write"}

\* An answer without content: nothing found, or a failure.
Failed(status) == [Idle EXCEPT !.pc = "answered", !.status = status]

Fails(b, status) == job' = [job EXCEPT ![b] = Failed(status)]

\* What the browser keeps of a response, for as long as max-age says.
Keeps(b, shown) ==
    copy' = IF b \in Keepers
            THEN [copy EXCEPT ![b][shown.page] = [shown |-> shown, left |-> MaxAge]]
            ELSE copy

\* The browser gets, or has, what it shows of a document.
Shows(b, doc, status, shown, rendered) ==
    job' = [job EXCEPT ![b] = [pc |-> "answered", page |-> job[b].page, doc |-> doc,
              status |-> status, shown |-> shown, rendered |-> rendered,
              age |-> 0, late |-> gone[shown.doc]]]

Sends(b, doc, body, rendered) ==
    LET shown == [doc |-> doc, page |-> job[b].page, body |-> body]
    IN  Shows(b, doc, 200, shown, rendered) /\ Keeps(b, shown)

Goes(b, pc) == job' = [job EXCEPT ![b].pc = pc]
-----------------------------------------------------------------------------
Ask(b, p) ==
    /\ ~Waiting(b)
    /\ job' = [job EXCEPT ![b] = [Idle EXCEPT !.pc = "fetch", !.page = p]]
    /\ UNCHANGED <<custody, changes, disk, copy, cut, gone>>

\* Cache-Control: the browser shows its own copy and asks nobody.
Fresh(b, p) == copy[b][p] # NoCopy /\ copy[b][p].left > 0

ShowOwn(b, p) ==
    /\ ~Waiting(b)
    /\ Fresh(b, p)
    /\ LET own == copy[b][p].shown
       IN  job' = [job EXCEPT ![b] = [Idle EXCEPT !.pc = "answered", !.page = p,
                     !.doc = own.doc, !.status = 200, !.shown = own, !.late = gone[own.doc]]]
    /\ UNCHANGED <<custody, changes, disk, copy, cut, gone>>

\* Mutant: the tag is of the page number alone.
MatchesPage(b, p, d) == copy[b][p] # NoCopy /\ copy[b][p].shown.page = p

\* _not_modified: the browser's tag for this URL is the hash and the page.
Matches(b, p, d) ==
    copy[b][p] # NoCopy /\ copy[b][p].shown.doc = d /\ copy[b][p].shown.page = p

\* resolve_document found nothing.
NoDocument(b) ==
    /\ job[b].pc = "fetch"
    /\ Fails(b, 404)
    /\ UNCHANGED <<custody, changes, disk, copy, cut, gone>>

NotModified(b) ==
    /\ job[b].pc = "fetch"
    /\ custody # NoDoc
    /\ Matches(b, job[b].page, custody)
    /\ LET own == copy[b][job[b].page].shown
       IN  Shows(b, custody, 304, own, FALSE) /\ Keeps(b, own)
    /\ UNCHANGED <<custody, changes, disk, cut, gone>>

\* get_pdf has the document in hand and answers it.
SendPdf(b) ==
    /\ job[b].pc = "fetch"
    /\ job[b].page = Pdf
    /\ custody # NoDoc
    /\ ~Matches(b, Pdf, custody)
    /\ Sends(b, custody, "whole", FALSE)
    /\ UNCHANGED <<custody, changes, disk, cut, gone>>

\* Mutant: the file is not looked for.
LocateUnchecked(b) ==
    /\ job[b].pc = "fetch"
    /\ job[b].page # Pdf
    /\ custody # NoDoc
    /\ ~Matches(b, job[b].page, custody)
    /\ job' = [job EXCEPT ![b].doc = custody, ![b].pc = "read"]
    /\ UNCHANGED <<custody, changes, disk, copy, cut, gone>>

\* page(): the file is looked for before any thread runs.
Locate(b) ==
    /\ job[b].pc = "fetch"
    /\ job[b].page # Pdf
    /\ custody # NoDoc
    /\ ~Matches(b, job[b].page, custody)
    /\ job' = [job EXCEPT ![b].doc = custody,
                          ![b].pc = IF disk[<<custody, job[b].page>>] # "absent"
                                    THEN "read" ELSE "render"]
    /\ UNCHANGED <<custody, changes, disk, copy, cut, gone>>

\* Mutant: a reader waits for the file to be whole.
ReadWhole(b) ==
    /\ job[b].pc = "read"
    /\ disk[FileOf(b)] = "whole"
    /\ Sends(b, job[b].doc, "whole", FALSE)
    /\ UNCHANGED <<custody, changes, disk, cut, gone>>

\* read_bytes: whatever the file holds at that moment.
ReadFile(b) ==
    /\ job[b].pc = "read"
    /\ Sends(b, job[b].doc, disk[FileOf(b)], FALSE)
    /\ UNCHANGED <<custody, changes, disk, cut, gone>>
-----------------------------------------------------------------------------
\* Mutant: the file is opened before the page number is checked.
OpenUnchecked(b) ==
    /\ job[b].pc = "render"
    /\ job[b].doc \notin Unreadable
    /\ disk' = [disk EXCEPT ![FileOf(b)] = "partial"]
    /\ Goes(b, "write")
    /\ UNCHANGED <<custody, changes, copy, cut, gone>>

\* _render drew the image; write_bytes opens the file and truncates it.
OpenFile(b) ==
    /\ job[b].pc = "render"
    /\ job[b].doc \notin Unreadable
    /\ job[b].page \in Printed[job[b].doc]
    /\ disk' = [disk EXCEPT ![FileOf(b)] = "partial"]
    /\ Goes(b, "write")
    /\ UNCHANGED <<custody, changes, copy, cut, gone>>

\* IndexError, the one failure of rendering that is a 404.
NoSuchPage(b) ==
    /\ job[b].pc = "render"
    /\ job[b].doc \notin Unreadable
    /\ job[b].page \notin Printed[job[b].doc]
    /\ Fails(b, 404)
    /\ UNCHANGED <<custody, changes, disk, copy, cut, gone>>

\* The document does not open, or the directory or the file cannot be made.
RenderFails(b) ==
    /\ job[b].pc = "render"
    /\ Fails(b, 500)
    /\ UNCHANGED <<custody, changes, disk, copy, cut, gone>>

\* Mutant: the image is read back from the file it was written to.
WriteAndReadBack(b) ==
    /\ job[b].pc = "write"
    /\ disk' = [disk EXCEPT ![FileOf(b)] = "whole"]
    /\ \E body \in Bodies :
          /\ body = "partial" => \E c \in Browsers \ {b} :
                                    job[c].pc = "write" /\ FileOf(c) = FileOf(b)
          /\ Sends(b, job[b].doc, body, TRUE)
    /\ UNCHANGED <<custody, changes, cut, gone>>

\* The file is filled; the image answered is the one in memory.
WriteFile(b) ==
    /\ job[b].pc = "write"
    /\ disk' = [disk EXCEPT ![FileOf(b)] = "whole"]
    /\ Sends(b, job[b].doc, "whole", TRUE)
    /\ UNCHANGED <<custody, changes, cut, gone>>

\* No space left: what is written stays under the final name.
WriteFails(b) ==
    /\ job[b].pc = "write"
    /\ Fails(b, 500)
    /\ cut' = cut \cup {FileOf(b)}
    /\ UNCHANGED <<custody, changes, disk, copy, gone>>
-----------------------------------------------------------------------------
\* The process stops and starts: requests are lost, files are as they were.
Restart ==
    /\ job' = [b \in Browsers |-> IF Waiting(b) THEN Failed(500) ELSE job[b]]
    /\ cut' = cut \cup {FileOf(b) : b \in {c \in Browsers : job[c].pc = "write"}}
    /\ UNCHANGED <<custody, changes, disk, copy, gone>>

ChangeCustody(d) ==
    /\ changes < MaxChanges
    /\ custody # d
    /\ custody' = d
    /\ changes' = changes + 1
    /\ gone' = [c \in Documents |-> IF c \in {custody, d} THEN 0 ELSE gone[c]]
    /\ UNCHANGED <<disk, job, copy, cut>>

Older(c) == IF c = NoCopy \/ c.left = 0 THEN c ELSE [c EXCEPT !.left = @ - 1]

\* Time passes: copies age, and no thread takes longer than MaxFlight.
Tick ==
    /\ \A b \in Browsers : Holding(b) => job[b].age < MaxFlight
    /\ job' = [b \in Browsers |->
                 IF Holding(b) THEN [job[b] EXCEPT !.age = @ + 1] ELSE job[b]]
    /\ copy' = [b \in Browsers |-> [p \in Pages |-> Older(copy[b][p])]]
    /\ gone' = [d \in Documents |->
                  IF d = custody \/ gone[d] = Day THEN gone[d] ELSE gone[d] + 1]
    /\ UNCHANGED <<custody, changes, disk, cut>>

Serve(b) ==
    \/ NoDocument(b) \/ NotModified(b) \/ SendPdf(b) \/ Locate(b) \/ ReadFile(b)
    \/ OpenFile(b) \/ NoSuchPage(b) \/ RenderFails(b)
    \/ WriteFile(b) \/ WriteFails(b)

Next ==
    \/ \E b \in Browsers : Serve(b) \/ \E p \in Pages : Ask(b, p) \/ ShowOwn(b, p)
    \/ \E d \in Documents \cup {NoDoc} : ChangeCustody(d)
    \/ Restart
    \/ Tick

Spec == Init /\ [][Next]_vars

\* Threads and custody come back, with a result or an error.
FairSpec == Spec /\ \A b \in Browsers : WF_vars(Serve(b))
-----------------------------------------------------------------------------
(***************************************************************************)
(* Type invariant.                                                         *)
(***************************************************************************)
TypeOK ==
    /\ custody \in Documents \cup {NoDoc}
    /\ changes \in 0..MaxChanges
    /\ disk \in [Documents \X Pages -> Files]
    /\ job \in [Browsers -> JobType]
    /\ copy \in [Browsers -> [Pages -> Copies]]
    /\ cut \in SUBSET (Documents \X Pages)
    /\ gone \in [Documents -> 0..Day]

(***************************************************************************)
(* However many threads render a page at once, truncating each other's     *)
(* file, it ends whole: a file is half written only while somebody writes  *)
(* it or after a write was cut short, and only pages that exist have one.  *)
(***************************************************************************)
FilesAreAccountedFor ==
    \A k \in Documents \X Pages :
        /\ disk[k] # "absent" => k[2] \in Printed[k[1]]
        /\ disk[k] = "partial" =>
              k \in cut \/ \E b \in Browsers : job[b].pc = "write" /\ FileOf(b) = k

(***************************************************************************)
(* A 200 or a 304 leaves the browser with an image of the very page asked  *)
(* for, or the PDF, of the document custody held when the request read it: *)
(* neither the disk nor the browser passes off another page or version.    *)
(* Whoever rendered the page gets it whole, whatever other threads do to   *)
(* the file meanwhile: the image answered is the one in memory.            *)
(***************************************************************************)
PageIsTheOneAskedFor ==
    \A b \in Browsers :
        LET c == job[b].shown
        IN  job[b].pc = "answered" /\ job[b].status \in {200, 304}
            => /\ c # NoCopy
               /\ c.doc = job[b].doc /\ c.page = job[b].page
               /\ c.page \in Printed[c.doc]
               /\ job[b].rendered => c.body = "whole"

(***************************************************************************)
(* A file that custody no longer holds is shown no longer than a copy      *)
(* lasts and one request takes, from the disk, from a copy or renewed by a *)
(* 304: nothing but custody itself extends the life of a copy.             *)
(***************************************************************************)
PageIsRecent ==
    \A b \in Browsers :
        job[b].pc = "answered" /\ job[b].shown # NoCopy => job[b].late < Day

\* Every request for a page is answered.
EveryPageIsAnswered == \A b \in Browsers : Waiting(b) ~> job[b].pc = "answered"
-----------------------------------------------------------------------------
(***************************************************************************)
(* What a comment says of the program and the program does not do.         *)
(***************************************************************************)

\* records.py:56: a 304 says that the browser already has this version.
NotModifiedMeansItHasIt ==
    \A b \in Browsers :
        job[b].pc = "answered" /\ job[b].status = 304
        => job[b].shown.body = "whole"
=============================================================================
