--------------------------- MODULE PageCacheProofs ---------------------------
(***************************************************************************)
(* Proofs about PageCache for every set of browsers, documents and pages,  *)
(* every max-age and every time a request may take.                        *)
(***************************************************************************)
EXTENDS PageCache, TLAPS

LEMMA DayFact ==
  /\ MaxFlight \in Nat /\ MaxAge \in Nat /\ Day \in Nat
  /\ 0 < Day /\ MaxFlight < Day /\ MaxAge <= Day
  BY AgeAssumption, BoundAssumption DEF Day

(***************************************************************************)
(* What holds of a request at each of its steps.  From the moment it has   *)
(* read the document its age bounds how long that document may have been   *)
(* gone; that is what makes its answer recent, and no later step asks      *)
(* custody again.                                                          *)
(***************************************************************************)
JobOK(q) ==
    /\ q \in JobType
    /\ q.pc \in {"read", "render", "write"} => q.doc \in Documents /\ gone[q.doc] <= q.age
    /\ q.pc = "read" => disk[<<q.doc, q.page>>] # "absent"
    /\ q.pc = "write" => q.page \in Printed[q.doc]
    /\ q.shown # NoCopy => q.shown.page \in Printed[q.shown.doc]
    /\ q.pc = "answered" =>
          /\ q.status \in {200, 304} =>
                /\ q.shown # NoCopy
                /\ q.shown.doc = q.doc /\ q.shown.page = q.page
                /\ q.rendered => q.shown.body = "whole"
          /\ q.shown # NoCopy => q.late < Day

(***************************************************************************)
(* What holds of a browser's copy: what is left of its day and the time    *)
(* its document has been gone add up to no more than the longest allowed,  *)
(* and a tick moves both in opposite directions.                           *)
(***************************************************************************)
CopyOK(p, c) ==
    /\ c \in Copies
    /\ c # NoCopy => /\ c.shown.page = p
                     /\ p \in Printed[c.shown.doc]
                     /\ gone[c.shown.doc] + c.left <= Day

CopiesOK == \A b \in Browsers, p \in Pages : CopyOK(p, copy[b][p])

Inv ==
    /\ TypeOK
    /\ custody \in Documents => gone[custody] = 0
    /\ FilesAreAccountedFor
    /\ \A b \in Browsers : JobOK(job[b])
    /\ CopiesOK
-----------------------------------------------------------------------------
\* A request that carries no answer yet, or an answer without content.
LEMMA IdleFact ==
  /\ Idle \in JobType /\ Idle.shown = NoCopy /\ Idle.pc = "idle"
  /\ Idle.doc = NoDoc /\ Idle.age = 0 /\ Idle.status = 0
<1>1. (CHOOSE p \in Pages : TRUE) \in Pages
  BY PdfAssumption
<1> QED
  BY <1>1, DayFact DEF Idle, JobType

LEMMA FailedOK ==
  ASSUME NEW status \in {404, 500}
  PROVE  JobOK(Failed(status))
<1>1. PICK q \in JobType : q = Idle
  BY IdleFact
<1>2. PICK f : f = [q EXCEPT !.pc = "answered", !.status = status]
  OBVIOUS
<1>3. /\ f.pc = "answered" /\ f.status = status /\ f.shown = q.shown /\ f.page = q.page
      /\ f.doc = q.doc /\ f.rendered = q.rendered /\ f.age = q.age /\ f.late = q.late
  BY <1>2 DEF JobType
<1>4. f = [pc |-> f.pc, page |-> f.page, doc |-> f.doc, status |-> f.status,
           shown |-> f.shown, rendered |-> f.rendered, age |-> f.age, late |-> f.late]
  BY <1>2, ZenonT(60) DEF JobType
<1>5. f \in JobType
  BY <1>3, <1>4 DEF JobType
<1>6. JobOK(f)
  BY <1>1, <1>3, <1>5, IdleFact DEF JobOK
<1>7. Failed(status) = f
  BY <1>1, <1>2 DEF Failed
<1> QED
  BY <1>6, <1>7

\* The parts of a request, with their types.
LEMMA JobFact ==
  ASSUME Inv, NEW b \in Browsers
  PROVE  /\ JobOK(job[b]) /\ job[b] \in JobType
         /\ job[b].page \in Pages /\ job[b].doc \in Documents \cup {NoDoc}
         /\ job[b].age \in 0..MaxFlight
  BY DEF Inv, JobOK, JobType

LEMMA CopyFact ==
  ASSUME Inv, NEW b \in Browsers, NEW p \in Pages, copy[b][p] # NoCopy
  PROVE  /\ copy[b][p].shown \in Shown /\ copy[b][p].left \in 0..MaxAge
         /\ copy[b][p].shown.page = p /\ p \in Printed[copy[b][p].shown.doc]
         /\ copy[b][p].shown.doc \in Documents
         /\ gone[copy[b][p].shown.doc] + copy[b][p].left <= Day
  BY DEF Inv, CopiesOK, CopyOK, Copies, Shown

LEMMA GoneFact ==
  ASSUME Inv, NEW d \in Documents
  PROVE  gone[d] \in 0..Day /\ gone[d] \in Nat
  BY DayFact DEF Inv, TypeOK

LEMMA InitInv == Init => Inv
<1> SUFFICES ASSUME Init PROVE Inv
  OBVIOUS
<1>1. 0 \in 0..Day /\ Day \in 0..Day /\ 0 \in 0..MaxChanges
  BY DayFact, BoundAssumption
<1>2. TypeOK
  BY <1>1, IdleFact DEF Init, TypeOK, Files, Copies
<1>3. FilesAreAccountedFor
  BY DEF Init, FilesAreAccountedFor
<1>4. JobOK(Idle)
  BY IdleFact DEF JobOK
<1>5. CopiesOK
  BY DEF Init, CopiesOK, CopyOK, Copies
<1> QED
  BY <1>2, <1>3, <1>4, <1>5 DEF Init, Inv
-----------------------------------------------------------------------------
(***************************************************************************)
(* A step of one request, while custody and time stand still: files only   *)
(* come into being, so what another request found is still there.          *)
(***************************************************************************)
LEMMA RequestStep ==
  ASSUME Inv, NEW b \in Browsers, NEW q,
         UNCHANGED <<custody, changes, gone>>,
         job' = [job EXCEPT ![b] = q], JobOK(q),
         disk' \in [Documents \X Pages -> Files],
         \A k \in Documents \X Pages : disk[k] # "absent" => disk'[k] # "absent",
         cut' \in SUBSET (Documents \X Pages), FilesAreAccountedFor',
         copy' \in [Browsers -> [Pages -> Copies]], CopiesOK'
  PROVE  Inv'
<1>1. job' \in [Browsers -> JobType]
  BY DEF Inv, TypeOK, JobOK
<1>2. TypeOK'
  BY <1>1 DEF Inv, TypeOK
<1>3. ASSUME NEW c \in Browsers
      PROVE  JobOK(job[c])'
  <2>1. JobOK(job'[c])
    BY DEF Inv, TypeOK
  <2>2. job'[c].pc = "read" => <<job'[c].doc, job'[c].page>> \in Documents \X Pages
    BY <2>1 DEF JobOK, JobType
  <2> QED
    BY <2>1, <2>2 DEF JobOK
<1> QED
  BY <1>2, <1>3 DEF Inv

\* The same of a request that is not writing a file.
LEMMA QuietStep ==
  ASSUME Inv, NEW b \in Browsers, NEW q, job[b].pc # "write",
         UNCHANGED <<custody, changes, disk, cut, gone>>,
         job' = [job EXCEPT ![b] = q], JobOK(q),
         copy' \in [Browsers -> [Pages -> Copies]], CopiesOK'
  PROVE  Inv'
<1>1. FilesAreAccountedFor'
  <2>1. ASSUME NEW c \in Browsers, job[c].pc = "write"
        PROVE  job'[c] = job[c]
    BY <2>1 DEF Inv, TypeOK
  <2> QED
    BY <2>1 DEF Inv, FilesAreAccountedFor, FileOf
<1> QED
  BY <1>1, RequestStep DEF Inv, TypeOK

\* The same of a request that leaves the browser's copies alone, too.
LEMMA PlainStep ==
  ASSUME Inv, NEW b \in Browsers, NEW q, job[b].pc # "write",
         UNCHANGED <<custody, changes, disk, copy, cut, gone>>,
         job' = [job EXCEPT ![b] = q], JobOK(q)
  PROVE  Inv'
<1>1. copy' \in [Browsers -> [Pages -> Copies]] /\ CopiesOK'
  BY DEF Inv, TypeOK, CopiesOK, CopyOK
<1> QED
  BY <1>1, QuietStep
-----------------------------------------------------------------------------
\* The browser is shown something of a document that is recent enough.
LEMMA ShownOK ==
  ASSUME NEW q \in JobType, q.pc = "answered", q.shown \in Shown,
         q.shown.doc = q.doc, q.shown.page = q.page, q.page \in Printed[q.doc],
         q.late < Day, q.rendered => q.shown.body = "whole"
  PROVE  JobOK(q)
  BY NoCopyAssumption DEF JobOK

\* What Shows writes, when it is.
LEMMA ShowsOK ==
  ASSUME Inv, NEW b \in Browsers, NEW d \in Documents, NEW status \in {200, 304},
         NEW c \in Shown, NEW rendered \in BOOLEAN, c.doc = d, c.page = job[b].page,
         c.page \in Printed[d], gone[d] < Day, rendered => c.body = "whole",
         Shows(b, d, status, c, rendered)
  PROVE  \E q : job' = [job EXCEPT ![b] = q] /\ JobOK(q)
<1>1. PICK p \in Pages : p = job[b].page
  BY JobFact
<1>2. PICK l \in 0..Day : l = gone[d]
  BY GoneFact
<1>3. PICK q : q = [pc |-> "answered", page |-> p, doc |-> d, status |-> status,
                    shown |-> c, rendered |-> rendered, age |-> 0, late |-> l]
  OBVIOUS
<1>4. q \in JobType
  BY <1>3, DayFact DEF JobType
<1>5. JobOK(q)
  BY <1>1, <1>2, <1>3, <1>4, ShownOK
<1>6. job' = [job EXCEPT ![b] = q]
  BY <1>1, <1>2, <1>3 DEF Shows
<1> QED
  BY <1>5, <1>6

\* What the browser keeps of it is in order.
LEMMA KeepsOK ==
  ASSUME Inv, NEW b \in Browsers, NEW s \in Shown, UNCHANGED gone,
         s.page \in Printed[s.doc], gone[s.doc] + MaxAge <= Day, Keeps(b, s)
  PROVE  copy' \in [Browsers -> [Pages -> Copies]] /\ CopiesOK'
<1> DEFINE c == [shown |-> s, left |-> MaxAge]
<1>1. s.page \in Pages
  BY DEF Shown
<1>2. c \in Copies /\ c.shown = s /\ c.left = MaxAge
  BY DayFact DEF Copies
<1>3. CopyOK(s.page, c)
  BY <1>2 DEF CopyOK
<1>4. copy' = copy \/ copy' = [copy EXCEPT ![b][s.page] = c]
  BY DEF Keeps
<1> HIDE DEF c
<1>5. copy \in [Browsers -> [Pages -> Copies]] /\ CopiesOK
  BY DEF Inv, TypeOK
<1>6. copy' \in [Browsers -> [Pages -> Copies]]
  BY <1>1, <1>2, <1>4, <1>5
<1>7. ASSUME NEW a \in Browsers, NEW x \in Pages
      PROVE  CopyOK(x, copy'[a][x])
  BY <1>1, <1>3, <1>4, <1>5 DEF CopiesOK
<1>8. CopiesOK'
  BY <1>7 DEF CopiesOK, CopyOK
<1> QED
  BY <1>6, <1>8

\* What a request that is answered shows and keeps.
LEMMA SendsOK ==
  ASSUME Inv, NEW b \in Browsers, NEW d \in Documents, NEW body \in Bodies,
         NEW rendered \in BOOLEAN, Sends(b, d, body, rendered), UNCHANGED gone,
         job[b].page \in Printed[d], gone[d] <= MaxFlight, rendered => body = "whole"
  PROVE  /\ \E q : job' = [job EXCEPT ![b] = q] /\ JobOK(q)
         /\ copy' \in [Browsers -> [Pages -> Copies]] /\ CopiesOK'
<1> DEFINE s == [doc |-> d, page |-> job[b].page, body |-> body]
<1>1. job[b].page \in Pages
  BY JobFact
<1>2. gone[d] < Day /\ gone[d] + MaxAge <= Day
  BY GoneFact, DayFact DEF Day
<1>3. Keeps(b, s) /\ Shows(b, d, 200, s, rendered)
  BY DEF Sends
<1>0. s \in Shown /\ s.doc = d /\ s.page = job[b].page /\ s.body = body
  BY <1>1 DEF Shown
<1> HIDE DEF s
<1>4. copy' \in [Browsers -> [Pages -> Copies]] /\ CopiesOK'
  BY <1>0, <1>2, <1>3, KeepsOK
<1>5. \E q : job' = [job EXCEPT ![b] = q] /\ JobOK(q)
  BY <1>0, <1>1, <1>2, <1>3, ShowsOK
<1> QED
  BY <1>4, <1>5
-----------------------------------------------------------------------------
LEMMA AskInv ==
  ASSUME Inv, NEW b \in Browsers, NEW p \in Pages, Ask(b, p)
  PROVE  Inv'
<1>1. PICK q \in JobType : q = Idle
  BY IdleFact
<1>2. PICK f : f = [q EXCEPT !.pc = "fetch", !.page = p]
  OBVIOUS
<1>3. /\ f.pc = "fetch" /\ f.page = p /\ f.status = q.status /\ f.shown = q.shown
      /\ f.doc = q.doc /\ f.rendered = q.rendered /\ f.age = q.age /\ f.late = q.late
  BY <1>2 DEF JobType
<1>4. f = [pc |-> f.pc, page |-> f.page, doc |-> f.doc, status |-> f.status,
           shown |-> f.shown, rendered |-> f.rendered, age |-> f.age, late |-> f.late]
  BY <1>2 DEF JobType
<1>5. f \in JobType
  BY <1>3, <1>4 DEF JobType
<1>6. JobOK(f)
  BY <1>1, <1>3, <1>5, IdleFact DEF JobOK
<1>7. job' = [job EXCEPT ![b] = f]
  BY <1>1, <1>2 DEF Ask
<1>8. job[b].pc # "write"
  BY DEF Ask, Waiting
<1> QED
  BY <1>6, <1>7, <1>8, PlainStep DEF Ask

\* The browser's own copy is shown as long as something is left of its day.
LEMMA ShowOwnInv ==
  ASSUME Inv, NEW b \in Browsers, NEW p \in Pages, ShowOwn(b, p)
  PROVE  Inv'
<1> DEFINE own == copy[b][p].shown
<1>1. /\ own \in Shown /\ own.page = p /\ p \in Printed[own.doc] /\ own.doc \in Documents
      /\ copy[b][p].left \in Nat /\ copy[b][p].left > 0
      /\ gone[own.doc] + copy[b][p].left <= Day
  BY CopyFact, DayFact DEF ShowOwn, Fresh
<1>2. gone[own.doc] < Day
  BY <1>1, GoneFact, DayFact
<1>3. PICK c : c = own
  OBVIOUS
<1>4. PICK q \in JobType : q = Idle
  BY IdleFact
<1>5. PICK l \in 0..Day : l = gone[c.doc]
  BY <1>1, <1>3, GoneFact
<1>6. PICK f : f = [q EXCEPT !.pc = "answered", !.page = p, !.doc = c.doc, !.status = 200,
                             !.shown = c, !.late = l]
  OBVIOUS
<1>7. /\ f.pc = "answered" /\ f.page = p /\ f.doc = c.doc /\ f.status = 200
      /\ f.shown = c /\ f.rendered = q.rendered /\ f.age = q.age /\ f.late = l
  BY <1>6 DEF JobType
<1>8. f = [pc |-> f.pc, page |-> f.page, doc |-> f.doc, status |-> f.status,
           shown |-> f.shown, rendered |-> f.rendered, age |-> f.age, late |-> f.late]
  BY <1>6, ZenonT(60) DEF JobType
<1>9. JobOK(f)
  <2>1. /\ c \in Shown /\ c.page = p /\ p \in Printed[c.doc] /\ c.doc \in Documents
        /\ l < Day
    BY <1>1, <1>2, <1>3, <1>5
  <2>2. f \in JobType
    BY <1>7, <1>8, <2>1 DEF JobType
  <2>3. ~f.rendered
    BY <1>4, <1>7 DEF Idle
  <2> QED
    BY <1>7, <2>1, <2>2, <2>3, ShownOK
<1>11. job' = [job EXCEPT ![b] = f]
  BY <1>3, <1>4, <1>5, <1>6 DEF ShowOwn
<1>10. job[b].pc # "write"
  BY DEF ShowOwn, Waiting
<1> QED
  BY <1>9, <1>10, <1>11, PlainStep DEF ShowOwn
-----------------------------------------------------------------------------
\* A request that is given up before it writes, or that writes nothing.
LEMMA FailsInv ==
  ASSUME Inv, NEW b \in Browsers, NoDocument(b) \/ NoSuchPage(b) \/ RenderFails(b)
  PROVE  Inv'
<1>1. \E status \in {404, 500} : Fails(b, status)
  BY DEF NoDocument, NoSuchPage, RenderFails
<1>2. \E f : JobOK(f) /\ job' = [job EXCEPT ![b] = f]
  BY <1>1, FailedOK, ZenonT(60) DEF Fails
<1>3. job[b].pc # "write" /\ UNCHANGED <<custody, changes, disk, copy, cut, gone>>
  BY DEF NoDocument, NoSuchPage, RenderFails
<1> QED
  BY <1>2, <1>3, PlainStep

\* A 304 renews a copy only while custody holds the document, gone for 0.
LEMMA NotModifiedInv ==
  ASSUME Inv, NEW b \in Browsers, NotModified(b)
  PROVE  Inv'
<1> DEFINE p == job[b].page
           own == copy[b][p].shown
<1>1. p \in Pages /\ custody \in Documents
  BY JobFact DEF NotModified, Inv, TypeOK
<1>2. copy[b][p] # NoCopy /\ own.doc = custody
  BY DEF NotModified, Matches
<1>3. own \in Shown /\ own.page = p /\ p \in Printed[custody]
  BY <1>1, <1>2, CopyFact
<1>4. gone[custody] = 0
  BY <1>1 DEF Inv
<1>5. Keeps(b, own) /\ Shows(b, custody, 304, own, FALSE)
  BY DEF NotModified
<1>6. copy' \in [Browsers -> [Pages -> Copies]] /\ CopiesOK'
  <2>1. UNCHANGED gone /\ gone[own.doc] + MaxAge <= Day
    BY <1>2, <1>4, DayFact DEF NotModified
  <2> QED
    BY <1>2, <1>3, <1>5, <2>1, KeepsOK
<1>7. \E q : job' = [job EXCEPT ![b] = q] /\ JobOK(q)
  <2>1. gone[custody] < Day
    BY <1>4, DayFact
  <2>2. PICK c \in Shown : c = own
    BY <1>3
  <2>3. PICK d \in Documents : d = custody
    BY <1>1
  <2>4. Shows(b, d, 304, c, FALSE)
    BY <1>5, <2>2, <2>3
  <2>5. /\ c.doc = d /\ c.page = job[b].page /\ c.page \in Printed[d]
        /\ gone[d] < Day
    BY <1>2, <1>3, <2>1, <2>2, <2>3
  <2>6. PICK rendered \in BOOLEAN : ~rendered
    OBVIOUS
  <2>7. Shows(b, d, 304, c, rendered)
    BY <2>4, <2>6 DEF Shows
  <2> QED
    BY <2>5, <2>6, <2>7, ShowsOK
<1>8. job[b].pc # "write" /\ UNCHANGED <<custody, changes, disk, cut, gone>>
  BY DEF NotModified
<1> QED
  BY <1>6, <1>7, <1>8, QuietStep

LEMMA SendPdfInv ==
  ASSUME Inv, NEW b \in Browsers, SendPdf(b)
  PROVE  Inv'
<1>1. custody \in Documents /\ Pdf \in Printed[custody] /\ gone[custody] = 0
  BY PdfAssumption DEF SendPdf, Inv, TypeOK
<1>2. Sends(b, custody, "whole", FALSE)
  BY DEF SendPdf
<1>3. UNCHANGED gone /\ job[b].page \in Printed[custody] /\ gone[custody] <= MaxFlight
  BY <1>1, DayFact DEF SendPdf
<1>4. /\ \E q : job' = [job EXCEPT ![b] = q] /\ JobOK(q)
      /\ copy' \in [Browsers -> [Pages -> Copies]] /\ CopiesOK'
  BY <1>1, <1>2, <1>3, SendsOK DEF Bodies
<1> QED
  BY <1>4, QuietStep DEF SendPdf

\* The file is looked for on the event loop: a request that found one reads it.
LEMMA LocateInv ==
  ASSUME Inv, NEW b \in Browsers, Locate(b)
  PROVE  Inv'
<1>1. PICK q \in JobType : q = job[b]
  BY JobFact
<1>2. PICK d \in Documents : d = custody
  BY DEF Locate, Inv, TypeOK
<1>3. PICK at \in {"read", "render"} :
         at = IF disk[<<d, q.page>>] # "absent" THEN "read" ELSE "render"
  OBVIOUS
<1>4. PICK f : f = [q EXCEPT !.doc = d, !.pc = at]
  OBVIOUS
<1>5. /\ f.pc = at /\ f.page = q.page /\ f.status = q.status /\ f.shown = q.shown
      /\ f.doc = d /\ f.rendered = q.rendered /\ f.age = q.age /\ f.late = q.late
  BY <1>4 DEF JobType
<1>6. f = [pc |-> f.pc, page |-> f.page, doc |-> f.doc, status |-> f.status,
           shown |-> f.shown, rendered |-> f.rendered, age |-> f.age, late |-> f.late]
  BY <1>4, ZenonT(60) DEF JobType
<1>7. f \in JobType
  BY <1>5, <1>6 DEF JobType
<1>8. gone[d] <= f.age
  BY <1>2, <1>5, DayFact DEF Inv, JobType
<1>9. JobOK(q)
  BY <1>1, JobFact
<1>10. JobOK(f)
  BY <1>3, <1>5, <1>7, <1>8, <1>9 DEF JobOK
<1>11. job' = [job EXCEPT ![b] = f]
  BY <1>1, <1>2, <1>3, <1>4 DEF Locate, Inv, TypeOK
<1>12. \E x : JobOK(x) /\ job' = [job EXCEPT ![b] = x]
  BY <1>10, <1>11
<1> QED
  BY <1>12, PlainStep DEF Locate

\* Whatever the file holds by now, it is there, and of a page that exists.
LEMMA ReadFileInv ==
  ASSUME Inv, NEW b \in Browsers, ReadFile(b)
  PROVE  Inv'
<1>1. PICK d \in Documents : d = job[b].doc
  BY JobFact DEF ReadFile, JobOK
<1>2. FileOf(b) \in Documents \X Pages /\ FileOf(b) = <<d, job[b].page>>
  BY <1>1, JobFact DEF FileOf
<1>3. disk[FileOf(b)] # "absent" /\ disk[FileOf(b)] \in Files
  BY <1>1, <1>2, JobFact DEF ReadFile, JobOK, Inv, TypeOK
<1>4. PICK body \in Bodies : body = disk[FileOf(b)]
  BY <1>3 DEF Files
<1>5. PICK rendered \in BOOLEAN : ~rendered
  OBVIOUS
<1>6. Sends(b, d, body, rendered)
  BY <1>1, <1>4, <1>5 DEF ReadFile
<1>7. job[b].page \in Printed[d]
  BY <1>2, <1>3 DEF Inv, FilesAreAccountedFor
<1>8. gone[d] <= MaxFlight
  <2>1. gone[d] <= job[b].age
    BY <1>1, JobFact DEF ReadFile, JobOK
  <2> QED
    BY <2>1, JobFact, GoneFact, DayFact
<1>9. UNCHANGED gone
  BY DEF ReadFile
<1>10. /\ \E q : job' = [job EXCEPT ![b] = q] /\ JobOK(q)
       /\ copy' \in [Browsers -> [Pages -> Copies]] /\ CopiesOK'
  BY <1>5, <1>6, <1>7, <1>8, <1>9, SendsOK
<1> QED
  BY <1>10, QuietStep DEF ReadFile
-----------------------------------------------------------------------------
\* A file is opened for a page that exists, by a request that will fill it.
LEMMA OpenFileInv ==
  ASSUME Inv, NEW b \in Browsers, OpenFile(b)
  PROVE  Inv'
<1>1. PICK q \in JobType : q = job[b]
  BY JobFact
<1>2. /\ JobOK(q) /\ q.pc = "render" /\ q.doc \in Documents /\ q.page \in Pages
      /\ q.page \in Printed[q.doc]
  <2>1. JobOK(q) /\ q.pc = "render" /\ q.page \in Printed[q.doc]
    BY <1>1, JobFact DEF OpenFile
  <2> QED
    BY <2>1 DEF JobOK, JobType
<1>3. PICK f : f = [q EXCEPT !.pc = "write"]
  OBVIOUS
<1>4. /\ f.pc = "write" /\ f.page = q.page /\ f.status = q.status /\ f.shown = q.shown
      /\ f.doc = q.doc /\ f.rendered = q.rendered /\ f.age = q.age /\ f.late = q.late
  BY <1>3 DEF JobType
<1>5. f = [pc |-> f.pc, page |-> f.page, doc |-> f.doc, status |-> f.status,
           shown |-> f.shown, rendered |-> f.rendered, age |-> f.age, late |-> f.late]
  BY <1>3 DEF JobType
<1>6. f \in JobType
  BY <1>4, <1>5 DEF JobType
<1>7. JobOK(f)
  BY <1>2, <1>4, <1>6 DEF JobOK
<1>8. job' = [job EXCEPT ![b] = f]
  BY <1>1, <1>3 DEF OpenFile, Goes, Inv, TypeOK
<1>9. PICK k \in Documents \X Pages : k = <<q.doc, q.page>>
  BY <1>2
<1>10. disk' = [disk EXCEPT ![k] = "partial"] /\ disk \in [Documents \X Pages -> Files]
  BY <1>1, <1>9 DEF OpenFile, FileOf, Inv, TypeOK
<1>11. /\ disk' \in [Documents \X Pages -> Files]
       /\ \A x \in Documents \X Pages : disk[x] # "absent" => disk'[x] # "absent"
  BY <1>10 DEF Files, Bodies
<1>12. FilesAreAccountedFor'
  <2>1. ASSUME NEW x \in Documents \X Pages, x # k
        PROVE  /\ disk'[x] = disk[x]
               /\ \A c \in Browsers : job[c].pc = "write" => job'[c] = job[c]
    BY <1>1, <1>2, <1>8, <1>10, <2>1 DEF Inv, TypeOK
  <2>2. job'[b] = f /\ k[1] = q.doc /\ k[2] = q.page
    BY <1>8, <1>9 DEF Inv, TypeOK
  <2>3. (FileOf(b) = k)' /\ job'[b].pc = "write"
    BY <1>4, <1>9, <2>2 DEF FileOf
  <2>4. UNCHANGED cut
    BY DEF OpenFile
  <2> QED
    BY <1>2, <2>1, <2>2, <2>3, <2>4 DEF FilesAreAccountedFor, FileOf, Inv
<1>13. /\ UNCHANGED <<custody, changes, gone>>
       /\ cut' \in SUBSET (Documents \X Pages)
       /\ copy' \in [Browsers -> [Pages -> Copies]] /\ CopiesOK'
  BY DEF OpenFile, Inv, TypeOK, CopiesOK, CopyOK
<1>14. \E x : JobOK(x) /\ job' = [job EXCEPT ![b] = x]
  BY <1>7, <1>8
<1> QED
  BY <1>11, <1>12, <1>13, <1>14, RequestStep

\* The file is whole again, whoever else is writing it.
LEMMA WriteFileInv ==
  ASSUME Inv, NEW b \in Browsers, WriteFile(b)
  PROVE  Inv'
<1>1. /\ JobOK(job[b]) /\ job[b].pc = "write" /\ job[b].page \in Pages
      /\ job[b].age \in 0..MaxFlight
  BY JobFact DEF WriteFile
<1>2. PICK d \in Documents : d = job[b].doc
  BY <1>1 DEF JobOK
<1>3. job[b].page \in Printed[d] /\ gone[d] <= MaxFlight
  <2>1. job[b].page \in Printed[d] /\ gone[d] <= job[b].age
    BY <1>1, <1>2 DEF JobOK
  <2> QED
    BY <1>1, <2>1, GoneFact, DayFact
<1>4. PICK rendered \in BOOLEAN : rendered
  OBVIOUS
<1>5. Sends(b, d, "whole", rendered) /\ UNCHANGED gone
  BY <1>2, <1>4 DEF WriteFile
<1>6. /\ \E q : job' = [job EXCEPT ![b] = q] /\ JobOK(q)
      /\ copy' \in [Browsers -> [Pages -> Copies]] /\ CopiesOK'
  BY <1>3, <1>5, SendsOK DEF Bodies
<1>7. PICK k \in Documents \X Pages : k = FileOf(b)
  BY <1>1, <1>2 DEF FileOf
<1>8. disk' = [disk EXCEPT ![k] = "whole"] /\ disk \in [Documents \X Pages -> Files]
  BY <1>7 DEF WriteFile, Inv, TypeOK
<1>9. /\ disk' \in [Documents \X Pages -> Files]
      /\ \A x \in Documents \X Pages : disk[x] # "absent" => disk'[x] # "absent"
  BY <1>8 DEF Files, Bodies
<1>10. FilesAreAccountedFor'
  <2>1. k[1] = d /\ k[2] = job[b].page
    BY <1>2, <1>7 DEF FileOf
  <2>2. \A c \in Browsers \ {b} : job'[c] = job[c]
    BY <1>6 DEF Inv, TypeOK
  <2>3. \A x \in (Documents \X Pages) \ {k} : disk'[x] = disk[x]
    BY <1>8
  <2>4. disk'[k] = "whole" /\ UNCHANGED cut
    BY <1>8 DEF WriteFile
  <2> QED
    BY <1>3, <1>7, <2>1, <2>2, <2>3, <2>4 DEF FilesAreAccountedFor, FileOf, Inv
<1>11. UNCHANGED <<custody, changes, gone>> /\ cut' \in SUBSET (Documents \X Pages)
  BY DEF WriteFile, Inv, TypeOK
<1> QED
  BY <1>6, <1>9, <1>10, <1>11, RequestStep

\* A write that was cut short is remembered.
LEMMA WriteFailsInv ==
  ASSUME Inv, NEW b \in Browsers, WriteFails(b)
  PROVE  Inv'
<1>1. /\ JobOK(job[b]) /\ job[b].pc = "write" /\ job[b].page \in Pages
  BY JobFact DEF WriteFails
<1>2. FileOf(b) \in Documents \X Pages
  BY <1>1 DEF JobOK, FileOf
<1>3. \E f : JobOK(f) /\ job' = [job EXCEPT ![b] = f]
  BY FailedOK, ZenonT(60) DEF WriteFails, Fails
<1>4. FilesAreAccountedFor'
  <2>1. \A c \in Browsers \ {b} : job'[c] = job[c]
    BY <1>3 DEF Inv, TypeOK
  <2>2. UNCHANGED disk /\ cut' = cut \cup {FileOf(b)}
    BY DEF WriteFails
  <2> QED
    BY <2>1, <2>2 DEF FilesAreAccountedFor, FileOf, Inv
<1>5. /\ UNCHANGED <<custody, changes, gone>>
      /\ disk' \in [Documents \X Pages -> Files]
      /\ \A x \in Documents \X Pages : disk[x] # "absent" => disk'[x] # "absent"
      /\ cut' \in SUBSET (Documents \X Pages)
      /\ copy' \in [Browsers -> [Pages -> Copies]] /\ CopiesOK'
  BY <1>2 DEF WriteFails, Inv, TypeOK, CopiesOK, CopyOK
<1> QED
  BY <1>3, <1>4, <1>5, RequestStep
-----------------------------------------------------------------------------
\* Every writer that dies leaves its file among those cut short.
LEMMA RestartInv ==
  ASSUME Inv, Restart
  PROVE  Inv'
<1>1. ASSUME NEW b \in Browsers
      PROVE  /\ \/ job'[b] = job[b] /\ job[b].pc # "write"
                \/ job'[b] = Failed(500)
             /\ JobOK(job'[b])
  BY JobFact, FailedOK DEF Restart, Waiting
<1>2. job' \in [Browsers -> JobType]
  BY <1>1 DEF Restart, JobOK
<1>3. cut' \in SUBSET (Documents \X Pages)
  <2>1. ASSUME NEW b \in Browsers, job[b].pc = "write"
        PROVE  FileOf(b) \in Documents \X Pages
    BY <2>1, JobFact DEF JobOK, FileOf
  <2> QED
    BY <2>1 DEF Restart, Inv, TypeOK
<1>4. TypeOK'
  BY <1>2, <1>3 DEF Restart, Inv, TypeOK
<1>5. FilesAreAccountedFor'
  BY DEF Restart, Inv, FilesAreAccountedFor
<1>6. \A b \in Browsers : JobOK(job[b])'
  BY <1>1 DEF Restart, JobOK
<1> QED
  BY <1>4, <1>5, <1>6 DEF Restart, Inv, CopiesOK, CopyOK

\* A change of custody only makes documents less gone.
LEMMA ChangeCustodyInv ==
  ASSUME Inv, NEW d \in Documents \cup {NoDoc}, ChangeCustody(d)
  PROVE  Inv'
<1>1. ASSUME NEW x \in Documents
      PROVE  gone'[x] \in 0..Day /\ gone'[x] <= gone[x] /\ (x = d => gone'[x] = 0)
  BY GoneFact, DayFact DEF ChangeCustody
<1>2. custody' = d /\ UNCHANGED <<disk, job, copy, cut>>
  BY DEF ChangeCustody
<1>3. TypeOK'
  <2>1. changes' \in 0..MaxChanges
    BY BoundAssumption DEF ChangeCustody, Inv, TypeOK
  <2>2. gone' \in [Documents -> 0..Day]
    BY <1>1 DEF ChangeCustody
  <2> QED
    BY <1>2, <2>1, <2>2 DEF Inv, TypeOK
<1>4. FilesAreAccountedFor'
  BY <1>2 DEF Inv, FilesAreAccountedFor, FileOf
<1>5. ASSUME NEW b \in Browsers
      PROVE  JobOK(job[b])'
  <2>1. /\ JobOK(job[b]) /\ job[b].age \in Nat
        /\ job[b].pc \in {"read", "render", "write"} => job[b].doc \in Documents
    BY JobFact, DayFact DEF JobOK
  <2>2. job[b].pc \in {"read", "render", "write"} => gone'[job[b].doc] <= job[b].age
    <3> SUFFICES ASSUME job[b].pc \in {"read", "render", "write"}
                 PROVE  gone'[job[b].doc] <= job[b].age
      OBVIOUS
    <3>1. gone[job[b].doc] <= job[b].age
      BY <2>1 DEF JobOK
    <3> QED
      BY <1>1, <2>1, <3>1, GoneFact
  <2> QED
    BY <1>2, <2>1, <2>2 DEF JobOK
<1>6. ASSUME NEW b \in Browsers, NEW p \in Pages
      PROVE  CopyOK(p, copy[b][p])'
  <2>1. CASE copy[b][p] = NoCopy
    BY <1>2, <2>1 DEF CopyOK, Copies
  <2>2. CASE copy[b][p] # NoCopy
    <3>1. gone'[copy[b][p].shown.doc] + copy[b][p].left <= Day
      BY <1>1, <2>2, CopyFact, GoneFact, DayFact
    <3>2. CopyOK(p, copy[b][p])
      BY DEF Inv, CopiesOK
    <3> QED
      BY <1>2, <3>1, <3>2 DEF CopyOK
  <2> QED
    BY <2>1, <2>2
<1> QED
  BY <1>1, <1>2, <1>3, <1>4, <1>5, <1>6 DEF Inv, CopiesOK

(***************************************************************************)
(* A tick: what a request read is gone for one more at most, and so is its *)
(* age; a copy loses one of its day for every one its document is gone.    *)
(***************************************************************************)
LEMMA TickGone ==
  ASSUME Inv, Tick, NEW d \in Documents
  PROVE  gone'[d] \in 0..Day /\ gone'[d] <= gone[d] + 1
<1>1. gone'[d] = IF d = custody \/ gone[d] = Day THEN gone[d] ELSE gone[d] + 1
  BY Zenon DEF Tick
<1> QED
  BY <1>1, GoneFact, DayFact

LEMMA TickJob ==
  ASSUME Inv, Tick, NEW b \in Browsers
  PROVE  /\ job'[b].pc = job[b].pc /\ job'[b].doc = job[b].doc /\ job'[b].page = job[b].page
         /\ JobOK(job[b])'
<1>1. PICK q \in JobType : q = job[b]
  BY JobFact
<1>2. JobOK(q) /\ q.age \in Nat
  BY <1>1, JobFact, DayFact
<1>3. ASSUME NEW x \in Documents
      PROVE  gone'[x] <= gone[x] + 1 /\ gone'[x] \in Nat /\ gone[x] \in Nat
  BY TickGone, GoneFact, DayFact
<1>4. CASE ~Holding(b)
  <2>1. job'[b] = q
    BY <1>1, <1>4 DEF Tick
  <2>2. q.pc \notin {"read", "render", "write"}
    BY <1>1, <1>4 DEF Holding
  <2> QED
    BY <1>1, <1>2, <2>1, <2>2 DEF JobOK
<1>5. CASE Holding(b)
  <2>1. PICK f : f = [q EXCEPT !.age = q.age + 1]
    OBVIOUS
  <2>2. /\ f.pc = q.pc /\ f.page = q.page /\ f.status = q.status /\ f.shown = q.shown
        /\ f.doc = q.doc /\ f.rendered = q.rendered /\ f.age = q.age + 1 /\ f.late = q.late
    BY <2>1 DEF JobType
  <2>3. f = [pc |-> f.pc, page |-> f.page, doc |-> f.doc, status |-> f.status,
             shown |-> f.shown, rendered |-> f.rendered, age |-> f.age, late |-> f.late]
    BY <2>1 DEF JobType
  <2>4. f.age \in 0..MaxFlight
    BY <1>1, <1>2, <1>5, <2>2, DayFact DEF Tick
  <2>5. f \in JobType
    BY <2>2, <2>3, <2>4 DEF JobType
  <2>6. job'[b] = f
    BY <1>1, <1>5, <2>1 DEF Tick
  <2>7. q.pc \in {"read", "render", "write"} /\ q.doc \in Documents /\ gone[q.doc] <= q.age
    BY <1>1, <1>2, <1>5 DEF Holding, JobOK
  <2>8. gone'[f.doc] <= f.age
    BY <1>2, <1>3, <2>2, <2>7
  <2>9. UNCHANGED disk
    BY DEF Tick
  <2> QED
    BY <1>1, <1>2, <2>2, <2>5, <2>6, <2>7, <2>8, <2>9 DEF JobOK
<1> QED
  BY <1>4, <1>5

LEMMA TickCopy ==
  ASSUME Inv, Tick, NEW b \in Browsers, NEW p \in Pages
  PROVE  CopyOK(p, copy[b][p])'
<1>1. copy'[b][p] = Older(copy[b][p])
  BY DEF Tick
<1>2. CASE copy[b][p] = NoCopy
  BY <1>1, <1>2 DEF CopyOK, Copies, Older
<1>3. CASE copy[b][p] # NoCopy
  <2>1. PICK c \in [shown : Shown, left : 0..MaxAge] : c = copy[b][p]
    BY <1>3 DEF Inv, CopiesOK, CopyOK, Copies
  <2>2. /\ c.shown \in Shown /\ c.left \in Nat /\ c.left <= MaxAge /\ c.shown.page = p
        /\ p \in Printed[c.shown.doc] /\ c.shown.doc \in Documents
        /\ gone[c.shown.doc] + c.left <= Day
    BY <1>3, <2>1, CopyFact, DayFact
  <2>3. PICK l \in 0..MaxAge : l = IF c.left = 0 THEN 0 ELSE c.left - 1
    BY <2>2, DayFact
  <2>4. Older(c) = [shown |-> c.shown, left |-> l]
    BY <1>3, <2>1, <2>3 DEF Older
  <2>5. gone'[c.shown.doc] + l <= Day
    BY <2>2, <2>3, GoneFact, TickGone, DayFact
  <2>6. Older(c) \in Copies /\ Older(c).shown = c.shown /\ Older(c).left = l
    BY <2>2, <2>4 DEF Copies
  <2> QED
    BY <1>1, <2>1, <2>2, <2>5, <2>6 DEF CopyOK
<1> QED
  BY <1>2, <1>3

LEMMA TickInv ==
  ASSUME Inv, Tick
  PROVE  Inv'
<1>1. job' \in [Browsers -> JobType]
  BY TickJob DEF Tick, JobOK
<1>2. copy' \in [Browsers -> [Pages -> Copies]]
  BY TickCopy DEF Tick, CopyOK
<1>3. gone' \in [Documents -> 0..Day]
  <2>1. \A x \in Documents : gone'[x] \in 0..Day
    BY TickGone
  <2> QED
    BY <2>1 DEF Tick
<1>4. TypeOK'
  BY <1>1, <1>2, <1>3 DEF Tick, Inv, TypeOK
<1>5. FilesAreAccountedFor'
  BY TickJob DEF Tick, Inv, FilesAreAccountedFor, FileOf
<1>6. custody' \in Documents => gone'[custody'] = 0
  BY DEF Tick, Inv
<1> QED
  BY <1>4, <1>5, <1>6, TickJob, TickCopy DEF Inv, CopiesOK
-----------------------------------------------------------------------------
LEMMA NextInv == Inv /\ [Next]_vars => Inv'
<1> SUFFICES ASSUME Inv, [Next]_vars PROVE Inv'
  OBVIOUS
<1>1. ASSUME NEW b \in Browsers, Serve(b) PROVE Inv'
  BY <1>1, FailsInv, NotModifiedInv, SendPdfInv, LocateInv, ReadFileInv, OpenFileInv,
     WriteFileInv, WriteFailsInv DEF Serve
<1>2. ASSUME NEW b \in Browsers, NEW p \in Pages, Ask(b, p) \/ ShowOwn(b, p) PROVE Inv'
  BY <1>2, AskInv, ShowOwnInv
<1>3. ASSUME NEW d \in Documents \cup {NoDoc}, ChangeCustody(d) PROVE Inv'
  BY <1>3, ChangeCustodyInv
<1>4. CASE Restart
  BY <1>4, RestartInv
<1>5. CASE Tick
  BY <1>5, TickInv
<1>6. CASE UNCHANGED vars
  BY <1>6 DEF vars, Inv, TypeOK, FilesAreAccountedFor, FileOf, JobOK, CopiesOK, CopyOK
<1> QED
  BY <1>1, <1>2, <1>3, <1>4, <1>5, <1>6 DEF Next

LEMMA Invariance == Spec => []Inv
<1> QED
  BY InitInv, NextInv, PTL DEF Spec

(***************************************************************************)
(* Type correctness of the page cache: no age, no remaining max-age and no *)
(* time a document has been gone leaves its range.                         *)
(***************************************************************************)
THEOREM TypeCorrect == Spec => []TypeOK
<1>1. Inv => TypeOK
  BY DEF Inv
<1> QED
  BY <1>1, Invariance, PTL

(***************************************************************************)
(* However many requests write the image of a page at once, and wherever   *)
(* the process stops, a half-written file is one that somebody is writing  *)
(* or whose write was cut short (PageRenderer.page).                       *)
(***************************************************************************)
THEOREM FilesAreAlwaysAccountedFor == Spec => []FilesAreAccountedFor
<1>1. Inv => FilesAreAccountedFor
  BY DEF Inv
<1> QED
  BY <1>1, Invariance, PTL

(***************************************************************************)
(* A 200 or a 304 of get_page or get_pdf leaves the browser with the page  *)
(* it asked for, of the document the request read, and whoever rendered    *)
(* it gets it whole.                                                       *)
(***************************************************************************)
THEOREM PageIsAlwaysTheOneAskedFor == Spec => []PageIsTheOneAskedFor
<1>1. Inv => PageIsTheOneAskedFor
  BY ZenonT(60) DEF Inv, JobOK, PageIsTheOneAskedFor
<1> QED
  BY <1>1, Invariance, PTL

(***************************************************************************)
(* What is shown, custody held less than one max-age and one request ago,  *)
(* whichever way it came: neither the disk nor a 304 adds to that time.    *)
(***************************************************************************)
THEOREM PageIsAlwaysRecent == Spec => []PageIsRecent
<1>1. Inv => PageIsRecent
  BY DEF Inv, JobOK, PageIsRecent
<1> QED
  BY <1>1, Invariance, PTL
=============================================================================
