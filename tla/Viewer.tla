------------------------------- MODULE Viewer -------------------------------
(***************************************************************************)
(* The viewer's backend process: the record endpoint with its in-memory    *)
(* cache (app/routers/records.py), the page endpoint with the Open Graph   *)
(* tags (app/main.py, index) and the PDF endpoint, over the chain          *)
(*                                                                         *)
(*    code -> identifier -> file in custody -> row -> view                 *)
(*                                                                         *)
(* Requests are coroutines of one event loop.  A request runs atomically   *)
(* up to its next await, so there is one action per stretch of code        *)
(* between two awaits, and everything else may happen at an await: other   *)
(* requests, the cache, custody and the ledger changing, time passing.     *)
(***************************************************************************)
EXTENDS RecordService

CONSTANTS
    Requests,      \* slots for requests in flight
    WellFormed,    \* codes that match CODE_PATTERN of app/main.py
    NoEntry,       \* nothing cached for a code
    TTL,           \* settings.record_cache_seconds
    CacheMax,      \* the 20000 of records.py
    MaxFlight,     \* the longest a request stays in flight (timeouts)
    MaxTime        \* bound on the clock

ASSUME WellFormedAssumption == WellFormed \subseteq Codes
ASSUME TTLAssumption        == TTL \in Nat
ASSUME CacheMaxAssumption   == CacheMax \in Nat
ASSUME MaxFlightAssumption  == MaxFlight \in Nat
ASSUME MaxTimeAssumption    == MaxTime \in Nat
ASSUME CodesAssumption      == Codes # {}

VARIABLES
    now,      \* time.monotonic()
    cache,    \* _cache: code -> (stamp, view)
    req       \* the coroutines

viewerVars == <<now, cache, req>>
vars == <<worldVars, viewerVars>>

Kinds == {"record", "index", "pdf"}

(***************************************************************************)
(* pc names the await a request is parked at: "custody" in storage.fetch,  *)
(* "lookup" in the HTTP call to the attestation service, "count" in        *)
(* page_count.  view is the answer, or at "count" the view that is about   *)
(* to be answered.  since, asOf and age are observations, never read by    *)
(* the program: when the request arrived, when it read the file, and how   *)
(* old its evidence was when it was answered.                              *)
(***************************************************************************)
ReqType ==
    [pc : {"idle", "custody", "lookup", "count", "answered"}, kind : Kinds,
     code : Codes, doc : Contents \cup {NoDoc}, view : Views,
     since : Nat, asOf : Nat, age : Nat]

\* asOf is an observation too: when the file behind the entry was read.
EntryType == [stamp : Nat, asOf : Nat, view : Views]

ASSUME NoEntryAssumption == NoEntry \notin EntryType

IdleRequest ==
    [pc |-> "idle", kind |-> "record", code |-> CHOOSE c \in Codes : TRUE,
     doc |-> NoDoc, view |-> NoView, since |-> 0, asOf |-> 0, age |-> 0]

Answer(kind, code, view, age) ==
    [pc |-> "answered", kind |-> kind, code |-> code, doc |-> NoDoc,
     view |-> view, since |-> 0, asOf |-> 0, age |-> age]

Fetching(kind, code) ==
    [pc |-> "custody", kind |-> kind, code |-> code, doc |-> NoDoc,
     view |-> NoView, since |-> now, asOf |-> 0, age |-> 0]

Reply(r, view, age) ==
    req' = [req EXCEPT ![r] = Answer(@.kind, @.code, view, age)]

InFlight(r) == req[r].pc \in {"custody", "lookup", "count"}

Init ==
    /\ WorldInit
    /\ now = 0
    /\ cache = [c \in Codes |-> NoEntry]
    /\ req = [r \in Requests |-> IdleRequest]
-----------------------------------------------------------------------------
\* Mutant: an entry never expires.
CachedAtAll(c) == cache[c] # NoEntry

\* The condition under which get_record answers from memory.
Live(c) == cache[c] # NoEntry /\ now - cache[c].stamp < TTL

\* Mutant: the page is described from the cache as well.
ServeCachedPage(r, c) ==
    /\ ~InFlight(r)
    /\ Live(c)
    /\ \E kind \in {"record", "index"} :
          req' = [req EXCEPT ![r] =
                    Answer(kind, c, cache[c].view, now - cache[c].asOf)]
    /\ UNCHANGED <<worldVars, now, cache>>

ServeCached(r, c) ==
    /\ ~InFlight(r)
    /\ Live(c)
    /\ req' = [req EXCEPT ![r] =
                 Answer("record", c, cache[c].view, now - cache[c].asOf)]
    /\ UNCHANGED <<worldVars, now, cache>>

(***************************************************************************)
(* Which requests go on to read custody: get_record past its cache, index  *)
(* only for a code that matches its pattern, get_pdf always.               *)
(***************************************************************************)
Proceeds(kind, c) ==
    CASE kind = "record" -> ~Live(c)
      [] kind = "index"  -> c \in WellFormed
      [] kind = "pdf"    -> TRUE

\* The code deciphers; the request awaits storage.fetch.
Begin(r, kind, c) ==
    /\ ~InFlight(r)
    /\ Proceeds(kind, c)
    /\ Decode[c] # NoIdentifier
    /\ req' = [req EXCEPT ![r] = Fetching(kind, c)]
    /\ UNCHANGED <<worldVars, now, cache>>

\* InvalidCode, or a page request whose code does not match the pattern.
RefuseCode(r, kind, c) ==
    /\ ~InFlight(r)
    /\ \/ Proceeds(kind, c) /\ Decode[c] = NoIdentifier
       \/ kind = "index" /\ c \notin WellFormed
    /\ req' = [req EXCEPT ![r] = Answer(kind, c, NotFoundView, 0)]
    /\ UNCHANGED <<worldVars, now, cache>>
-----------------------------------------------------------------------------
FileOf(r) == custody[Decode[req[r].code]]

\* storage.fetch returns: the PDF is answered (or a 304 to a browser that has
\* that very file), a lookup is sent otherwise.
FetchFound(r) ==
    /\ req[r].pc = "custody"
    /\ FileOf(r) # NoDoc
    /\ IF req[r].kind = "pdf"
       THEN Reply(r, SentView(FileOf(r)), 0)
       ELSE req' = [req EXCEPT ![r].pc = "lookup", ![r].doc = FileOf(r),
                               ![r].asOf = now]
    /\ UNCHANGED <<worldVars, now, cache>>

\* resolve() and resolve_document() treat a missing file and a failing
\* store alike; without a document there are no pages to count.
WithoutDocument(r) ==
    /\ Reply(r, IF req[r].kind = "pdf" THEN NotFoundView ELSE PendingView, 0)
    /\ UNCHANGED <<worldVars, now, cache>>

FetchMissing(r) == req[r].pc = "custody" /\ FileOf(r) = NoDoc /\ WithoutDocument(r)

FetchFails(r) == req[r].pc = "custody" /\ WithoutDocument(r)
-----------------------------------------------------------------------------
(***************************************************************************)
(* resolve() returned.  get_record goes on to count the pages; index       *)
(* builds its view at once, with a page count of zero.                     *)
(***************************************************************************)
Resolved(r, view) ==
    /\ IF req[r].kind = "record"
       THEN req' = [req EXCEPT ![r].pc = "count", ![r].view = view]
       ELSE IF ViewRaises(req[r].doc, view)
            THEN Reply(r, FailedView, 0)
            ELSE Reply(r, view, now - req[r].asOf)
    /\ UNCHANGED <<worldVars, now, cache>>

\* The service answers a row: the one asked for or, if it errs, another.
LookupAnswers(r, row) ==
    /\ req[r].pc = "lookup"
    /\ row \in VisibleRows(req[r].doc) \cup StrayRows(req[r].doc)
    /\ Resolved(r, ToView(req[r].doc, row))

\* Mutant: a miss falls through to the verified return.
MissVerifies(r) ==
    /\ req[r].pc = "lookup"
    /\ VisibleRows(req[r].doc) = {}
    /\ Resolved(r, View("verified", req[r].doc, FALSE))

\* RecordNotFound.
LookupMisses(r) ==
    /\ req[r].pc = "lookup"
    /\ VisibleRows(req[r].doc) = {}
    /\ Resolved(r, PendingView)

\* StampingError: a timeout, no connection, not JSON, an error code.
LookupFails(r) == req[r].pc = "lookup" /\ Resolved(r, PendingView)

\* The payload is JSON but not an object: an exception nothing handles.
LookupCrashes(r) ==
    /\ req[r].pc = "lookup"
    /\ Reply(r, FailedView, 0)
    /\ UNCHANGED <<worldVars, now, cache>>
-----------------------------------------------------------------------------
CacheSize == Cardinality({c \in Codes : cache[c] # NoEntry})

\* Mutant: the cache is never emptied.
StoreAlways(c, entry) == [cache EXCEPT ![c] = entry]

\* Mutant: the view is kept without its stamp.
StoreView(c, entry) == [cache EXCEPT ![c] = entry.view]

\* len(_cache) > 20000 is tested before the insertion, for a code that may
\* be in the cache already.
Store(c, entry) ==
    IF CacheSize > CacheMax
    THEN [[k \in Codes |-> NoEntry] EXCEPT ![c] = entry]
    ELSE [cache EXCEPT ![c] = entry]

\* Mutant: pending views are kept like verified ones.
CountAndKeep(r) ==
    /\ req[r].pc = "count"
    /\ req[r].doc \notin Unreadable
    /\ ~ViewRaises(req[r].doc, req[r].view)
    /\ Reply(r, req[r].view, now - req[r].asOf)
    /\ cache' = Store(req[r].code, [stamp |-> now, asOf |-> req[r].asOf,
                                    view |-> req[r].view])
    /\ UNCHANGED <<worldVars, now>>

\* page_count returned, to_view succeeded, and only a verified view is kept.
CountPages(r) ==
    /\ req[r].pc = "count"
    /\ req[r].doc \notin Unreadable
    /\ ~ViewRaises(req[r].doc, req[r].view)
    /\ Reply(r, req[r].view, now - req[r].asOf)
    /\ cache' = IF req[r].view.status = "verified"
                THEN Store(req[r].code, [stamp |-> now, asOf |-> req[r].asOf,
                                         view |-> req[r].view])
                ELSE cache
    /\ UNCHANGED <<worldVars, now>>

\* Mutant: the exception of a page count is lost with its thread.
CountHangs(r) ==
    /\ req[r].pc = "count"
    /\ ViewRaises(req[r].doc, req[r].view)
    /\ Reply(r, FailedView, 0)
    /\ UNCHANGED <<worldVars, now, cache>>

\* page_count or to_view raised: a 500, and nothing is cached.
CountFails(r) ==
    /\ req[r].pc = "count"
    /\ req[r].doc \in Unreadable \/ ViewRaises(req[r].doc, req[r].view)
    /\ Reply(r, FailedView, 0)
    /\ UNCHANGED <<worldVars, now, cache>>
-----------------------------------------------------------------------------
\* The process restarts: the cache is gone and so is every open connection.
Restart ==
    /\ cache' = [c \in Codes |-> NoEntry]
    /\ req' = [r \in Requests |->
                 IF InFlight(r) THEN Answer(req[r].kind, req[r].code, FailedView, 0)
                                ELSE req[r]]
    /\ UNCHANGED <<worldVars, now>>

\* Time passes, never so far that a request outlives its timeouts.
Tick ==
    /\ now < MaxTime
    /\ \A r \in Requests : InFlight(r) => now - req[r].since < MaxFlight
    /\ now' = now + 1
    /\ UNCHANGED <<worldVars, cache, req>>

WorldStep == World /\ UNCHANGED viewerVars

Arrive(r) ==
    \E c \in Codes :
        \/ ServeCached(r, c)
        \/ \E kind \in Kinds : Begin(r, kind, c) \/ RefuseCode(r, kind, c)

\* Steps a request takes at the awaits it is parked at.
Proceed(r) ==
    \/ FetchFound(r) \/ FetchMissing(r) \/ FetchFails(r)
    \/ \E row \in Rows : LookupAnswers(r, row)
    \/ LookupMisses(r) \/ LookupFails(r) \/ LookupCrashes(r)
    \/ CountPages(r) \/ CountFails(r)

Next ==
    \/ \E r \in Requests : Arrive(r) \/ Proceed(r)
    \/ Tick
    \/ WorldStep
    \/ Restart

Spec == Init /\ [][Next]_vars

\* An await ends: custody answers or fails, the HTTP client answers or times
\* out, the worker thread returns.  Nothing obliges a citizen to ask, the
\* outside world to change, or the process to restart.
FairSpec == Spec /\ \A r \in Requests : WF_vars(Proceed(r))
-----------------------------------------------------------------------------
(***************************************************************************)
(* Type invariant.                                                         *)
(***************************************************************************)
TypeOK ==
    /\ WorldTypeOK
    /\ now \in 0..MaxTime
    /\ cache \in [Codes -> EntryType \cup {NoEntry}]
    /\ req \in [Requests -> ReqType]

Genuine(c, view) ==
    /\ Decode[c] # NoIdentifier
    /\ view.evidence \in held[Decode[c]]
    /\ \E a \in Accounts :
          /\ <<a, view.evidence>> \in sealed
          /\ ExpectedIssuer # NoAccount => a = ExpectedIssuer
          /\ view.anchored => <<a, view.evidence>> \in anchored

(***************************************************************************)
(* The green tick is never wrong: every verified view, whether it was      *)
(* answered, lies in the cache or is about to be answered, names a file    *)
(* that custody held for the sheet of that very code, sealed by the        *)
(* expected issuer, and shows anchors only if that row was anchored.  It   *)
(* must survive files and rows changing between the two awaits of          *)
(* resolve(), entries written by one request and served to another, and a  *)
(* service that answers some other row.                                    *)
(***************************************************************************)
VerifiedIsGenuine ==
    /\ \A r \in Requests :
          req[r].view.status = "verified" => Genuine(req[r].code, req[r].view)
    /\ \A c \in Codes :
          cache[c] # NoEntry => Genuine(c, cache[c].view)

(***************************************************************************)
(* No citizen is shown evidence read from custody longer ago than the      *)
(* cache keeps a view plus the time one request may take: an entry is      *)
(* stamped when it is stored, not when its file was read, and a slow       *)
(* request may overwrite the entry of a fresher one.                       *)
(***************************************************************************)
EvidenceIsRecent ==
    \A r \in Requests :
        req[r].age <= IF TTL = 0 THEN MaxFlight ELSE TTL + MaxFlight - 1

\* The cache never holds more than its limit and one more: the size is tested
\* before the insertion, and testing and inserting are not split by an await.
CacheIsBounded == CacheSize <= CacheMax + 1

\* Every request is answered, however custody and the service behave.
EveryRequestIsAnswered == \A r \in Requests : InFlight(r) ~> req[r].pc = "answered"
-----------------------------------------------------------------------------
(***************************************************************************)
(* The viewer keeps the contract: a client hears the answers of its slot   *)
(* and nothing of what happens before them.                                *)
(***************************************************************************)
Silent == [code |-> NoIdentifier, status |-> "none", evidence |-> NoDoc]

Heard ==
    [r \in Requests |->
       IF req[r].pc = "answered"
       THEN [code |-> req[r].code, status |-> req[r].view.status,
             evidence |-> req[r].view.evidence]
       ELSE Silent]

Contract == INSTANCE VerifierContract WITH Clients <- Requests, answers <- Heard

\* Behind the cache, the awaits and the failures, the viewer only ever gives
\* warranted answers.
KeepsContract == Contract!Spec
=============================================================================
