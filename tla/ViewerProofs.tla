---------------------------- MODULE ViewerProofs ----------------------------
(***************************************************************************)
(* Proofs about Viewer for every set of codes, sheets, files, accounts and *)
(* requests, every lifetime of the cache and every timeout; then, with the *)
(* witnesses of ViewerHistory: what a citizen is told when nothing failed  *)
(* and the world stood still is what the world says, however many requests *)
(* share the cache and wherever each of them waits.                        *)
(***************************************************************************)
EXTENDS ViewerHistory, TLAPS, FiniteSetTheorems

\* The oldest evidence an answer may show.
MaxAge == IF TTL = 0 THEN MaxFlight ELSE TTL + MaxFlight - 1

LEMMA MaxAgeFact == MaxAge \in Nat /\ MaxFlight <= MaxAge
  BY TTLAssumption, MaxFlightAssumption DEF MaxAge

(***************************************************************************)
(* What holds of a request at each of its awaits.  While it is parked the  *)
(* world moves on: what it read stays among the files ever held, and that  *)
(* is what makes the view it builds later genuine.                         *)
(***************************************************************************)
ReqOK(q) ==
    /\ q \in ReqType
    /\ q.pc \in {"custody", "lookup", "count"} =>
          /\ Decode[q.code] # NoIdentifier
          /\ q.since <= now /\ now - q.since <= MaxFlight
    /\ q.pc \in {"lookup", "count"} =>
          /\ q.doc \in held[Decode[q.code]]
          /\ q.since <= q.asOf /\ q.asOf <= now
    /\ q.pc = "count" => q.view.status \in {"verified", "pending"}
    /\ q.view.status = "verified" => Genuine(q.code, q.view)
    /\ q.pc = "answered" =>
          /\ q.view.status = "sent" =>
                /\ Decode[q.code] # NoIdentifier
                /\ q.view.evidence \in held[Decode[q.code]]
          /\ Decode[q.code] = NoIdentifier => q.view.status \in {"not_found", "failed"}
    /\ q.age <= MaxAge

\* What holds of a cache entry: it was stored within a request's flight.
EntryOK(c, e) ==
    /\ e \in EntryType
    /\ e.asOf <= e.stamp /\ e.stamp <= now /\ e.stamp - e.asOf <= MaxFlight
    /\ e.view.status = "verified" /\ Genuine(c, e.view)

CacheOK == \A c \in Codes : cache[c] # NoEntry => EntryOK(c, cache[c])

WorldInv ==
    /\ WorldTypeOK
    /\ \A i \in Identifiers : custody[i] # NoDoc => custody[i] \in held[i]

Inv ==
    /\ WorldInv
    /\ now \in 0..MaxTime
    /\ cache \in [Codes -> EntryType \cup {NoEntry}]
    /\ CacheOK
    /\ req \in [Requests -> ReqType]
    /\ \A r \in Requests : ReqOK(req[r])
-----------------------------------------------------------------------------
\* The views the program builds are views.
LEMMA ViewTypes ==
  /\ NoView \in Views /\ PendingView \in Views /\ NotFoundView \in Views
  /\ FailedView \in Views
  /\ \A d \in Contents : SentView(d) \in Views
  /\ \A d \in Contents, b \in BOOLEAN : View("verified", d, b) \in Views
  BY DEF NoView, PendingView, NotFoundView, FailedView, SentView, View, Views, Statuses

LEMMA ViewStatuses ==
  /\ NoView.status = "none" /\ PendingView.status = "pending"
  /\ NotFoundView.status = "not_found" /\ FailedView.status = "failed"
  /\ \A d : SentView(d).status = "sent" /\ SentView(d).evidence = d
  /\ \A d, b : /\ View("verified", d, b).status = "verified"
               /\ View("verified", d, b).evidence = d
               /\ View("verified", d, b).anchored = b
  BY DEF NoView, PendingView, NotFoundView, FailedView, SentView, View

\* The row a lookup answers with was registered by its owner.
LEMMA AnsweredRow ==
  ASSUME WorldTypeOK, NEW d \in Contents, NEW row \in VisibleRows(d) \cup StrayRows(d)
  PROVE  /\ row \in Rows
         /\ <<row.owner, row.evidence>> \in sealed
         /\ row.anchored => <<row.owner, row.evidence>> \in anchored
<1>1. PICK p \in sealed : row = Row(p[1], p[2])
  BY DEF VisibleRows, StrayRows
<1>2. p \in Accounts \X Contents
  BY <1>1 DEF WorldTypeOK
<1>3. p = <<p[1], p[2]>> /\ p[1] \in Accounts /\ p[2] \in Contents
  BY <1>2
<1>4. /\ row.owner = p[1] /\ row.evidence = p[2]
      /\ row.anchored = (<<p[1], p[2]>> \in anchored)
  BY <1>1 DEF Row
<1>5. (<<p[1], p[2]>> \in anchored) \in BOOLEAN
  OBVIOUS
<1>6. row \in Rows
  BY <1>1, <1>3, <1>5 DEF Row, Rows
<1>7. <<row.owner, row.evidence>> \in sealed
  BY <1>1, <1>3, <1>4
<1>8. row.anchored => <<row.owner, row.evidence>> \in anchored
  BY <1>4
<1> QED
  BY <1>6, <1>7, <1>8

\* A verified view built from an answered row is genuine.
LEMMA ToViewIsGenuine ==
  ASSUME WorldTypeOK, NEW c \in Codes, Decode[c] # NoIdentifier,
         NEW d \in Contents, d \in held[Decode[c]],
         NEW row \in VisibleRows(d) \cup StrayRows(d)
  PROVE  /\ ToView(d, row) \in Views
         /\ ToView(d, row).status \in {"verified", "pending"}
         /\ ToView(d, row).status = "verified" => Genuine(c, ToView(d, row))
<1>1. /\ row \in Rows
      /\ <<row.owner, row.evidence>> \in sealed
      /\ row.anchored => <<row.owner, row.evidence>> \in anchored
  BY AnsweredRow
<1>2. row.owner \in Accounts /\ row.anchored \in BOOLEAN
  BY <1>1 DEF Rows
<1>3. CASE ~Attests(d, row)
  BY <1>3, ViewTypes, ViewStatuses DEF ToView
<1>4. CASE Attests(d, row)
  <2>1. ToView(d, row) = View("verified", d, row.anchored)
    BY <1>4 DEF ToView
  <2>2. row.evidence = d /\ (ExpectedIssuer # NoAccount => row.owner = ExpectedIssuer)
    BY <1>4 DEF Attests, IssuedByTheEntity
  <2>3. Genuine(c, View("verified", d, row.anchored))
    BY <1>1, <1>2, <2>2, ViewStatuses DEF Genuine
  <2> QED
    BY <1>2, <2>1, <2>3, ViewTypes, ViewStatuses
<1> QED
  BY <1>3, <1>4

\* Nothing genuine stops being so: files and rows are never forgotten.
LEMMA GenuineIsStable ==
  ASSUME NEW c, NEW v, Genuine(c, v),
         Decode[c] \in Identifiers,
         \A i \in Identifiers : held[i] \subseteq held'[i],
         sealed \subseteq sealed', anchored \subseteq anchored'
  PROVE  Genuine(c, v)'
  BY DEF Genuine
-----------------------------------------------------------------------------
LEMMA InitInv == Init => Inv
<1> SUFFICES ASSUME Init PROVE Inv
  OBVIOUS
<1>1. WorldInv
  BY MaxChangesAssumption DEF Init, WorldInit, WorldInv, WorldTypeOK
<1>2. now \in 0..MaxTime /\ cache \in [Codes -> EntryType \cup {NoEntry}] /\ CacheOK
  BY MaxTimeAssumption DEF Init, CacheOK
<1>3. IdleRequest \in ReqType
  BY CodesAssumption, ViewTypes DEF IdleRequest, ReqType, Kinds
<1>4. ReqOK(IdleRequest)
  BY <1>3, ViewStatuses, MaxAgeFact DEF ReqOK, IdleRequest
<1>5. req \in [Requests -> ReqType] /\ \A r \in Requests : ReqOK(req[r])
  BY <1>3, <1>4 DEF Init
<1> QED
  BY <1>1, <1>2, <1>5 DEF Inv

(***************************************************************************)
(* A step of one request: the world stands still, the request moves to a   *)
(* state that is in order, and so is the cache.                            *)
(***************************************************************************)
LEMMA RequestStep ==
  ASSUME Inv, NEW r \in Requests, NEW q,
         UNCHANGED <<worldVars, now>>,
         req' = [req EXCEPT ![r] = q], ReqOK(q),
         cache' \in [Codes -> EntryType \cup {NoEntry}], CacheOK'
  PROVE  Inv'
<1>1. WorldInv' /\ now' \in 0..MaxTime
  BY DEF Inv, WorldInv, WorldTypeOK, worldVars
<1>2. req' \in [Requests -> ReqType]
  BY DEF Inv, ReqOK
<1>3. ASSUME NEW x \in Requests
      PROVE  ReqOK(req[x])' /\ ReqOK(req'[x])
  <2>1. ReqOK(req'[x])
    BY DEF Inv
  <2> QED
    BY <2>1 DEF ReqOK, Genuine, worldVars, MaxAge
<1> QED
  BY <1>1, <1>2, <1>3 DEF Inv

\* An answer that is in order: what Reply and the arrivals write.
LEMMA AnswerOK ==
  ASSUME NEW kind \in Kinds, NEW c \in Codes, NEW v \in Views, NEW age \in Nat,
         age <= MaxAge,
         v.status = "verified" => Genuine(c, v),
         v.status = "sent" => /\ Decode[c] # NoIdentifier
                              /\ v.evidence \in held[Decode[c]],
         Decode[c] = NoIdentifier => v.status \in {"not_found", "failed"}
  PROVE  ReqOK(Answer(kind, c, v, age))
  BY DEF ReqOK, Answer, ReqType

\* The cache is still in order when nothing but requests has moved.
LEMMA CacheStays ==
  ASSUME Inv, UNCHANGED <<worldVars, now, cache>>
  PROVE  cache' \in [Codes -> EntryType \cup {NoEntry}] /\ CacheOK'
  BY DEF Inv, CacheOK, EntryOK, Genuine, worldVars

LEMMA ServeCachedInv ==
  ASSUME Inv, NEW r \in Requests, NEW c \in Codes, ServeCached(r, c)
  PROVE  Inv'
<1>1. EntryOK(c, cache[c]) /\ now \in Nat
  BY MaxTimeAssumption DEF Inv, CacheOK, ServeCached, Live
<1>2. /\ cache[c].view \in Views
      /\ cache[c].stamp \in Nat /\ cache[c].asOf \in Nat
  BY <1>1 DEF EntryOK, EntryType
<1>3. now - cache[c].stamp < TTL
  BY DEF ServeCached, Live
<1>4. now - cache[c].asOf \in Nat /\ now - cache[c].asOf <= MaxAge
  BY <1>1, <1>2, <1>3, TTLAssumption, MaxFlightAssumption DEF EntryOK, MaxAge
<1>5. ReqOK(Answer("record", c, cache[c].view, now - cache[c].asOf))
  BY <1>1, <1>2, <1>4, AnswerOK DEF EntryOK, Genuine, Kinds
<1> QED
  BY <1>5, CacheStays, RequestStep DEF ServeCached

LEMMA BeginInv ==
  ASSUME Inv, NEW r \in Requests, NEW kind \in Kinds, NEW c \in Codes,
         Begin(r, kind, c)
  PROVE  Inv'
<1>1. now \in Nat
  BY MaxTimeAssumption DEF Inv
<1>2. Fetching(kind, c) \in ReqType
  BY <1>1, ViewTypes DEF Fetching, ReqType
<1>3. ReqOK(Fetching(kind, c))
  BY <1>1, <1>2, ViewStatuses, MaxAgeFact, MaxFlightAssumption DEF ReqOK, Begin, Fetching
<1> QED
  BY <1>3, CacheStays, RequestStep DEF Begin

LEMMA RefuseCodeInv ==
  ASSUME Inv, NEW r \in Requests, NEW kind \in Kinds, NEW c \in Codes,
         RefuseCode(r, kind, c)
  PROVE  Inv'
<1>1. ReqOK(Answer(kind, c, NotFoundView, 0))
  BY AnswerOK, ViewTypes, ViewStatuses, MaxAgeFact
<1> QED
  BY <1>1, CacheStays, RequestStep DEF RefuseCode
-----------------------------------------------------------------------------
\* A request in flight, with the facts its steps need.
LEMMA InFlightFact ==
  ASSUME Inv, NEW r \in Requests
  PROVE  /\ ReqOK(req[r]) /\ req[r] \in ReqType
         /\ req[r].kind \in Kinds /\ req[r].code \in Codes /\ req[r].view \in Views
         /\ req[r].since \in Nat /\ req[r].asOf \in Nat /\ now \in Nat
         /\ req[r].doc \in Contents \cup {NoDoc}
  BY MaxTimeAssumption DEF Inv, ReqType

\* A reply that is in order, the cache being left alone.
LEMMA ReplyInv ==
  ASSUME Inv, NEW r \in Requests, NEW v \in Views, NEW age \in Nat,
         age <= MaxAge, Reply(r, v, age), UNCHANGED <<worldVars, now, cache>>,
         v.status = "verified" => Genuine(req[r].code, v),
         v.status = "sent" => /\ Decode[req[r].code] # NoIdentifier
                              /\ v.evidence \in held[Decode[req[r].code]],
         Decode[req[r].code] = NoIdentifier => v.status \in {"not_found", "failed"}
  PROVE  Inv'
<1>1. ReqOK(Answer(req[r].kind, req[r].code, v, age))
  BY InFlightFact, AnswerOK
<1>2. req' = [req EXCEPT ![r] = Answer(req[r].kind, req[r].code, v, age)]
  BY DEF Reply
<1> QED
  BY <1>1, <1>2, CacheStays, RequestStep

LEMMA FetchFoundInv ==
  ASSUME Inv, NEW r \in Requests, FetchFound(r)
  PROVE  Inv'
<1>1. /\ Decode[req[r].code] # NoIdentifier
      /\ req[r].since <= now /\ now - req[r].since <= MaxFlight
      /\ req[r].view.status = "verified" => Genuine(req[r].code, req[r].view)
      /\ req[r].age <= MaxAge
  BY InFlightFact DEF FetchFound, ReqOK
<1>2. Decode[req[r].code] \in Identifiers
  BY <1>1, InFlightFact, DecodeAssumption
<1>3. FileOf(r) \in Contents /\ FileOf(r) \in held[Decode[req[r].code]]
  BY <1>2 DEF FetchFound, FileOf, Inv, WorldInv, WorldTypeOK
<1>4. CASE req[r].kind = "pdf"
  <2>1. Reply(r, SentView(FileOf(r)), 0) /\ UNCHANGED <<worldVars, now, cache>>
    BY <1>4 DEF FetchFound
  <2> QED
    BY <1>1, <1>3, <2>1, ReplyInv, ViewTypes, ViewStatuses, MaxAgeFact
<1>5. CASE req[r].kind # "pdf"
  <2> DEFINE q == [req[r] EXCEPT !.pc = "lookup", !.doc = FileOf(r), !.asOf = now]
  <2>1. req' = [req EXCEPT ![r] = q] /\ UNCHANGED <<worldVars, now, cache>>
    BY <1>5 DEF FetchFound
  <2>2. q \in ReqType
    BY <1>3, InFlightFact DEF ReqType
  <2>3. /\ q.pc = "lookup" /\ q.doc = FileOf(r) /\ q.asOf = now
        /\ q.code = req[r].code /\ q.view = req[r].view
        /\ q.since = req[r].since /\ q.age = req[r].age
    BY InFlightFact DEF ReqType
  <2> HIDE DEF q
  <2>4. ReqOK(q)
    BY <1>1, <1>3, <2>2, <2>3, InFlightFact DEF ReqOK
  <2> QED
    BY <2>1, <2>4, CacheStays, RequestStep
<1> QED
  BY <1>4, <1>5

LEMMA WithoutDocumentInv ==
  ASSUME Inv, NEW r \in Requests, FetchMissing(r) \/ FetchFails(r)
  PROVE  Inv'
<1>1. Decode[req[r].code] # NoIdentifier
  BY InFlightFact DEF FetchMissing, FetchFails, ReqOK
<1>2. PICK v \in {NotFoundView, PendingView} : Reply(r, v, 0)
  BY DEF FetchMissing, FetchFails, WithoutDocument
<1>3. UNCHANGED <<worldVars, now, cache>>
  BY DEF FetchMissing, FetchFails, WithoutDocument
<1> QED
  BY <1>1, <1>2, <1>3, ReplyInv, ViewTypes, ViewStatuses, MaxAgeFact

\* What resolve() returned, when it is in order.
LEMMA ResolvedInv ==
  ASSUME Inv, NEW r \in Requests, req[r].pc = "lookup", NEW v \in Views,
         v.status \in {"verified", "pending"},
         v.status = "verified" => Genuine(req[r].code, v), Resolved(r, v)
  PROVE  Inv'
<1>0. UNCHANGED <<worldVars, now, cache>>
  BY DEF Resolved
<1>1. /\ Decode[req[r].code] # NoIdentifier
      /\ req[r].since <= now /\ now - req[r].since <= MaxFlight
      /\ req[r].doc \in held[Decode[req[r].code]]
      /\ req[r].since <= req[r].asOf /\ req[r].asOf <= now
      /\ req[r].age <= MaxAge
  BY InFlightFact DEF ReqOK
<1>2. CASE req[r].kind = "record"
  <2> DEFINE q == [req[r] EXCEPT !.pc = "count", !.view = v]
  <2>1. req' = [req EXCEPT ![r] = q]
    BY <1>2 DEF Resolved
  <2>2. q \in ReqType
    BY InFlightFact DEF ReqType
  <2>3. /\ q.pc = "count" /\ q.view = v /\ q.doc = req[r].doc
        /\ q.code = req[r].code /\ q.asOf = req[r].asOf
        /\ q.since = req[r].since /\ q.age = req[r].age
    BY InFlightFact DEF ReqType
  <2> HIDE DEF q
  <2>4. ReqOK(q)
    BY <1>1, <2>2, <2>3, InFlightFact DEF ReqOK
  <2> QED
    BY <1>0, <2>1, <2>4, CacheStays, RequestStep
<1>3. CASE req[r].kind # "record" /\ ViewRaises(req[r].doc, v)
  BY <1>0, <1>1, <1>3, ReplyInv, ViewTypes, ViewStatuses, MaxAgeFact DEF Resolved
<1>4. CASE req[r].kind # "record" /\ ~ViewRaises(req[r].doc, v)
  <2>1. now - req[r].asOf \in Nat /\ now - req[r].asOf <= MaxAge
    BY <1>1, InFlightFact, MaxAgeFact, MaxFlightAssumption
  <2>2. Reply(r, v, now - req[r].asOf)
    BY <1>4 DEF Resolved
  <2> QED
    BY <1>0, <1>1, <2>1, <2>2, ReplyInv
<1> QED
  BY <1>2, <1>3, <1>4

LEMMA LookupInv ==
  ASSUME Inv, NEW r \in Requests,
         \/ \E row \in Rows : LookupAnswers(r, row)
         \/ LookupMisses(r) \/ LookupFails(r) \/ LookupCrashes(r)
  PROVE  Inv'
<1>0. req[r].pc = "lookup"
  BY DEF LookupAnswers, LookupMisses, LookupFails, LookupCrashes
<1>1. /\ Decode[req[r].code] # NoIdentifier
      /\ req[r].doc \in held[Decode[req[r].code]]
      /\ req[r].code \in Codes
  BY <1>0, InFlightFact DEF ReqOK
<1>2. Decode[req[r].code] \in Identifiers
  BY <1>1, DecodeAssumption
<1>3. WorldTypeOK /\ req[r].doc \in Contents
  BY <1>1, <1>2 DEF Inv, WorldInv, WorldTypeOK
<1>4. ASSUME NEW row \in Rows, LookupAnswers(r, row)
      PROVE  Inv'
  <2>1. /\ row \in VisibleRows(req[r].doc) \cup StrayRows(req[r].doc)
        /\ Resolved(r, ToView(req[r].doc, row))
    BY <1>4 DEF LookupAnswers
  <2>2. /\ ToView(req[r].doc, row) \in Views
        /\ ToView(req[r].doc, row).status \in {"verified", "pending"}
        /\ ToView(req[r].doc, row).status = "verified"
              => Genuine(req[r].code, ToView(req[r].doc, row))
    BY <1>1, <1>3, <2>1, ToViewIsGenuine
  <2> QED
    BY <1>0, <2>1, <2>2, ResolvedInv
<1>5. CASE LookupMisses(r) \/ LookupFails(r)
  <2>1. Resolved(r, PendingView)
    BY <1>5 DEF LookupMisses, LookupFails
  <2> QED
    BY <1>0, <2>1, ResolvedInv, ViewTypes, ViewStatuses
<1>6. CASE LookupCrashes(r)
  <2>1. Reply(r, FailedView, 0) /\ UNCHANGED <<worldVars, now, cache>>
    BY <1>6 DEF LookupCrashes
  <2> QED
    BY <2>1, ReplyInv, ViewTypes, ViewStatuses, MaxAgeFact
<1> QED
  BY <1>4, <1>5, <1>6

\* Storing an entry that is in order leaves the cache in order.
LEMMA StoreFact ==
  ASSUME Inv, NEW c \in Codes, NEW e, EntryOK(c, e),
         cache' = Store(c, e), UNCHANGED <<worldVars, now>>
  PROVE  cache' \in [Codes -> EntryType \cup {NoEntry}] /\ CacheOK'
<1>1. cache \in [Codes -> EntryType \cup {NoEntry}] /\ e \in EntryType
  BY DEF Inv, EntryOK
<1>2. cache' \in [Codes -> EntryType \cup {NoEntry}]
  BY <1>1 DEF Store
<1>3. \A k \in Codes : cache'[k] # NoEntry => EntryOK(k, cache'[k])
  BY <1>1 DEF Store, Inv, CacheOK
<1>4. CacheOK'
  BY <1>3 DEF CacheOK, EntryOK, Genuine, worldVars
<1> QED
  BY <1>2, <1>4

LEMMA CountPagesInv ==
  ASSUME Inv, NEW r \in Requests, CountPages(r)
  PROVE  Inv'
<1>0. UNCHANGED <<worldVars, now>>
  BY DEF CountPages
<1>1. /\ Decode[req[r].code] # NoIdentifier
      /\ req[r].since <= now /\ now - req[r].since <= MaxFlight
      /\ req[r].since <= req[r].asOf /\ req[r].asOf <= now
      /\ req[r].view.status = "verified" => Genuine(req[r].code, req[r].view)
  BY InFlightFact DEF CountPages, ReqOK
<1>2. now - req[r].asOf \in Nat /\ now - req[r].asOf <= MaxFlight
  BY <1>1, InFlightFact, MaxFlightAssumption
<1>3. req[r].view.status \in {"verified", "pending"}
  BY InFlightFact DEF CountPages, ReqOK
<1>4. ReqOK(Answer(req[r].kind, req[r].code, req[r].view, now - req[r].asOf))
  BY <1>1, <1>2, <1>3, InFlightFact, AnswerOK, MaxAgeFact, MaxFlightAssumption
<1>5. req' = [req EXCEPT ![r] =
                Answer(req[r].kind, req[r].code, req[r].view, now - req[r].asOf)]
  BY DEF CountPages, Reply
<1>6. CASE req[r].view.status = "verified"
  <2> DEFINE e == [stamp |-> now, asOf |-> req[r].asOf, view |-> req[r].view]
  <2>1. cache' = Store(req[r].code, e)
    BY <1>6 DEF CountPages
  <2>2. EntryOK(req[r].code, e)
    BY <1>1, <1>2, <1>6, InFlightFact DEF EntryOK, EntryType
  <2> HIDE DEF e
  <2> QED
    BY <1>0, <1>4, <1>5, <2>1, <2>2, InFlightFact, StoreFact, RequestStep
<1>7. CASE req[r].view.status # "verified"
  <2>1. cache' = cache
    BY <1>7 DEF CountPages
  <2> QED
    BY <1>0, <1>4, <1>5, <2>1, CacheStays, RequestStep
<1> QED
  BY <1>6, <1>7

LEMMA CountFailsInv ==
  ASSUME Inv, NEW r \in Requests, CountFails(r)
  PROVE  Inv'
<1>1. Reply(r, FailedView, 0) /\ UNCHANGED <<worldVars, now, cache>>
  BY DEF CountFails
<1> QED
  BY <1>1, ReplyInv, ViewTypes, ViewStatuses, MaxAgeFact

LEMMA RestartInv ==
  ASSUME Inv, Restart
  PROVE  Inv'
<1>0. UNCHANGED <<worldVars, now>>
  BY DEF Restart
<1>1. WorldInv' /\ now' \in 0..MaxTime
  BY <1>0 DEF Inv, WorldInv, WorldTypeOK, worldVars
<1>2. cache' \in [Codes -> EntryType \cup {NoEntry}] /\ CacheOK'
  BY DEF Restart, CacheOK
<1>3. ASSUME NEW r \in Requests
      PROVE  ReqOK(req'[r])
  <2>1. CASE InFlight(r)
    <3>1. req'[r] = Answer(req[r].kind, req[r].code, FailedView, 0)
      BY <2>1 DEF Restart
    <3>2. ReqOK(Answer(req[r].kind, req[r].code, FailedView, 0))
      BY InFlightFact, AnswerOK, ViewTypes, ViewStatuses, MaxAgeFact
    <3> QED
      BY <3>1, <3>2
  <2>2. CASE ~InFlight(r)
    BY <2>2, InFlightFact DEF Restart
  <2> QED
    BY <2>1, <2>2
<1>4. req' \in [Requests -> ReqType]
  BY <1>3 DEF Restart, ReqOK
<1>5. \A r \in Requests : ReqOK(req[r])'
  BY <1>0, <1>3 DEF ReqOK, Genuine, worldVars, MaxAge
<1> QED
  BY <1>1, <1>2, <1>4, <1>5 DEF Inv

LEMMA TickInv ==
  ASSUME Inv, Tick
  PROVE  Inv'
<1>0. UNCHANGED <<worldVars, cache, req>> /\ now' = now + 1 /\ now \in Nat
  BY MaxTimeAssumption DEF Tick, Inv
<1>1. WorldInv' /\ now' \in 0..MaxTime
  BY <1>0, MaxTimeAssumption DEF Tick, Inv, WorldInv, WorldTypeOK, worldVars
<1>2. CacheOK'
  <2>1. ASSUME NEW c \in Codes, cache[c] # NoEntry
        PROVE  EntryOK(c, cache[c])'
    <3>1. EntryOK(c, cache[c]) /\ cache[c].stamp \in Nat
      BY <2>1 DEF Inv, CacheOK, EntryOK, EntryType
    <3> QED
      BY <1>0, <3>1 DEF EntryOK, Genuine, worldVars
  <2> QED
    BY <1>0, <2>1 DEF CacheOK
<1>3. ASSUME NEW r \in Requests
      PROVE  ReqOK(req[r])'
  <2>1. ReqOK(req[r]) /\ req[r].since \in Nat /\ req[r].asOf \in Nat
    BY InFlightFact
  <2>2. req[r].pc \in {"custody", "lookup", "count"} => now - req[r].since < MaxFlight
    BY DEF Tick, InFlight
  <2>3. req[r].pc \in {"custody", "lookup", "count"} =>
           req[r].since <= now + 1 /\ (now + 1) - req[r].since <= MaxFlight
    BY <1>0, <2>1, <2>2, MaxFlightAssumption DEF ReqOK
  <2>4. req[r].pc \in {"lookup", "count"} => req[r].asOf <= now + 1
    BY <1>0, <2>1 DEF ReqOK
  <2> QED
    BY <1>0, <2>1, <2>3, <2>4 DEF ReqOK, Genuine, worldVars, MaxAge
<1> QED
  BY <1>0, <1>1, <1>2, <1>3 DEF Inv

\* The outside world only ever adds to what was held, sealed and anchored.
WorldGrows ==
    /\ \A i \in Identifiers : held[i] \subseteq held'[i]
    /\ sealed \subseteq sealed'
    /\ anchored \subseteq anchored'

LEMMA WorldFact ==
  ASSUME WorldInv, World
  PROVE  WorldInv' /\ WorldGrows
<1>0. WorldTypeOK /\ (\A i \in Identifiers : custody[i] # NoDoc => custody[i] \in held[i])
  BY DEF WorldInv
<1>1. WorldMoves => changes' \in 0..MaxChanges
  BY <1>0, MaxChangesAssumption DEF WorldMoves, WorldTypeOK
<1>2. ASSUME NEW i \in Identifiers, NEW d \in Contents, Deposit(i, d)
      PROVE  WorldInv' /\ WorldGrows
  BY <1>0, <1>1, <1>2 DEF Deposit, WorldInv, WorldTypeOK, WorldGrows
<1>3. ASSUME NEW i \in Identifiers, Withdraw(i)
      PROVE  WorldInv' /\ WorldGrows
  BY <1>0, <1>1, <1>3 DEF Withdraw, WorldInv, WorldTypeOK, WorldGrows
<1>4. ASSUME NEW a \in Accounts, NEW d \in Contents, Seal(a, d)
      PROVE  WorldInv' /\ WorldGrows
  BY <1>0, <1>1, <1>4 DEF Seal, WorldInv, WorldTypeOK, WorldGrows
<1>5. ASSUME NEW a \in Accounts, NEW d \in Contents, AnchorRow(a, d)
      PROVE  WorldInv' /\ WorldGrows
  BY <1>0, <1>1, <1>5 DEF AnchorRow, WorldInv, WorldTypeOK, WorldGrows
<1> QED
  BY <1>2, <1>3, <1>4, <1>5 DEF World

\* What is in order stays in order while the world grows.
LEMMA WorldStepInv ==
  ASSUME Inv, WorldStep
  PROVE  Inv'
<1>0. UNCHANGED <<now, cache, req>>
  BY DEF WorldStep, viewerVars
<1>1. WorldInv' /\ WorldGrows
  BY WorldFact DEF WorldStep, Inv
<1>2. ASSUME NEW c \in Codes, NEW v, Genuine(c, v)
      PROVE  Genuine(c, v)'
  <2>1. Decode[c] \in Identifiers
    BY <1>2, DecodeAssumption DEF Genuine
  <2> QED
    BY <1>1, <1>2, <2>1, GenuineIsStable DEF WorldGrows
<1>3. ASSUME NEW c \in Codes, cache[c] # NoEntry
      PROVE  EntryOK(c, cache[c])'
  <2>1. EntryOK(c, cache[c])
    BY <1>3 DEF Inv, CacheOK
  <2>2. Genuine(c, cache[c].view)'
    BY <1>0, <1>2, <2>1 DEF EntryOK, Genuine
  <2> QED
    BY <1>0, <2>1, <2>2 DEF EntryOK
<1>4. ASSUME NEW r \in Requests
      PROVE  ReqOK(req[r])'
  <2>1. ReqOK(req[r]) /\ req[r].code \in Codes
    BY InFlightFact
  <2>2. req[r].view.status = "verified" => Genuine(req[r].code, req[r].view)'
    BY <1>0, <1>2, <2>1 DEF ReqOK, Genuine
  <2>3. Decode[req[r].code] # NoIdentifier
          => held[Decode[req[r].code]] \subseteq held'[Decode[req[r].code]]
    BY <1>1, <2>1, DecodeAssumption DEF WorldGrows
  <2> QED
    BY <1>0, <2>1, <2>2, <2>3 DEF ReqOK, MaxAge
<1>5. CacheOK'
  BY <1>0, <1>3 DEF CacheOK
<1> QED
  BY <1>0, <1>1, <1>4, <1>5 DEF Inv

LEMMA NextInv == Inv /\ [Next]_vars => Inv'
<1> SUFFICES ASSUME Inv, [Next]_vars PROVE Inv'
  OBVIOUS
<1>1. CASE UNCHANGED vars
  BY <1>1 DEF vars, viewerVars, worldVars, Inv, WorldInv, WorldTypeOK, CacheOK,
              EntryOK, ReqOK, Genuine, MaxAge
<1>2. ASSUME NEW r \in Requests, Arrive(r)
      PROVE  Inv'
  <2>1. PICK c \in Codes :
           ServeCached(r, c) \/ \E kind \in Kinds : Begin(r, kind, c) \/ RefuseCode(r, kind, c)
    BY <1>2 DEF Arrive
  <2> QED
    BY <2>1, ServeCachedInv, BeginInv, RefuseCodeInv
<1>3. ASSUME NEW r \in Requests, Proceed(r)
      PROVE  Inv'
  BY <1>3, FetchFoundInv, WithoutDocumentInv, LookupInv, CountPagesInv, CountFailsInv
  DEF Proceed
<1> QED
  BY <1>1, <1>2, <1>3, TickInv, WorldStepInv, RestartInv DEF Next
-----------------------------------------------------------------------------
\* The state of the viewer is always of its type.
THEOREM TypeCorrect == Spec => []TypeOK
<1>1. Inv => TypeOK
  BY DEF Inv, WorldInv, TypeOK
<1> QED
  BY InitInv, NextInv, <1>1, PTL DEF Spec

\* The green tick is never wrong, for every number of requests, accounts and
\* files, every cache lifetime, and a service that may answer any row.
THEOREM VerifiedIsAlwaysGenuine == Spec => []VerifiedIsGenuine
<1>1. Inv => VerifiedIsGenuine
  BY DEF Inv, CacheOK, EntryOK, ReqOK, VerifiedIsGenuine
<1> QED
  BY InitInv, NextInv, <1>1, PTL DEF Spec

\* No answer is older than the cache and one request make it.
THEOREM EvidenceIsAlwaysRecent == Spec => []EvidenceIsRecent
<1>1. Inv => EvidenceIsRecent
  BY DEF Inv, ReqOK, EvidenceIsRecent, MaxAge
<1> QED
  BY InitInv, NextInv, <1>1, PTL DEF Spec
-----------------------------------------------------------------------------
\* The codes the cache holds something for.
Cached == {c \in Codes : cache[c] # NoEntry}

Bounded == IsFiniteSet(Cached) /\ Cardinality(Cached) <= CacheMax + 1

\* Storing one entry more than the limit lets in empties the cache first.
LEMMA StoreIsBounded ==
  ASSUME cache \in [Codes -> EntryType \cup {NoEntry}], Bounded, NEW c \in Codes, NEW e,
         e # NoEntry, cache' = Store(c, e)
  PROVE  Bounded'
<1>1. Cardinality(Cached) \in Nat
  BY FS_CardinalityType DEF Bounded
<1>2. CASE CacheSize > CacheMax
  <2>0. PICK S : S = {c}
    OBVIOUS
  <2>1. Cached' = S
    BY <1>2, <2>0 DEF Store, Cached
  <2>2. IsFiniteSet(S) /\ Cardinality(S) = 1
    BY <2>0, FS_Singleton, Zenon
  <2>3. Cardinality(S) <= CacheMax + 1
    BY <2>2, CacheMaxAssumption
  <2> QED
    BY <2>1, <2>2, <2>3 DEF Bounded
<1>3. CASE ~(CacheSize > CacheMax)
  <2>1. Cardinality(Cached) <= CacheMax
    BY <1>1, <1>3, CacheMaxAssumption DEF CacheSize, Cached
  <2>2. Cached' = Cached \cup {c}
    BY <1>3 DEF Store, Cached
  <2>3. /\ IsFiniteSet(Cached \cup {c})
        /\ Cardinality(Cached \cup {c}) =
              IF c \in Cached THEN Cardinality(Cached) ELSE Cardinality(Cached) + 1
    BY FS_AddElement DEF Bounded
  <2> HIDE DEF Cached
  <2>4. Cardinality(Cached \cup {c}) <= CacheMax + 1
    BY <1>1, <2>1, <2>3, CacheMaxAssumption
  <2> QED
    BY <2>2, <2>3, <2>4 DEF Bounded
<1> QED
  BY <1>2, <1>3

LEMMA NextIsBounded == Inv /\ Bounded /\ [Next]_vars => Bounded'
<1> SUFFICES ASSUME Inv, Bounded, [Next]_vars PROVE Bounded'
  OBVIOUS
<1>1. CASE UNCHANGED cache
  BY <1>1 DEF Bounded, Cached
<1>2. CASE Restart
  <2>1. Cached' = {}
    BY <1>2 DEF Restart, Cached
  <2> QED
    BY <2>1, FS_EmptySet, CacheMaxAssumption DEF Bounded
<1>3. ASSUME NEW r \in Requests, CountPages(r), ~UNCHANGED cache
      PROVE  Bounded'
  <2> DEFINE e == [stamp |-> now, asOf |-> req[r].asOf, view |-> req[r].view]
  <2>1. cache' = Store(req[r].code, e)
    BY <1>3 DEF CountPages
  <2>2. e \in EntryType
    BY InFlightFact DEF EntryType
  <2>3. e # NoEntry
    BY <2>2, NoEntryAssumption
  <2> HIDE DEF e
  <2> QED
    BY <2>1, <2>3, InFlightFact, StoreIsBounded DEF Inv
<1>4. CASE UNCHANGED vars \/ Tick \/ WorldStep
  <2>1. UNCHANGED cache
    BY <1>4 DEF vars, viewerVars, Tick, WorldStep
  <2> QED
    BY <1>1, <2>1
<1>5. ASSUME NEW r \in Requests, Arrive(r) \/ Proceed(r), ~CountPages(r)
      PROVE  UNCHANGED cache
  BY <1>5 DEF Arrive, ServeCached, Begin, RefuseCode, Proceed, FetchFound, FetchMissing,
              FetchFails, WithoutDocument, LookupAnswers, LookupMisses, LookupFails,
              LookupCrashes, Resolved, CountFails
<1> QED
  BY <1>1, <1>2, <1>3, <1>4, <1>5 DEF Next

(***************************************************************************)
(* However many codes there are and however their requests interleave, the *)
(* cache is at most one entry over its limit: get_record tests the size    *)
(* and inserts without an await in between.                                *)
(***************************************************************************)
THEOREM CacheIsAlwaysBounded == Spec => []CacheIsBounded
<1>1. Init => Bounded
  <2> SUFFICES ASSUME Init PROVE Bounded
    OBVIOUS
  <2>1. Cached = {}
    BY DEF Init, Cached
  <2> QED
    BY <2>1, FS_EmptySet, CacheMaxAssumption DEF Bounded
<1>2. Bounded => CacheIsBounded
  BY DEF Bounded, Cached, CacheIsBounded, CacheSize
<1> QED
  BY InitInv, NextInv, NextIsBounded, <1>1, <1>2, PTL DEF Spec
-----------------------------------------------------------------------------
\* What an answered request heard is warranted by the world as it is.
WarrantedAnswers ==
    \A r \in Requests : req[r].pc = "answered" => Contract!Warranted(Heard[r])

LEMMA AnswersAreWarranted == Inv => WarrantedAnswers
<1> SUFFICES ASSUME Inv, NEW r \in Requests, req[r].pc = "answered"
             PROVE  Contract!Warranted(Heard[r])
  BY DEF WarrantedAnswers
<1>1. ReqOK(req[r]) /\ req[r].code \in Codes
  BY InFlightFact
<1>2. Heard[r] = [code |-> req[r].code, status |-> req[r].view.status,
                  evidence |-> req[r].view.evidence]
  BY DEF Heard
<1>3. req[r].view.status = "verified" =>
         /\ Contract!HeldFor(req[r].code, req[r].view.evidence)
         /\ Contract!Attested(req[r].view.evidence)
  BY <1>1 DEF ReqOK, Genuine, Contract!HeldFor, Contract!Attested
<1>4. req[r].view.status = "sent" =>
         Contract!HeldFor(req[r].code, req[r].view.evidence)
  BY <1>1 DEF ReqOK, Contract!HeldFor
<1>5. Decode[req[r].code] = NoIdentifier => req[r].view.status \in {"not_found", "failed"}
  BY <1>1 DEF ReqOK
<1> QED
  BY <1>2, <1>3, <1>4, <1>5 DEF Contract!Warranted

\* A step that leaves the world alone only serves; one of the world publishes.
LEMMA StepKeepsContract ==
  Inv /\ WarrantedAnswers' /\ [Next]_vars => [Contract!Next]_(Contract!cvars)
<1> SUFFICES ASSUME Inv, WarrantedAnswers', [Next]_vars
             PROVE  [Contract!Next]_(Contract!cvars)
  OBVIOUS
<1>1. CASE UNCHANGED worldVars
  <2>1. UNCHANGED <<held, sealed>>
    BY <1>1 DEF worldVars
  <2>2. ASSUME NEW r \in Requests
        PROVE  Heard'[r] = Silent \/ Contract!Warranted(Heard'[r])
    <3>1. CASE req'[r].pc = "answered"
      <4>1. Contract!Warranted(Heard[r])'
        BY <3>1 DEF WarrantedAnswers
      <4> QED
        BY <2>1, <4>1 DEF Contract!Warranted, Contract!HeldFor, Contract!Attested
    <3>2. CASE req'[r].pc # "answered"
      BY <3>2 DEF Heard, Silent
    <3> QED
      BY <3>1, <3>2
  <2> QED
    BY <2>1, <2>2 DEF Contract!Next, Contract!Serve
<1>2. CASE WorldStep
  <2>1. WorldGrows
    BY <1>2, WorldFact DEF WorldStep, Inv
  <2>2. Heard' = Heard
    BY <1>2 DEF WorldStep, viewerVars, Heard, Silent
  <2> QED
    BY <2>1, <2>2 DEF WorldGrows, Contract!Next, Contract!Publish
<1>3. CASE Restart \/ Tick \/ UNCHANGED vars
  <2>1. UNCHANGED worldVars
    BY <1>3 DEF Restart, Tick, vars
  <2> QED
    BY <1>1, <2>1
<1>4. ASSUME NEW r \in Requests, Arrive(r) \/ Proceed(r)
      PROVE  UNCHANGED worldVars
  BY <1>4 DEF Arrive, ServeCached, Begin, RefuseCode, Proceed, FetchFound, FetchMissing,
              FetchFails, WithoutDocument, LookupAnswers, LookupMisses, LookupFails,
              LookupCrashes, Resolved, CountPages, CountFails
<1> QED
  BY <1>1, <1>2, <1>3, <1>4 DEF Next

\* The viewer implements the contract for every value of the constants.
THEOREM ImplementsContract == Spec => KeepsContract
<1>1. Init => Contract!Init
  <2> SUFFICES ASSUME Init PROVE Contract!Init
    OBVIOUS
  <2>1. held = [i \in Identifiers |-> {}] /\ sealed = {}
    BY DEF Init, WorldInit
  <2>2. Heard = [r \in Requests |-> Silent]
    BY DEF Init, IdleRequest, Heard
  <2> QED
    BY <2>1, <2>2 DEF Contract!Init
<1> QED
  BY InitInv, NextInv, <1>1, AnswersAreWarranted, StepKeepsContract, PTL
  DEF Spec, KeepsContract, Contract!Spec
-----------------------------------------------------------------------------
(***************************************************************************)
(* An answer that agrees with the world as it is: a page is described      *)
(* exactly or fails, and a sheet that can be served and found is reported. *)
(***************************************************************************)
Told(kind, c, v) ==
    /\ kind = "index" /\ c \in WellFormed => v \in {FailedView, CurrentView(c)}
    /\ /\ kind = "record" \/ (kind = "index" /\ c \in WellFormed)
       /\ CurrentView(c).status = "verified"
       /\ Servable(custody[Decode[c]])
       => v.status = "verified"

\* A request that knows nothing the world would not say now.
Foretold(q) ==
    /\ q.pc \in {"lookup", "count"} => q.doc = custody[Decode[q.code]]
    /\ q.pc = "count" => q.view = CurrentView(q.code)
    /\ q.pc = "answered" => Told(q.kind, q.code, q.view)

Undisturbed(w) == ~w.moved /\ ~w.faulted

Witnesses == [moved : BOOLEAN, faulted : BOOLEAN]

HistoryOK == \A r \in Requests : Undisturbed(witness[r]) => Foretold(req[r])

HInv == Inv /\ witness \in [Requests -> Witnesses] /\ HistoryOK
-----------------------------------------------------------------------------
\* While the world stands still it says the same.
LEMMA CurrentStays ==
  ASSUME UNCHANGED worldVars, NEW c
  PROVE  CurrentView(c)' = CurrentView(c)
<1>1. UNCHANGED <<custody, sealed, latest, anchored>>
  BY DEF worldVars
<1> QED
  BY <1>1 DEF CurrentView, Findable, VisibleRows, Row

LEMMA ForetoldStays ==
  ASSUME UNCHANGED worldVars, NEW q, Foretold(q)
  PROVE  Foretold(q)'
<1>1. custody' = custody /\ \A c : CurrentView(c)' = CurrentView(c)
  BY CurrentStays DEF worldVars
<1> QED
  BY <1>1 DEF Foretold, Told

\* A lookup sees one row of a file, or none.
LEMMA OneRow ==
  ASSUME NEW d, NEW row \in VisibleRows(d)
  PROVE  VisibleRows(d) = {row}
<1>1. PICK k : VisibleRows(d) = {Row(p[1], p[2]) : p \in sealed \cap {k}}
  BY DEF VisibleRows
<1>2. PICK p \in sealed \cap {k} : row = Row(p[1], p[2])
  BY <1>1
<1>3. sealed \cap {k} = {p}
  BY <1>2
<1>4. VisibleRows(d) = {Row(x[1], x[2]) : x \in {p}}
  BY <1>1, <1>3
<1> QED
  BY <1>2, <1>4

\* What the world says of a sheet, by what a lookup of its file answers.
LEMMA CurrentFromRow ==
  ASSUME NEW c, Decode[c] # NoIdentifier, custody[Decode[c]] # NoDoc,
         NEW row \in VisibleRows(custody[Decode[c]])
  PROVE  CurrentView(c) = ToView(custody[Decode[c]], row)
<1>1. PICK d : d = custody[Decode[c]]
  OBVIOUS
<1>2. VisibleRows(d) = {row}
  BY <1>1, OneRow
<1>3. (CHOOSE x \in VisibleRows(d) : TRUE) = row
  BY <1>2
<1>4. Findable(d) <=> Attests(d, row)
  BY <1>2 DEF Findable
<1>5. CASE Findable(d)
  <2>1. CurrentView(c) = ToView(d, CHOOSE x \in VisibleRows(d) : TRUE)
    BY <1>1, <1>5 DEF CurrentView
  <2> QED
    BY <1>1, <1>3, <2>1
<1>6. CASE ~Findable(d)
  <2>1. CurrentView(c) = PendingView
    BY <1>1, <1>6 DEF CurrentView
  <2> QED
    BY <1>1, <1>4, <1>6, <2>1 DEF ToView
<1> QED
  BY <1>5, <1>6

LEMMA CurrentWithoutRow ==
  ASSUME NEW c, Decode[c] # NoIdentifier,
         custody[Decode[c]] = NoDoc \/ VisibleRows(custody[Decode[c]]) = {}
  PROVE  CurrentView(c) = PendingView
  BY DEF CurrentView, Findable
-----------------------------------------------------------------------------
LEMMA HInitInv == HInit => HInv
<1> SUFFICES ASSUME HInit PROVE HInv
  OBVIOUS
<1>1. Inv /\ witness \in [Requests -> Witnesses]
  BY InitInv DEF HInit, Unmoved, Witnesses
<1>2. Foretold(IdleRequest)
  BY DEF Foretold, IdleRequest
<1>3. HistoryOK
  BY <1>2 DEF HInit, Init, HistoryOK
<1> QED
  BY <1>1, <1>3 DEF HInv

\* A step of one request: the others and the world stand still.
LEMMA HRequestStep ==
  ASSUME HInv, Inv', UNCHANGED worldVars, NEW r \in Requests, NEW q,
         req' = [req EXCEPT ![r] = q], witness' \in [Requests -> Witnesses],
         \A x \in Requests \ {r} : witness'[x] = witness[x],
         Undisturbed(witness'[r]) => Foretold(q)
  PROVE  HInv'
<1>1. ASSUME NEW x \in Requests, Undisturbed(witness'[x])
      PROVE  Foretold(req[x])'
  <2>1. req'[x] = IF x = r THEN q ELSE req[x]
    BY DEF HInv, Inv
  <2>2. PICK p : p = req'[x]
    OBVIOUS
  <2>3. Foretold(p)
    BY <1>1, <2>1, <2>2 DEF HInv, HistoryOK
  <2>4. Foretold(p)'
    BY <2>3, ForetoldStays
  <2> QED
    BY <2>2, <2>4 DEF Foretold
<1>2. HistoryOK'
  BY <1>1 DEF HistoryOK, Undisturbed
<1> QED
  BY <1>2 DEF HInv

\* What a step makes of a request that was in order.
Keeps(r) == \E q : req' = [req EXCEPT ![r] = q] /\ (Foretold(req[r]) => Foretold(q))

\* A reply that agrees with the world.
LEMMA ReplyKeeps ==
  ASSUME NEW r \in Requests, NEW v, NEW age, Reply(r, v, age),
         Foretold(req[r]) => Told(req[r].kind, req[r].code, v)
  PROVE  Keeps(r)
<1>1. PICK q : q = Answer(req[r].kind, req[r].code, v, age)
  OBVIOUS
<1>2. q.pc = "answered" /\ q.kind = req[r].kind /\ q.code = req[r].code /\ q.view = v
  BY <1>1 DEF Answer
<1>3. req' = [req EXCEPT ![r] = q]
  BY <1>1 DEF Reply
<1>4. Foretold(req[r]) => Foretold(q)
  BY <1>2 DEF Foretold
<1> QED
  BY <1>3, <1>4 DEF Keeps

\* The file a request carries on with is the one in custody.
LEMMA FetchFoundKeeps ==
  ASSUME Inv, NEW r \in Requests, FetchFound(r)
  PROVE  Keeps(r)
<1>1. PICK d : d = FileOf(r)
  OBVIOUS
<1>2. CASE req[r].kind = "pdf"
  <2>1. Reply(r, SentView(d), 0)
    BY <1>1, <1>2 DEF FetchFound
  <2>2. Told(req[r].kind, req[r].code, SentView(d))
    BY <1>2 DEF Told
  <2> QED
    BY <2>1, <2>2, ReplyKeeps
<1>3. CASE req[r].kind # "pdf"
  <2>1. PICK q \in ReqType : q = req[r]
    BY InFlightFact
  <2>2. PICK f : f = [q EXCEPT !.pc = "lookup", !.doc = d, !.asOf = now]
    OBVIOUS
  <2>3. f.pc = "lookup" /\ f.doc = d /\ f.code = q.code
    BY <2>2 DEF ReqType
  <2>4. req' = [req EXCEPT ![r] = f]
    BY <1>1, <1>3, <2>1, <2>2 DEF FetchFound
  <2>5. Foretold(f)
    BY <1>1, <2>1, <2>3 DEF Foretold, FileOf
  <2> QED
    BY <2>4, <2>5 DEF Keeps
<1> QED
  BY <1>2, <1>3

\* Nothing in custody, nothing to report.
LEMMA FetchMissingKeeps ==
  ASSUME Inv, NEW r \in Requests, FetchMissing(r)
  PROVE  Keeps(r)
<1>1. Decode[req[r].code] # NoIdentifier
  BY InFlightFact DEF FetchMissing, ReqOK
<1>2. CurrentView(req[r].code) = PendingView
  BY <1>1, CurrentWithoutRow DEF FetchMissing, FileOf
<1>3. PICK v : Reply(r, v, 0) /\ v = IF req[r].kind = "pdf" THEN NotFoundView ELSE PendingView
  BY DEF FetchMissing, WithoutDocument
<1>4. Told(req[r].kind, req[r].code, v)
  BY <1>2, <1>3, ViewStatuses DEF Told
<1> QED
  BY <1>3, <1>4, ReplyKeeps

\* resolve() returned what the world says; only a sheet that cannot be shown
\* ends in a failure.
LEMMA ResolvedKeeps ==
  ASSUME Inv, NEW r \in Requests, req[r].pc = "lookup", NEW v, Resolved(r, v),
         Foretold(req[r]) => v = CurrentView(req[r].code)
  PROVE  Keeps(r)
<1>1. CASE req[r].kind = "record"
  <2>1. PICK q \in ReqType : q = req[r]
    BY InFlightFact
  <2>2. PICK f : f = [q EXCEPT !.pc = "count", !.view = v]
    OBVIOUS
  <2>3. f.pc = "count" /\ f.doc = q.doc /\ f.code = q.code /\ f.view = v
    BY <2>2 DEF ReqType
  <2>4. req' = [req EXCEPT ![r] = f]
    BY <1>1, <2>1, <2>2 DEF Resolved
  <2>5. Foretold(q) => Foretold(f)
    BY <2>1, <2>3 DEF Foretold
  <2> QED
    BY <2>1, <2>4, <2>5 DEF Keeps
<1>2. CASE req[r].kind # "record" /\ ViewRaises(req[r].doc, v)
  <2>1. Reply(r, FailedView, 0)
    BY <1>2 DEF Resolved
  <2>2. Foretold(req[r]) => ~Servable(custody[Decode[req[r].code]])
    BY <1>2 DEF Foretold, ViewRaises, Servable
  <2>3. Foretold(req[r]) => Told(req[r].kind, req[r].code, FailedView)
    BY <2>2 DEF Told
  <2> QED
    BY <2>1, <2>3, ReplyKeeps
<1>3. CASE req[r].kind # "record" /\ ~ViewRaises(req[r].doc, v)
  <2>1. Reply(r, v, now - req[r].asOf)
    BY <1>3 DEF Resolved
  <2>2. Foretold(req[r]) => Told(req[r].kind, req[r].code, v)
    BY DEF Told
  <2> QED
    BY <2>1, <2>2, ReplyKeeps
<1> QED
  BY <1>1, <1>2, <1>3

\* The service answers what it holds of the file in custody.
LEMMA LookupKeeps ==
  ASSUME Inv, NEW r \in Requests,
         \/ \E row \in Rows : LookupAnswers(r, row) /\ row \in VisibleRows(req[r].doc)
         \/ LookupMisses(r)
  PROVE  Keeps(r)
<1>1. req[r].pc = "lookup"
  BY DEF LookupAnswers, LookupMisses
<1>2. /\ Decode[req[r].code] # NoIdentifier
      /\ req[r].doc \in held[Decode[req[r].code]]
      /\ req[r].code \in Codes
  BY <1>1, InFlightFact DEF ReqOK
<1>3. req[r].doc # NoDoc
  BY <1>2, DecodeAssumption, NoDocAssumption DEF Inv, WorldInv, WorldTypeOK
<1>4. Foretold(req[r]) => req[r].doc = custody[Decode[req[r].code]]
  BY <1>1 DEF Foretold
<1>5. ASSUME NEW row, LookupAnswers(r, row), row \in VisibleRows(req[r].doc)
      PROVE  Keeps(r)
  <2>1. Resolved(r, ToView(req[r].doc, row))
    BY <1>5 DEF LookupAnswers
  <2>2. Foretold(req[r]) => ToView(req[r].doc, row) = CurrentView(req[r].code)
    BY <1>2, <1>3, <1>4, <1>5, CurrentFromRow
  <2> QED
    BY <1>1, <2>1, <2>2, ResolvedKeeps
<1>6. CASE LookupMisses(r)
  <2>1. Resolved(r, PendingView)
    BY <1>6 DEF LookupMisses
  <2>2. Foretold(req[r]) => PendingView = CurrentView(req[r].code)
    BY <1>2, <1>4, <1>6, CurrentWithoutRow DEF LookupMisses
  <2> QED
    BY <1>1, <2>1, <2>2, ResolvedKeeps
<1> QED
  BY <1>5, <1>6

\* The pages are counted, or cannot be.
LEMMA CountKeeps ==
  ASSUME Inv, NEW r \in Requests, CountPages(r) \/ CountFails(r)
  PROVE  Keeps(r)
<1>1. req[r].pc = "count"
  BY DEF CountPages, CountFails
<1>2. Foretold(req[r]) => /\ req[r].doc = custody[Decode[req[r].code]]
                          /\ req[r].view = CurrentView(req[r].code)
  BY <1>1 DEF Foretold
<1>3. CASE CountPages(r)
  <2>1. Reply(r, req[r].view, now - req[r].asOf)
    BY <1>3 DEF CountPages
  <2>2. Foretold(req[r]) => Told(req[r].kind, req[r].code, req[r].view)
    BY <1>2 DEF Told
  <2> QED
    BY <2>1, <2>2, ReplyKeeps
<1>4. CASE CountFails(r)
  <2>1. Reply(r, FailedView, 0)
    BY <1>4 DEF CountFails
  <2>2. Foretold(req[r]) => ~Servable(custody[Decode[req[r].code]])
    BY <1>2, <1>4 DEF CountFails, ViewRaises, Servable
  <2>3. Foretold(req[r]) => Told(req[r].kind, req[r].code, FailedView)
    BY <2>2 DEF Told
  <2> QED
    BY <2>1, <2>3, ReplyKeeps
<1> QED
  BY <1>3, <1>4
-----------------------------------------------------------------------------
\* A request that arrives: what the cache holds is verified, whatever the
\* world says, and a code that does not decipher names nothing.
LEMMA HArriveInv ==
  ASSUME HInv, Inv', NEW r \in Requests, HArrive(r)
  PROVE  HInv'
<1>0. Inv
  BY DEF HInv
<1>1. /\ witness' \in [Requests -> Witnesses]
      /\ \A x \in Requests \ {r} : witness'[x] = witness[x]
  BY DEF HArrive, HInv, Unmoved, Witnesses
<1>2. PICK c \in Codes :
         ServeCached(r, c) \/ \E kind \in Kinds : Begin(r, kind, c) \/ RefuseCode(r, kind, c)
  BY DEF HArrive, Arrive
<1>3. UNCHANGED worldVars
  BY <1>2 DEF ServeCached, Begin, RefuseCode
<1>4. CASE ServeCached(r, c)
  <2>1. cache[c].view.status = "verified"
    BY <1>0, <1>4 DEF Inv, CacheOK, EntryOK, ServeCached, Live
  <2>2. PICK q : q = Answer("record", c, cache[c].view, now - cache[c].asOf)
    OBVIOUS
  <2>3. q.pc = "answered" /\ q.kind = "record" /\ q.code = c /\ q.view = cache[c].view
    BY <2>2 DEF Answer
  <2>4. req' = [req EXCEPT ![r] = q]
    BY <1>4, <2>2 DEF ServeCached
  <2>5. Foretold(q)
    BY <2>1, <2>3 DEF Foretold, Told
  <2> QED
    BY <1>1, <1>3, <2>4, <2>5, HRequestStep
<1>5. ASSUME NEW kind \in Kinds, Begin(r, kind, c)
      PROVE  HInv'
  <2>1. PICK q : q = Fetching(kind, c)
    OBVIOUS
  <2>2. q.pc = "custody"
    BY <2>1 DEF Fetching
  <2>3. req' = [req EXCEPT ![r] = q]
    BY <1>5, <2>1 DEF Begin
  <2>4. Foretold(q)
    BY <2>2 DEF Foretold
  <2> QED
    BY <1>1, <1>3, <2>3, <2>4, HRequestStep
<1>6. ASSUME NEW kind \in Kinds, RefuseCode(r, kind, c)
      PROVE  HInv'
  <2>1. PICK q : q = Answer(kind, c, NotFoundView, 0)
    OBVIOUS
  <2>2. q.pc = "answered" /\ q.kind = kind /\ q.code = c /\ q.view = NotFoundView
    BY <2>1 DEF Answer
  <2>3. req' = [req EXCEPT ![r] = q]
    BY <1>6, <2>1 DEF RefuseCode
  <2>4. (kind = "index" /\ c \notin WellFormed) \/ CurrentView(c) = NotFoundView
    BY <1>6 DEF RefuseCode, CurrentView
  <2>5. Foretold(q)
    BY <2>2, <2>4, ViewStatuses DEF Foretold, Told
  <2> QED
    BY <1>1, <1>3, <2>3, <2>5, HRequestStep
<1> QED
  BY <1>2, <1>4, <1>5, <1>6

LEMMA HProceedInv ==
  ASSUME HInv, Inv', NEW r \in Requests, HProceed(r)
  PROVE  HInv'
<1>0. Inv
  BY DEF HInv
<1>1. Keeps(r)
  BY <1>0, FetchFoundKeeps, FetchMissingKeeps, LookupKeeps, CountKeeps DEF HProceed
<1>2. UNCHANGED worldVars
  BY DEF HProceed, FetchFound, FetchMissing, WithoutDocument, LookupMisses, LookupAnswers,
         Resolved, CountPages, CountFails
<1>3. witness' = witness /\ witness \in [Requests -> Witnesses]
  BY DEF HProceed, HInv
<1>4. PICK q : req' = [req EXCEPT ![r] = q] /\ (Foretold(req[r]) => Foretold(q))
  BY <1>1 DEF Keeps
<1>5. Undisturbed(witness'[r]) => Foretold(q)
  BY <1>3, <1>4 DEF HInv, HistoryOK
<1> QED
  BY <1>2, <1>3, <1>4, <1>5, HRequestStep

\* A failure is remembered, and nothing is claimed of its request.
LEMMA HFaultInv ==
  ASSUME HInv, Inv', NEW r \in Requests, HFault(r)
  PROVE  HInv'
<1>1. UNCHANGED worldVars /\ \E q : req' = [req EXCEPT ![r] = q]
  BY DEF HFault, FetchFails, WithoutDocument, LookupFails, LookupCrashes, LookupAnswers,
         Resolved, Reply
<1>2. /\ witness' \in [Requests -> Witnesses] /\ ~Undisturbed(witness'[r])
      /\ \A x \in Requests \ {r} : witness'[x] = witness[x]
  BY DEF HFault, HInv, Witnesses, Undisturbed
<1> QED
  BY <1>1, <1>2, HRequestStep

LEMMA HRestartInv ==
  ASSUME HInv, Inv', HRestart
  PROVE  HInv'
<1>1. ASSUME NEW r \in Requests
      PROVE  /\ witness'[r] \in Witnesses
             /\ Undisturbed(witness'[r]) => ~InFlight(r) /\ Undisturbed(witness[r])
  BY DEF HRestart, HInv, Witnesses, Undisturbed
<1>2. witness' \in [Requests -> Witnesses]
  BY <1>1 DEF HRestart
<1>3. UNCHANGED worldVars
  BY DEF HRestart, Restart
<1>4. ASSUME NEW r \in Requests, Undisturbed(witness'[r])
      PROVE  Foretold(req[r])'
  <2>1. req'[r] = req[r] /\ Foretold(req[r])
    BY <1>1, <1>4 DEF HRestart, Restart, HInv, HistoryOK
  <2>2. PICK q : q = req[r]
    OBVIOUS
  <2>3. Foretold(q)'
    BY <1>3, <2>1, <2>2, ForetoldStays
  <2> QED
    BY <2>1, <2>2, <2>3 DEF Foretold
<1>5. HistoryOK'
  BY <1>4 DEF HistoryOK, Undisturbed
<1> QED
  BY <1>2, <1>5 DEF HInv

\* Nothing is claimed of a request the world moved under.
LEMMA HWorldInv ==
  ASSUME HInv, Inv', HWorld
  PROVE  HInv'
<1>1. \A r \in Requests : witness'[r] \in Witnesses /\ ~Undisturbed(witness'[r])
  BY DEF HWorld, HInv, Witnesses, Undisturbed
<1>2. witness' \in [Requests -> Witnesses]
  BY <1>1 DEF HWorld
<1>3. HistoryOK'
  BY <1>1 DEF HistoryOK, Undisturbed
<1> QED
  BY <1>2, <1>3 DEF HInv

LEMMA HIdleInv ==
  ASSUME HInv, Inv', HTick \/ UNCHANGED hvars
  PROVE  HInv'
<1>1. UNCHANGED <<worldVars, req, witness>>
  BY DEF HTick, Tick, hvars, vars, viewerVars
<1>2. ASSUME NEW r \in Requests, Undisturbed(witness[r])
      PROVE  Foretold(req[r])'
  <2>1. PICK q : q = req[r]
    OBVIOUS
  <2>2. Foretold(q)'
    BY <1>1, <1>2, <2>1, ForetoldStays DEF HInv, HistoryOK
  <2> QED
    BY <1>1, <2>1, <2>2 DEF Foretold
<1>3. HistoryOK'
  BY <1>1, <1>2 DEF HistoryOK, Undisturbed
<1> QED
  BY <1>1, <1>3 DEF HInv

\* The witness only watches: a step with it is a step without.
LEMMA StepOfViewer == [HNext]_hvars => [Next]_vars
  BY DEF HNext, HArrive, HProceed, HFault, HRestart, HWorld, HTick, Next, Proceed, hvars

LEMMA HNextInv == HInv /\ [HNext]_hvars => HInv'
<1> SUFFICES ASSUME HInv, [HNext]_hvars PROVE HInv'
  OBVIOUS
<1>1. Inv'
  BY StepOfViewer, NextInv DEF HInv
<1> QED
  BY <1>1, HArriveInv, HProceedInv, HFaultInv, HRestartInv, HWorldInv, HIdleInv DEF HNext

LEMMA HInvariance == HSpec => []HInv
  BY HInitInv, HNextInv, PTL DEF HSpec
-----------------------------------------------------------------------------
(***************************************************************************)
(* A citizen who meets no failure is told of a genuine sheet: nothing the  *)
(* cache holds, no other request and no code refused stands in the way     *)
(* (get_record, index and resolve).                                        *)
(***************************************************************************)
THEOREM GenuineIsAlwaysReported == HSpec => []GenuineIsReported
<1>1. HInv => GenuineIsReported
  BY DEF HInv, HistoryOK, Undisturbed, Foretold, Told, GenuineIsReported, Steady
<1> QED
  BY <1>1, HInvariance, PTL

\* The Open Graph description of a page is what the world says (index).
THEOREM PageIsAlwaysCurrent == HSpec => []PageIsCurrent
<1>1. HInv => PageIsCurrent
  BY DEF HInv, HistoryOK, Undisturbed, Foretold, Told, PageIsCurrent, Steady
<1> QED
  BY <1>1, HInvariance, PTL

\* A token of the very account the viewer expects.
OwnToken == Token \in Accounts /\ ExpectedIssuer = Token

(***************************************************************************)
(* With a token of the account the viewer expects, nobody hides a sheet by *)
(* sealing its file later: the lookup does not see the other's row.        *)
(***************************************************************************)
THEOREM ImpostorsCannotHide ==
  ASSUME OwnToken
  PROVE  HSpec => []ImpostorCannotHide
<1>1. HInv => ImpostorCannotHide
  <2> SUFFICES ASSUME HInv, NEW r \in Requests, Steady(r), req[r].kind = "record",
                      Decode[req[r].code] # NoIdentifier,
                      <<ExpectedIssuer, custody[Decode[req[r].code]]>> \in sealed,
                      Servable(custody[Decode[req[r].code]])
               PROVE  req[r].view.status = "verified"
    BY DEF ImpostorCannotHide
  <2>1. PICK d : d = custody[Decode[req[r].code]]
    OBVIOUS
  <2>2. <<Token, d>> \in sealed /\ d \in Contents /\ d # NoDoc /\ Token # NoAccount
    BY <2>1, NoDocAssumption, NoAccountAssumption
       DEF OwnToken, HInv, Inv, WorldInv, WorldTypeOK
  <2>3. VisibleRows(d) = {Row(p[1], p[2]) : p \in {<<Token, d>>}}
    <3>1. sealed \cap {<<Token, d>>} = {<<Token, d>>}
      BY <2>2
    <3> QED
      BY <2>2, <3>1 DEF VisibleRows
  <2>4. Row(Token, d) \in VisibleRows(d)
    BY <2>3, Zenon
  <2>5. Attests(d, Row(Token, d))
    BY DEF Attests, IssuedByTheEntity, Row, OwnToken
  <2>6. ToView(d, Row(Token, d)).status = "verified"
    BY <2>5 DEF ToView, View
  <2>7. CurrentView(req[r].code) = ToView(d, Row(Token, d))
    BY <2>1, <2>2, <2>4, CurrentFromRow
  <2> QED
    BY <2>6, <2>7 DEF HInv, HistoryOK, Undisturbed, Foretold, Told, Steady
<1> QED
  BY <1>1, HInvariance, PTL
=============================================================================
