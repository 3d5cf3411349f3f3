# Visor de actas: TLA+ models, checks and proofs

The repository is a public verifier of electoral tally sheets (*actas*). A
citizen scans a QR code; a FastAPI backend deciphers it into an internal
identifier, reads the signed PDF from custody, asks an attestation service
whether that file's hash was registered by the electoral body, and a page
without framework shows the sheet and the outcome. A command-line program
verifies a PDF without believing the service. All paths below are relative to
the repository.

## 1. Inventory

| Component | Source | State it keeps | Operations |
|---|---|---|---|
| Record endpoint and page endpoint | `app/routers/records.py`, `app/main.py`, `app/services/record_service.py`, `app/services/stamping.py` | `_cache` (code → stamp, view), the coroutines in flight | `get_record`, `get_pdf`, `index`, `resolve`, `resolve_document`, `to_view` |
| Rate limiter | `app/services/ratelimit.py`, `throttle` in `app/main.py` | buckets per address, last sweep | `check`, `_sweep` |
| Page images and PDF | `app/services/rendering.py`, `get_page`, `get_pdf` | image files on disk, copies in browsers | `page`, `_render`, conditional requests |
| Code cipher | `app/services/code_cipher.py` | a key | `encode`, `decode` |
| Custody drivers | `app/services/custody/` | none of their own | `fetch`, `exists` |
| Data model | `app/models.py` | none | validation, `decode_payload` |
| Settings | `app/config.py` | constant after start | – |
| Page in the browser | `web/js/app.js`, `views/verification.js`, `views/share.js` | screen, record, sheets and veil, the verification sequence | `boot`, `openSheet`, `closeSheets`, `run`, `share` |
| Download button | `views/document.js` | panel, label, downloads under way | `wireDownload` |
| Language and theme | `core/i18n.js`, `core/theme.js` | stored preferences, dictionary | `load`, `setLocale`, `toggle` |
| Independent verifier | `tools/verify_chain.py` | failed checks, unchecked chains | `main`, `merkle_root`, `rpc` |
| Registration tool | `tools/register_record.py` | the receipt (`.proof.json`) beside the PDF | `build_body`, `register`, `main` |
| Results view | `views/results.js` | none | `render` |
| Generators and images | other `tools/`, `views/state.js`, static files | none | pure input and output |

How they interact: the backend is one process with one event loop (a single
uvicorn worker, restarted by systemd on failure, README.md:382-402). Requests
are coroutines that interleave at their awaits: custody, the HTTP lookup, and
worker threads for PDF work. They share `_cache`, the limiter's buckets and the
image files. Custody and the attestation service change on their own. The page
talks to the backend only; the verifier talks to the service, an IPFS gateway
and the nodes of two chains. The registration tool, run by hand, is the only
part that writes to the service; what it writes is what the backend reads.

What is hard, and what makes each part correct:

- **Backend.** Files and rows change between two awaits; entries of the cache
  outlive what they describe; several requests for one sheet overlap; custody,
  the service and the PDF library fail at each await. *A green tick must always
  be warranted, genuine sheets must not be withheld, evidence must be recent,
  the cache bounded, every request answered.*
- **Limiter.** Forgetting idle buckets, refilling them lazily and rounding a
  wait twice must not change what a client is promised. *A budget per address,
  a bound in every window, a memory that empties as long as anybody knocks, a
  Retry-After that is enough.*
- **Page images.** Threads read and truncate files without a lock, and a write
  may be cut short; browsers show their copies for a day without asking. *The
  right page of the right version, accounted-for files, a whole image for
  whoever rendered it, no replaced file on show for longer than a copy's day.*
- **Verifier.** Calls fail one by one, chains move meanwhile, the service that
  is being checked decides what is looked at, and a gateway may answer anything.
  *VERIFICADA is true of the chains the record names, an invented transaction is
  exposed by its own chain, sound sheets are not slandered, every run ends.*
- **Registration.** An answer may be lost, a request may arrive after its retry
  or after the file was signed again, and a receipt is given once. *What was
  called registered is verified by the viewer, receipts are genuine, runs end.*
- **Algorithms.** Base64 decodes many strings to the same bytes, Merkle levels
  may be odd, percentages have two denominators, identifiers become paths. *One
  spelling per printed code, one root per list of sheets, figures that can be
  drawn, nothing read outside custody.*
- **Page and download.** Timers, taps, system dialogs and browser events
  overlap. *One sheet under one veil, a verdict that comes last, buttons that
  come back.*

The hazards, each at its line with the properties that cover it, are listed in
`PROJECT.json`.

## 2. Modules

| Module | What it is |
|---|---|
| `Upstream` | custody and the attestation service, as the drivers see them (external) |
| `RecordService` | the decisions of `record_service.py` as operators |
| `Viewer` | the backend: cache, awaits, failures, restarts (EXTENDS the two above) |
| `VerifierContract` | abstract: what the viewer promises; `Viewer!KeepsContract` is the refinement |
| `ViewerHistory` | `Viewer` with a witness per request, for properties about what was true meanwhile |
| `RateLimiter` | `check`, `_sweep` and the middleware |
| `TokenBudget` | abstract: a budget per address; `RateLimiter!KeepsBudget` is the refinement |
| `RateWindow` | `RateLimiter` with one freely placed window per address |
| `PageCache` | `get_page`, `get_pdf`, the renderer, the disk and browsers' copies |
| `Ingestion` | which results and data are accepted, and what is drawn of them |
| `RegisterRecord` | the registration tool (EXTENDS `RecordService`, and so `Upstream`, and `Ingestion`) |
| `CodeCipher` | the code of a sheet: base64 and the canonical form |
| `CustodyPaths` | from an identifier to a file or an object |
| `MerkleTree` | `merkle_root` |
| `VerifyChain` | `verify_chain.py` against service, gateway and nodes |
| `RecordPage` | boot, screens, sheets, the verification sequence |
| `Download` | the download button |
| `Frontend` | page and button in one page: the two modules composed |
| `ViewerProofs` (with `ViewerHistory`), `RateLimiterProofs`, `PageCacheProofs`, `RegisterRecordProofs`, `VerifyChainProofs`, `FrontendProofs` | the theorems, each about the module it is named after |
| `AlgorithmProofs` | the theorems about the pure algorithms and `MCAlgorithms` |
| `FoldTheory` | what a fold over a sequence is, step by step, and induction from below, proved for any operator |
| `MC…` | values of constants for TLC; `MCAlgorithms` also grows the inputs of the pure algorithms and defines what they are compared with |

Definitions named as mutants in a comment ("Mutant: …") are never used by a
specification. Each is a plausible bug in the definition that follows it, and
the property it is paired with in `PROJECT.json` is violated once it takes that
definition's place.

### Correspondence with the code

**Upstream and RecordService.** A file is identified with its SHA-256, which
`Document.sha256` recomputes from the bytes on every read, and the transaction
id, a SHA-1 of that hash, with the file. `sealed` holds registered (account,
file) pairs, `latest` who registered a file last, because an anonymous lookup
answers that row (README.md:126-139); with a token the lookup sees the token's
account only. `StrayAnswers` lets the service answer a row nobody asked for:
`resolve()` compares issuer and evidence again, and the run with stray answers
is where that matters. `Unreadable` files make `page_count` raise; rows of
`Unviewable` files make `to_view` raise (a blank latitude reaches `float("")`).
A view is its status, the evidence it shows and whether it shows anchors.

**Viewer.** One action per stretch of code between two awaits. `pc` is the
await a request is parked at: `custody`, `lookup`, `count`. `ServeCached` and
`Live` are the cached path of `get_record`, `Begin` and `RefuseCode` the way to
the first await (`index` answers a code that does not match its pattern with a
404 and never reads the cache; `get_pdf` stops after custody). `FetchFound`,
`FetchMissing`, `FetchFails` are the outcomes of `storage.fetch`;
`LookupAnswers`, `LookupMisses`, `LookupFails` and `LookupCrashes` those of the
lookup, the last one for a JSON answer that is not an object, which nothing
handles. `CountPages` builds the view, stores it when it is verified (`Store`
empties a cache of more than `CacheMax` entries first) and answers. `Restart`
empties the cache and breaks every connection. `since`, `asOf`, `age`, `held`
are observations that no guard but the bound on a request's duration reads.

**RateLimiter.** Ticks are chosen so that the arithmetic is exact: a token is
`Cost` ticks, a tenth of a second `Tenth` ticks. `check()` holds a lock and has
no await, so `FirstVisit`, `Admit` and `Refuse` are each one step, sweep
included. `Tenths` is the rounding of the wait, a tie going either way as the
float decides; `RetryAfter` the middleware's `max(1, int(wait) + 1)`. A model
is one life of the process: a restart starts over from `Init`. The disabled
limiter and `/health`, which is exempt, take no step.

**PageCache.** `Locate` is the test on the event loop, after which a request
either reads the file in a thread or renders it in one. `write_bytes` is two
steps, `OpenFile` (truncate) and `WriteFile` (fill), so that readers and other
writers fall in between. A page stands for a number and a density, or for the
PDF (`SendPdf`), which has a URL and a tag of its own and is never rendered; a
request with an unknown density is refused at once and not modelled. Browsers
that keep copies (`Keepers`) show one without asking while it is fresh
(`ShowOwn`) and revalidate it afterwards (`NotModified`). Time is a `Tick` that
ages copies and requests; `gone` observes how long ago custody last held each
file.

**RegisterRecord.** A run reads the file and its inputs at once (`BuildBody`),
then posts, hears an answer, and writes the receipt in two steps, as `write_text`
does. A posted request lives apart from its run: the run may stop waiting
(`Stops`: the timeout, an HTTP error, an interruption) while the request is
still to reach the service, or be lost. The service is external: it makes a row
for the first request of an account and a file, and answers later ones that it
has one, with or without the receipt (docs/onpe-integration-spec.es.md:203-226,
docs/integration-guide.es.md:162-181). `info` is what its row carries. Whether a
sheet then shows is asked of `RecordService`, the decisions of the viewer itself.

**Ingestion.** The checks of `build_body` and of the models it uses, which the
viewer applies again to what the row carries. Percentages are pairs of
integers; rounding for display is layout.

**CodeCipher, CustodyPaths.** The widths of bytes and symbols are constants: 8
and 6 bits in base64, and, for TLC, 4 and 3, where three bytes are four symbols
too. `Read` is one character of CPython's lenient decoder (`Scan`): characters
that are no symbol are skipped, a `=` counts only when it completes a group, and
the two symbols of the standard alphabet still read (`Alias`). AES-GCM is ideal:
what deciphers is what was sealed. `encode` draws a fresh nonce on every call,
so a sheet has as many codes as were printed for it
(tests/test_code_cipher.py:24-27): `Sealed` maps every blob that was drawn to
its identifier, and `Encode` gives the set of an identifier's codes. A path is a
sequence of names; `Links` are the symbolic links `resolve()` follows.

**VerifyChain.** Every call is a step: record, block, and per chain
transaction, receipt and header. What the service says is any record at all.
What the gateway says for a CID is one of the blocks in `Served`, which need not
be the one published under it (`Published`). What a node says is the state of its
chain, where a pending transaction may be mined between two calls or after the
last (`Mine`), or silence (`NodeSilent`, the one failure that is caught), or an
error, which `rpc()` turns into "no result". Calls outside the one `try` end in a
traceback, as the header of a transaction without a block number does. Three
observations keep one failure from excusing another: `silent`, the chains whose
node was asked and said nothing, `moved`, the chains that moved, and `faulted`,
that some other call failed. The program believes the service about which chains
there are to look at and about the account (`named`, `expected`), and the gateway
about the content of a CID; it believes nobody about roots, blocks that hold them
and transactions.

**MerkleTree.** A hash of two strings is the pair of them. `MCAlgorithms!Tree`,
which it is compared with, is defined from the root down and knows no levels.

**RecordPage.** `boot` stops at its two awaits, the dictionary and the record;
each timer of `run` is a step. `walk` counts how far the sequence of each tap
is, so that two sequences at once would be seen. **Download.** Each tap's
handler is a coroutine that reads, shares or waits at its timer; all share one
panel. **Frontend** composes them: `Download` is an INSTANCE with its own
variables, the button is there once a record is (`FClick`), a reload loses both
(`FReload` is `Reload` with `Download!Leave`), and otherwise a handler of the one
runs between any two steps of the other.

## 3. Checks

Run with `tlc -config <run>.cfg <module>`.

| Run | Module | What it shows | Bounds |
|---|---|---|---|
| `viewer_token` | MCViewerHistory | with a token: types, `VerifiedIsGenuine`, `EvidenceIsRecent`, `GenuineIsReported`, `PageIsCurrent`, `ImpostorCannotHide` | 2 requests, a sheet, 2 files (one with a row `to_view` raises on), 2 accounts, 3 moves of the world, TTL 1, clock 2 |
| `viewer_public` | MCViewer | on the public route with stray answers: `VerifiedIsGenuine`, `KeepsContract`, `CacheIsBounded`, `EveryRequestIsAnswered` | 1 request, 3 codes of 2 sheets and a forged one, 3 files (one unreadable, one with a row `to_view` raises on), 2 accounts, 3 moves, cache limit 1 |
| `limiter` | RateLimiter | types, `NothingIsRemembered`, `KeepsBudget` | 2 addresses, burst 2, clock 14 |
| `limiter_window` | RateWindow | `AnyWindowIsBounded`, `RetryAfterSuffices` | 1 address, burst 2, a token takes 1.1 s, clock 2.6 s |
| `pages` | MCPageCache | types, `FilesAreAccountedFor`, `PageIsTheOneAskedFor`, `PageIsRecent`, `EveryPageIsAnswered` | 2 browsers, one with copies, 2 versions, a page that one of them lacks and the PDF, 2 changes from any start, a copy's day of 2 ticks, a request of 1 |
| `register` | MCRegisterRecord | types, `RegisteredIsVerified`, `ReceiptIsGenuine`, `EveryRunOfTheToolEnds` | 2 runs, 2 versions of the file, 2 accounts, 4 inputs (2 of them wrong), 4 moves of the world |
| `algorithms` | MCAlgorithms | `RootIsTheTree`, `RootDeterminesTheSheets`, `OneSpellingPerCode`, `AcceptedCanBeShown`, `StaysInCustody` | lists of up to 6 of 2 leaves; texts of up to 5 of 11 characters, 3 prints of 2 sheets; 3 options of up to 3 votes; identifiers of up to 6 pieces |
| `verify_chain` | MCVerifyChain | types, `VerifiedIsAnchored`, `InventedIsExposed`, `SoundIsVerified`, `EveryRunEnds` | 2 chains, 2 published blocks, a gateway that may answer a wrong one for either, any record |
| `frontend` | Frontend | types, `VeilMatchesSheets`, `VerdictComesLast`, `PageSettles`, `PanelMeansWork`, `ButtonsComeBack` | 2 taps on the rail, 2 downloads, 1 reload |

Why the bounds are enough for what they are asked. Two requests are what a race
on an entry takes: one reads, the other stores or reads something newer. The
public route is run with one request, since what is new there is the world it
meets and not the race, and the proofs of section 4 cover any number of requests
on both routes. Three moves of the world are enough to deposit, seal and replace
or anchor, in any order and at any await, or to put one sealed file under two
sheets, which fills the cache of `viewer_public`. The clock passes the lifetime
of an entry plus one request. The limiter's clock spans several sweeps with
`SweepEvery` shorter than a refill, the case in which forgetting too early would
show; in `limiter_window` waits span whole seconds and fall between tenths, so
that both roundings act. Two versions and a change back are what a stale copy
takes, and a browser that keeps nothing writes the disk for one that keeps
copies; the day of a copy is longer than a request, so that both count. A run
and its retry cross in every order with a new signature and a correction. Lists
of six leaves have odd levels at the bottom and above; texts of five characters
hold a whole group and one to spare, with two codes of one sheet, of a length
that leaves bits over, and one of another sheet, of a length that does not; six
pieces of an identifier climb over the root and come back. Two chains let one
fail while the other does not. Two taps and a reload cover a sequence tapped
into, closed and abandoned, two downloads share one panel.

Deadlock is not checked in `algorithms` (the inputs reach their length),
`register` and its claim (every run is over), `verify_chain` and its claim (the
program ends) and `frontend` (every download may be over).

### Disagreements with documents and comments

These have a run of their own that finds them violated, and an entry under
`findings`.

| Run | What is said | What the code does |
|---|---|---|
| `claim_not_modified` | a 304 means the browser has the version (`app/routers/records.py:56`) | its copy may be a file read half written |
| `claim_proof_kept` | whoever registers has to keep the receipt (`tools/register_record.py:141`) | when the first answer is lost, a retry is told the file is registered, exits with 0 and has no receipt |
| `claim_verified` | VERIFICADA means that no step depends on believing the service (`tools/verify_chain.py:237`), the root being in a mined transaction of each chain (README.md:247-250) | a chain the record does not name is passed over; where it names none, VERIFICADA is printed and no chain was looked at |

These were met while modelling and show in the definitions, without a run:

| Said | Done |
|---|---|
| IPFS is addressed by content, no step trusts the provider (`tools/verify_chain.py:4-7`, README.md:253-256) | the gateway's answer is never compared with the CID: where a transaction holds the CID alone, the file is in that block only if the gateway answered that block (`Anchors`); where it holds the root the sentence is true (`RootNeedsNoGateway`) |
| undecodable figures do not fail the page (`app/services/record_service.py:226-228`) | `web/js/app.js:55` raises on them and the sheet is unavailable (`ScreenFor`) |
| `external_key` is unique within the account (docs/onpe-integration-spec.es.md:176) | a sheet signed again is sent under the same one (`BuildBody`) |
| a replaced file is reported as altered (`app/services/custody/__init__.py:57-59`) | it is pending; nothing produces `ALTERED` (`ToView`) |
| a changed file is a changed key, no stale page is served (`app/services/rendering.py:4-6`) | a copy is shown for a day (`ShowOwn`, bounded by `PageIsRecent`) |
| a driver of one's own is set by its name, nothing else changes (`app/services/custody/__init__.py:11-16`) | the settings accept `local` and `s3` only, not even the `stub` that is there (`app/config.py:49`) |
| a missing object is not broken storage (`app/services/custody/s3.py:113`) | a missing bucket is a 404 too, and so a missing object |
| the code stops resolving a changed file (`app/routers/records.py:94-97`) | it hands out the new one under the same URL (`FetchFound`) |
| a viral sheet is fetched once (`app/services/ratelimit.py:12-14`) | every page request, and every miss under way, looks it up again (`Proceeds`) |
| who returns after the anchor sees it (`app/routers/records.py:46-47`) | the view without anchors is served until it expires (`ServeCached`) |
| rendering happens once (`app/services/rendering.py:4-5`) | concurrent requests each render (`Locate`) |
| a document that is fine is not accused of an invalid signature (`web/js/views/verification.js:67-70`) | the backend calls every signature it finds "unverified" (`app/services/record_service.py:304-314`), which reads as one that does not cover the document (`VerdictOn`, `verification.js:85`) |
| an unknown transaction is invented (`tools/verify_chain.py:203`) | so is one of a node that answers an error (`NodeErrs`) |
| the controls work on every screen (`web/js/app.js:36-39`) | not when the dictionary fails to load (`DictionaryFails`) |
| the panel stays while the file comes down (`web/js/views/document.js:80-82`) | `pageshow` hides it (`PageShow`) |

### Fairness

Safety runs assume none. `Viewer!FairSpec` and `PageCache!FairSpec` assume that
a request parked at an await goes on: the HTTP client and the S3 client have
timeouts, a worker thread returns or raises. Weak fairness of each request's own
steps is all this takes, and which outcome it is stays open. `VerifyChain`
assumes the same of its calls (20 and 25 seconds), `RegisterRecord` that a run
that was started goes on: its one call has a timeout, and what becomes of the
request is nobody's obligation. `Frontend!FFairSpec` assumes
that the page's requests end and its timers fire, that a download's body ends or
breaks off, and that a system dialog is used or dismissed. Nobody is obliged to ask,
tap, mine, anchor, replace a file or restart the process.

## 4. Proofs

Checked by TLAPS for every value of the constants that meets the named
assumptions of the modules: any number of requests, codes, browsers, runs of the
tool, chains, taps and downloads, and any settings. Every safety property that a
passing run checks is a theorem; what is not is at the end of this section. Each
inductive invariant was model-checked on the instances of section 3 before it
was proved.

**`ViewerProofs`**: `TypeCorrect`, `VerifiedIsAlwaysGenuine`,
`EvidenceIsAlwaysRecent`, `CacheIsAlwaysBounded`, `ImplementsContract`. The
inductive invariant `Inv` is needed because neither a verified view nor its age
can be traced to its origin from the answer alone: it says of each request, await
by await, that the file it carries was held for the sheet its code names
(`ReqOK`), that a view about to be answered is already genuine, and that a
request's time in flight is bounded; of each entry that it is genuine and was
read at most `MaxFlight` before it was stamped (`EntryOK`); and of the world that
custody's file is among those held and anchored rows are sealed (`WorldInv`).
`GenuineIsStable` carries a genuine view over moves of the world, which only ever
add to `held`, `sealed` and `anchored`. The refinement follows from
`AnswersAreWarranted`: every answer is `Warranted` in the state it is heard in.
The bound of the cache is inductive once it says that the cache is finite
(`Bounded`); the codes need not be.

In the same module, of `ViewerHistory`: `GenuineIsAlwaysReported`,
`PageIsAlwaysCurrent`, `ImpostorsCannotHide`. The three are about answers, and
an answer does not show how it came about, so `HInv` adds to the viewer's
invariant what a request under way may know (`Foretold`): as long as nothing
failed and the world stood still since it arrived, its file is the one custody
has, its view is the one the world amounts to (`CurrentView`), and an entry of
the cache it was served from cannot deny a genuine sheet, since only verified
views are stored. A lookup sees one row (`OneRow`), so that `CurrentView`, which
chooses one, is determined. `ImpostorsCannotHide` assumes `OwnToken`: the
viewer's token is of the account it expects. On the public route the statement
is false, which is what the token is for (README.md:126-139).

**`RateLimiterProofs`**: `TypeCorrect`, `WindowsAreBounded`, `ImplementsBudget`,
`Forgets`, `RetryIsEnough`. `StepFact` splits a visit into its three cases;
`SweepKeepsWorth` is the heart of the refinement: a bucket is only dropped when
it would have refilled, because `Idle >= Capacity`. `WindowInv` relates the
tokens left to the admissions of a window, and `RetryInv` remembers, for a
refused client, that its bucket will hold a token when the wait is over.
`Forgets` needs no more than that every visit sweeps when a sweep is due
(`SweepIsRecent`) and that a sweep leaves nothing idle (`SweepForgets`):
together they bound the age of any bucket by the idle limit and one interval.

**`PageCacheProofs`**: `TypeCorrect`, `FilesAreAlwaysAccountedFor`,
`PageIsAlwaysTheOneAskedFor`, `PageIsAlwaysRecent`. That what is shown is recent
does not follow from any one step. `JobOK` bounds the time a request's document
may have been gone by the request's age, from the moment it was read; `CopyOK`
says of a browser's copy that what is left of its day and the time its document
has been gone are a constant at most. A tick moves both in opposite directions
(`TickInv`), and a 304 renews a copy only from a request that has just read the
same document. `FilesAreAccountedFor` is inductive together with the types: a
file half written is in the hands of a writer, whose write ends or is cut short.

**`RegisterRecordProofs`**: `TypeCorrect`, `ReceiptIsAlwaysGenuine`,
`RegisteredIsAlwaysVerified`. `RunOK` says what a run may know at each step,
`PostedOK` that a request on its way was sent by a run with an accepted body,
also after that run stopped waiting, and `InfoOK` that every row of the operator
carries accepted figures, whichever request made it. `RegisteredIsAlwaysVerified`
assumes `SameEntity`: the viewer asks with the operator's token and expects the
operator or nobody, as the two are configured for one entity. On the public route
a later row of somebody else may be what the viewer sees.

**`VerifyChainProofs`**: `TypeCorrect`, `InventedIsAlwaysExposed`,
`VerifiedIsAlwaysAnchored`, `SoundIsAlwaysVerified`. A verdict looks at two
numbers, the failed checks and the chains not looked at, so the invariant says
what they stand for: while no check has failed, everything checked so far is true
(`ChecksOK`), and every chain behind the program is not named, not looked at, or
holds a confirmed transaction that names the block in hand (`Committed`), which a
chain that moves cannot undo (`MineLedger`). The chains not looked at are those
named that have no node or a silent one, and no others (`UncheckedOK`), which is
why an invented transaction is exposed by the node of its own chain whatever the
other calls come to. `MostFailures` bounds the failures by the place in the loop.
For the converse, `SoundSoFar`: a sound sheet has failed no check while its own
transactions stand still.

None of them assumes that the gateway answers what it is asked. What a VERIFICADA
says of the file then depends on what the transaction holds (`Anchors`). If it
holds a root, the file is one of the sheets of that root, whatever blocks were
served: this is `RootFact`, and `RootNeedsNoGateway` states it by itself. Its
hypothesis about roots, `MerkleTree!RootsIdentifySheets`, is itself a theorem, of
`AlgorithmProofs` (`RootsAlwaysIdentifySheets`); the others are that the hashes of
files are no hashes of nodes, that the root of a published block is no CID and
that the lists served are lists of hashes. If it holds a CID, the file is in the
block published under it provided the gateway answered that block, and there is
nothing more to prove, since the program never hashes what it is given.
`MerkleRoot` stays closed in this module.

**`FrontendProofs`**: `TypeCorrect`, `VeilAlwaysMatches`,
`VerdictAlwaysComesLast`, `PanelAlwaysMeansWork`. That the button leaves the page
alone is `StepsOfThePage`, so that page and button are proved apart.
`VerdictComesLast` needs to know which sequence the sheet shows: `WalkInv` says
that only the first tap of a page has started one, which `state.verified`, set
before the first await, is what ensures, and that steps, folding and verdict are
a function of its place (`ShownAt`).

**`AlgorithmProofs`**: all five properties of `MCAlgorithms`, for sequences that
grow without bound, and what they are instances of. The algorithms are folds,
and a fold is a recursive function hidden in a library definition.
`FoldTheory` is stated for a constant operator `Op` and shows that a fold is a
list of steps `f[i] = Op(f[i - 1], s[i])` (`Steps`), with induction over a set of
numbers instead of over a predicate (`NatSetInduction`); each loop of the code is
an instance of it. What remains per algorithm is an invariant of its loop:

- `RootAlwaysDeterminesTheSheets` and `ServedSheetWasSealed`. Two climbs with the
  same root are walked back down in step: at each height the pairs of the one
  level are those of the other, so the nodes are. They end at the same height
  because a leaf is no pair of nodes (`IsLeaf`), which is the only assumption;
  without it, the first level of a list is a list with the same root.
  `ServedSheetWasSealed` needs of the list a gateway serves no more than that
  the root matches and *one* of its sheets is a leaf: then it holds exactly the
  sheets that were sealed. `RootNeedsNoGateway` above rests on it.
- `RootIsAlwaysTheTree`, from `MerkleRootIsTheTree`. The invariant is `IsLevelOf`:
  after k turns, node j of the level is the node of height k over leaf
  (j - 1) * 2^k + 1 of the tree defined from above. An odd level repeats its last
  node exactly where the right half of the tree has no leaves (`Fits`).
- `AlwaysOneSpellingPerCode`, from `AcceptedIsAPrint` and `PrintLeadsToItsSheet`,
  for any number of blobs per identifier, codes and nonces of any length, and the
  real widths of base64 (8 and 6 bits) as well as the small ones TLC enumerates.
  That no second text stands for a print rests on decoding being compared with
  encoding again and on nothing about base64. That a print does lead to its sheet
  is the round trip: the bits of the symbols are those of the bytes followed by
  zeros (`Keeps`), the pads that `_b64url_decode` adds end the scan without a
  symbol lost, and the bytes read back are those that were sealed, so that the
  prints of two nonces differ.
- `AcceptedCanAlwaysBeShown`: a part is no more than the sum it is a part of,
  which `check_totals` makes the valid votes.
- `AlwaysStaysInCustody`, from `KeysStayUnderPrefix` and `OnlyLinksLeadAway`: an
  identifier without two dots in a row is split into names none of which climbs
  (`NoNameClimbs`), so that every place on the way begins with the one before
  (`DownwardWay`). If none of them is a link, `resolve()` ends at the key.

Only model-checked:

- liveness (`EveryRequestIsAnswered`, `EveryPageIsAnswered`,
  `EveryRunOfTheToolEnds`, `EveryRunEnds`, `PageSettles`, `ButtonsComeBack`):
  fairness is beyond this prover;
- the claims that fail.

## 5. Not modelled

- AES-GCM itself, and what parses a key or the environment: the modules say what
  a code deciphers to, and settings are constants.
- The shape of single fields of the data model (patterns, lengths, colours,
  coordinates): they decide wording and drawing. What rejects or accepts a sheet
  by its figures and station is in `Ingestion`.
- `exists` of the drivers, which nothing calls, the driver registry, and the
  demonstration driver, which the settings never select. Links that loop raise in
  `resolve()`, before any file is read.
- Stored preferences of language and theme: wording and colours; changing the
  language, which reloads the page, is in `RecordPage`.
- Security headers, static files, markup, state views and icons; the generators of
  fixtures, codes and images: no state, pure input and output.

## 6. Plan

In this order, the most important behaviour first.

1. Done: `Upstream`, `RecordService`, `Viewer` with `VerifierContract` and
   `ViewerHistory`; `RateLimiter` with `TokenBudget` and `RateWindow`;
   `PageCache` with browsers' copies and the PDF; `MerkleTree` and `VerifyChain`;
   `RecordPage` and `Download`, composed in `Frontend`; `RegisterRecord` over
   `Upstream` and `RecordService`; `Ingestion`, `CodeCipher` and `CustodyPaths`;
   the proofs of every safety property of viewer, limiter, page cache, tool,
   verifier, page and algorithms (section 4).
2. Not planned: contracts of their own for the button and for the verdict. What
   they would say of a run that is over is what `PanelMeansWork`,
   `VerifiedIsAnchored` and `SoundIsVerified` say already.
