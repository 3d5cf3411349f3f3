----------------------------- MODULE RateLimiter -----------------------------
(***************************************************************************)
(* app/services/ratelimit.py and the throttle middleware of app/main.py    *)
(* that calls it: a token bucket per client address, with a sweep that     *)
(* forgets idle buckets.                                                   *)
(*                                                                         *)
(* Time and tokens are measured in ticks so that the arithmetic is exact:  *)
(* one token is Cost ticks of refilling (1 / rate seconds), a bucket holds *)
(* Capacity = Burst * Cost, and a tenth of a second, the precision the     *)
(* wait is rounded to, is Tenth ticks.  check() runs on the event loop and *)
(* under a lock, without an await: it is one action.                       *)
(***************************************************************************)
EXTENDS Integers, FiniteSets

CONSTANTS
    Addresses,    \* client addresses
    NoBucket,     \* no bucket for an address
    Burst,        \* settings.rate_limit_burst
    Cost,         \* ticks that refill one token: 1 / rate_limit_per_second
    SweepEvery,   \* the 60 seconds between sweeps, in ticks
    Tenth,        \* ticks in a tenth of a second
    MaxTime       \* bound on the clock

ASSUME BurstAssumption   == Burst \in Nat \ {0}
ASSUME CostAssumption    == Cost \in Nat \ {0}
ASSUME SweepAssumption   == SweepEvery \in Nat \ {0}
ASSUME TenthAssumption   == Tenth \in Nat \ {0}
ASSUME MaxTimeAssumption == MaxTime \in Nat
ASSUME NoBucketAssumption == NoBucket \notin [tokens : Int, updated : Int]

Capacity == Burst * Cost
Second   == 10 * Tenth

\* Mutant: the burst is forgotten in the idle limit.
IdleOfRateOnly == SweepEvery

\* How long a bucket must be untouched before a sweep forgets it.
Idle == Capacity + SweepEvery

VARIABLES
    now,         \* time.monotonic()
    buckets,     \* _buckets: address -> (tokens, updated)
    lastSweep,   \* _last_sweep
    answer       \* what the middleware answered each address last

vars == <<now, buckets, lastSweep, answer>>

BucketType == [tokens : 0..Capacity, updated : Nat]

\* at and retry tell a refused client when to come back: retry seconds later.
AnswerType == [verdict : {"none", "admitted", "refused"}, at : Nat, retry : Nat]

Init ==
    /\ now = 0
    /\ buckets = [a \in Addresses |-> NoBucket]
    /\ lastSweep = 0
    /\ answer = [a \in Addresses |-> [verdict |-> "none", at |-> 0, retry |-> 0]]
-----------------------------------------------------------------------------
Lesser(m, n)  == IF m < n THEN m ELSE n
Greater(m, n) == IF m > n THEN m ELSE n

SweepDue == now - lastSweep >= SweepEvery

\* _sweep: the buckets that survive the visit that triggers it.
Swept ==
    [a \in Addresses |->
        IF SweepDue /\ buckets[a] # NoBucket /\ now - buckets[a].updated >= Idle
        THEN NoBucket ELSE buckets[a]]

\* Mutant: tokens refill without a ceiling.
Overfilled(b) == b.tokens + (now - b.updated)

\* The tokens of a bucket brought up to date.
Refilled(b) == Lesser(Capacity, b.tokens + (now - b.updated))

\* The tenths of a second a wait in ticks may be rounded to; a tie goes
\* either way, as the float it is computed with decides.
Tenths(wait) ==
    {t \in 0..wait + 1 : /\ 2 * t * Tenth <= 2 * wait + Tenth
                         /\ 2 * wait <= 2 * t * Tenth + Tenth}

\* Mutant: the whole seconds are announced as they are.
TruncatedRetry(tenths) == Greater(1, tenths \div 10)

\* Retry-After, in seconds: max(1, int(wait) + 1).
RetryAfter(tenths) == Greater(1, tenths \div 10 + 1)

\* Mutant: a fresh bucket starts full, the first visit being free.
FreshFull == Capacity

\* A bucket is created with the first token already spent.
Fresh == Capacity - Cost

\* Mutant: every visit is noted as a sweep, so that a busy limiter never sweeps.
VisitNotesSweep(a, bucket, verdict, retry) ==
    /\ buckets' = [Swept EXCEPT ![a] = bucket]
    /\ lastSweep' = now
    /\ answer' = [answer EXCEPT ![a] = [verdict |-> verdict, at |-> now, retry |-> retry]]
    /\ UNCHANGED now

Visit(a, bucket, verdict, retry) ==
    /\ buckets' = [Swept EXCEPT ![a] = bucket]
    /\ lastSweep' = IF SweepDue THEN now ELSE lastSweep
    /\ answer' = [answer EXCEPT ![a] = [verdict |-> verdict, at |-> now, retry |-> retry]]
    /\ UNCHANGED now

\* No bucket, perhaps because this very sweep dropped it: always admitted.
FirstVisit(a) ==
    /\ Swept[a] = NoBucket
    /\ Visit(a, [tokens |-> Fresh, updated |-> now], "admitted", 0)

Admit(a) ==
    /\ Swept[a] # NoBucket
    /\ Refilled(buckets[a]) >= Cost
    /\ Visit(a, [tokens |-> Refilled(buckets[a]) - Cost, updated |-> now], "admitted", 0)

\* Refused with a 429; the bucket is brought up to date all the same.
Refuse(a) ==
    /\ Swept[a] # NoBucket
    /\ Refilled(buckets[a]) < Cost
    /\ \E tenths \in Tenths(Cost - Refilled(buckets[a])) :
          Visit(a, [tokens |-> Refilled(buckets[a]), updated |-> now], "refused",
                RetryAfter(tenths))

Tick == now < MaxTime /\ now' = now + 1 /\ UNCHANGED <<buckets, lastSweep, answer>>

Next == Tick \/ \E a \in Addresses : FirstVisit(a) \/ Admit(a) \/ Refuse(a)

Spec == Init /\ [][Next]_vars
-----------------------------------------------------------------------------
(***************************************************************************)
(* Type invariant.                                                         *)
(***************************************************************************)
TypeOK ==
    /\ now \in 0..MaxTime
    /\ buckets \in [Addresses -> BucketType \cup {NoBucket}]
    /\ lastSweep \in 0..now
    /\ answer \in [Addresses -> AnswerType]

(***************************************************************************)
(* A wait rather than a door closing: the client that was refused and      *)
(* waits the seconds it was told, whoever else knocks meanwhile, finds a   *)
(* token.  Two roundings stand between the wait and the seconds.           *)
(***************************************************************************)
RetryAfterSuffices ==
    \A a \in Addresses :
        /\ answer[a].verdict = "refused"
        /\ now >= answer[a].at + answer[a].retry * Second
        => buckets[a] = NoBucket \/ Refilled(buckets[a]) >= Cost

(***************************************************************************)
(* Memory does not grow with the addresses ever seen.  There is no clock   *)
(* behind the sweeps, only visits: when an address, any address, has just  *)
(* been answered, no bucket has been untouched for longer than the idle    *)
(* limit and one interval between sweeps.                                  *)
(***************************************************************************)
NothingIsRemembered ==
    \A a, b \in Addresses :
        buckets[a] # NoBucket /\ answer[b].verdict # "none"
        => answer[b].at - buckets[a].updated < Idle + SweepEvery

(***************************************************************************)
(* The limiter implements the budget: an address without a bucket is worth *)
(* a full one.  Forgetting a bucket must therefore neither gain a client   *)
(* tokens nor cost it any.                                                 *)
(***************************************************************************)
Level ==
    [a \in Addresses |->
        IF buckets[a] = NoBucket THEN Capacity ELSE Refilled(buckets[a])]

Verdict == [a \in Addresses |-> answer[a].verdict]

Budget == INSTANCE TokenBudget WITH level <- Level, verdict <- Verdict

\* Buckets, sweeps and lazy refilling add up to the plain budget.
KeepsBudget == Budget!Spec
==============================================================================
