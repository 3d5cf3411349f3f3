-------------------------- MODULE RateLimiterProofs --------------------------
(***************************************************************************)
(* Proofs about RateLimiter for every burst, rate, sweep interval and set  *)
(* of addresses.                                                           *)
(***************************************************************************)
EXTENDS RateWindow, TLAPS

\* A bucket is worth at least one token.
LEMMA CapacityFact == Capacity \in Nat /\ Cost \in Nat /\ Cost >= 1 /\ Capacity >= Cost
  BY BurstAssumption, CostAssumption DEF Capacity

\* An idle bucket has been untouched for long enough to be full again.
LEMMA IdleFact == Idle \in Nat /\ Idle >= Capacity
  BY CapacityFact, SweepAssumption DEF Idle

\* Buckets are touched in the past only, and hold what a bucket may hold.
BucketsInv ==
    /\ now \in Nat
    /\ lastSweep \in Nat /\ lastSweep <= now
    /\ buckets \in [Addresses -> BucketType \cup {NoBucket}]
    /\ \A a \in Addresses : buckets[a] # NoBucket => buckets[a].updated <= now

\* Records are not the missing bucket.
LEMMA BucketIsNotMissing == \A b \in BucketType : b # NoBucket
  BY NoBucketAssumption, CapacityFact DEF BucketType

\* Bringing a bucket up to date never leaves its range.
LEMMA RefilledFact ==
  ASSUME NEW b \in BucketType, now \in Nat, b.updated <= now
  PROVE  /\ Refilled(b) \in 0..Capacity
         /\ Refilled(b) >= b.tokens
         /\ Refilled(b) = Capacity \/ Refilled(b) = b.tokens + (now - b.updated)
  BY CapacityFact DEF Refilled, Lesser, BucketType

\* What a sweep leaves of the buckets.
LEMMA SweptFact ==
  ASSUME BucketsInv
  PROVE  /\ Swept \in [Addresses -> BucketType \cup {NoBucket}]
         /\ \A a \in Addresses : Swept[a] = buckets[a]
              \/ (Swept[a] = NoBucket /\ buckets[a] # NoBucket
                    /\ now - buckets[a].updated >= Idle)
  BY DEF BucketsInv, Swept

\* Whatever a visit decides, it writes one bucket of the right shape.
LEMMA VisitFact ==
  ASSUME BucketsInv, NEW a \in Addresses, NEW bucket \in BucketType,
         NEW verdict, NEW retry, bucket.updated = now, Visit(a, bucket, verdict, retry)
  PROVE  BucketsInv' /\ now' = now
<1>1. now' = now /\ lastSweep' \in Nat /\ lastSweep' <= now'
  BY DEF Visit, BucketsInv
<1>2. buckets' = [Swept EXCEPT ![a] = bucket]
  BY DEF Visit
<1>3. Swept \in [Addresses -> BucketType \cup {NoBucket}]
  BY SweptFact
<1>4. buckets' \in [Addresses -> BucketType \cup {NoBucket}]
  BY <1>2, <1>3
<1>5. \A x \in Addresses : buckets'[x] # NoBucket => buckets'[x].updated <= now'
  BY <1>1, <1>2, <1>3, SweptFact DEF BucketsInv
<1> QED
  BY <1>1, <1>4, <1>5 DEF BucketsInv

\* The kinds of visit there are, and the tokens each leaves behind.
LEMMA StepFact ==
  ASSUME BucketsInv, NEW a \in Addresses, FirstVisit(a) \/ Admit(a) \/ Refuse(a)
  PROVE  \E bucket \in BucketType, verdict \in {"admitted", "refused"}, retry \in Nat :
            bucket.updated = now /\ Visit(a, bucket, verdict, retry)
<1>1. CASE FirstVisit(a)
  <2>1. [tokens |-> Fresh, updated |-> now] \in BucketType
    BY CapacityFact DEF Fresh, BucketType, BucketsInv
  <2> QED
    BY <1>1, <2>1 DEF FirstVisit
<1>2. CASE Swept[a] # NoBucket /\ (Admit(a) \/ Refuse(a))
  <2>1. buckets[a] \in BucketType /\ buckets[a].updated <= now
    BY <1>2, SweptFact DEF BucketsInv
  <2>2. Refilled(buckets[a]) \in 0..Capacity
    BY <2>1, RefilledFact DEF BucketsInv
  <2>3. CASE Admit(a)
    <3>1. [tokens |-> Refilled(buckets[a]) - Cost, updated |-> now] \in BucketType
      BY <2>2, <2>3, CapacityFact DEF Admit, BucketType, BucketsInv
    <3> QED
      BY <2>3, <3>1 DEF Admit
  <2>4. CASE Refuse(a)
    <3>1. [tokens |-> Refilled(buckets[a]), updated |-> now] \in BucketType
      BY <2>2 DEF BucketType, BucketsInv
    <3>2. PICK tenths \in Tenths(Cost - Refilled(buckets[a])) :
             Visit(a, [tokens |-> Refilled(buckets[a]), updated |-> now], "refused",
                   RetryAfter(tenths))
      BY <2>4 DEF Refuse
    <3>3. tenths \in Nat
      BY <2>2, CapacityFact DEF Tenths
    <3>4. RetryAfter(tenths) \in Nat
      BY <3>3 DEF RetryAfter, Greater
    <3> QED
      BY <3>1, <3>2, <3>4
  <2> QED
    BY <1>2, <2>3, <2>4
<1> QED
  BY <1>1, <1>2 DEF Admit, Refuse
-----------------------------------------------------------------------------
(***************************************************************************)
(* Type correctness, and with it that no bucket is ever touched in the     *)
(* future.                                                                 *)
(***************************************************************************)
Inv ==
    /\ BucketsInv
    /\ now \in 0..MaxTime
    /\ answer \in [Addresses -> AnswerType]

LEMMA InitInv == Init => Inv
<1> SUFFICES ASSUME Init PROVE Inv
  OBVIOUS
<1>1. BucketsInv
  BY DEF Init, BucketsInv
<1>2. now \in 0..MaxTime /\ answer \in [Addresses -> AnswerType]
  BY MaxTimeAssumption DEF Init, AnswerType
<1> QED
  BY <1>1, <1>2 DEF Inv

LEMMA NextInv == Inv /\ [Next]_vars => Inv'
<1> SUFFICES ASSUME Inv, [Next]_vars PROVE Inv'
  OBVIOUS
<1>1. CASE UNCHANGED vars
  BY <1>1 DEF vars, Inv, BucketsInv
<1>2. CASE Tick
  <2>1. now' \in 0..MaxTime /\ now' = now + 1
    BY <1>2, MaxTimeAssumption DEF Tick, Inv
  <2>2. UNCHANGED <<buckets, lastSweep, answer>>
    BY <1>2 DEF Tick
  <2>3. \A a \in Addresses : buckets[a] # NoBucket =>
           buckets[a].updated \in Nat /\ buckets[a].updated <= now
    BY DEF Inv, BucketsInv, BucketType
  <2> QED
    BY <2>1, <2>2, <2>3 DEF Inv, BucketsInv
<1>3. ASSUME NEW a \in Addresses, FirstVisit(a) \/ Admit(a) \/ Refuse(a)
      PROVE  Inv'
  <2>1. PICK bucket \in BucketType, verdict \in {"admitted", "refused"}, retry \in Nat :
           bucket.updated = now /\ Visit(a, bucket, verdict, retry)
    BY <1>3, StepFact DEF Inv
  <2>2. BucketsInv' /\ now' = now
    BY <2>1, VisitFact DEF Inv
  <2>3. answer' \in [Addresses -> AnswerType]
    BY <2>1 DEF Visit, Inv, AnswerType
  <2> QED
    BY <2>2, <2>3 DEF Inv
<1> QED
  BY <1>1, <1>2, <1>3 DEF Next

\* The state of the limiter is always of its type, for every configuration.
THEOREM TypeCorrect == Spec => []TypeOK
<1>1. Inv => TypeOK
  BY DEF Inv, BucketsInv, TypeOK
<1> QED
  BY InitInv, NextInv, <1>1, PTL DEF Spec
-----------------------------------------------------------------------------
\* The worth of an address, whether it has a bucket or not.
Worth(b) == IF b = NoBucket THEN Capacity ELSE Refilled(b)

LEMMA LevelIsWorth == \A a \in Addresses : Level[a] = Worth(buckets[a])
  BY DEF Level, Worth

LEMMA WorthType ==
  ASSUME BucketsInv, NEW a \in Addresses
  PROVE  Worth(buckets[a]) \in 0..Capacity
  BY RefilledFact, CapacityFact DEF Worth, BucketsInv

\* A bucket the sweep drops was full: dropping it changes no worth.
LEMMA SweepKeepsWorth ==
  ASSUME BucketsInv, NEW a \in Addresses
  PROVE  Worth(Swept[a]) = Worth(buckets[a])
<1>1. CASE Swept[a] = buckets[a]
  BY <1>1
<1>2. CASE Swept[a] # buckets[a]
  <2>1. /\ Swept[a] = NoBucket
        /\ buckets[a] \in BucketType /\ buckets[a].updated <= now
        /\ now - buckets[a].updated >= Idle
    BY <1>2, SweptFact DEF BucketsInv
  <2>2. Refilled(buckets[a]) = Capacity
    BY <2>1, RefilledFact, IdleFact, CapacityFact DEF BucketsInv, BucketType
  <2> QED
    BY <2>1, <2>2 DEF Worth
<1> QED
  BY <1>1, <1>2

\* A visit at which the bucket is written changes the worth of its address
\* alone, to the tokens it writes.
LEMMA VisitLevel ==
  ASSUME BucketsInv, NEW a \in Addresses, NEW bucket \in BucketType,
         NEW verdict, NEW retry, bucket.updated = now, Visit(a, bucket, verdict, retry)
  PROVE  Level' = [Level EXCEPT ![a] = bucket.tokens]
<1>1. now' = now /\ buckets' = [Swept EXCEPT ![a] = bucket]
  BY DEF Visit
<1>2. ASSUME NEW x \in Addresses, x # a
      PROVE  Level'[x] = Level[x]
  <2>1. buckets'[x] = Swept[x]
    BY <1>1, <1>2, SweptFact
  <2>2. Level'[x] = Worth(Swept[x])
    BY <1>1, <2>1 DEF Level, Worth, Refilled
  <2> QED
    BY <2>2, SweepKeepsWorth, LevelIsWorth
<1>3. Level'[a] = bucket.tokens
  <2>1. buckets'[a] = bucket /\ bucket # NoBucket
    BY <1>1, SweptFact, BucketIsNotMissing
  <2>2. Level'[a] = Lesser(Capacity, bucket.tokens + (now - now))
    BY <1>1, <2>1 DEF Level, Refilled
  <2> QED
    BY <2>2, CapacityFact DEF Lesser, BucketType, BucketsInv
<1>4. Level \in [Addresses -> 0..Capacity]
  BY LevelIsWorth, WorthType DEF Level
<1>5. Level' = [x \in Addresses |-> Level'[x]]
  BY DEF Level
<1> QED
  BY <1>2, <1>3, <1>4, <1>5

\* A first visit and an admission cost one token of what there was.
LEMMA AdmitLevel ==
  ASSUME BucketsInv, NEW a \in Addresses, FirstVisit(a) \/ Admit(a)
  PROVE  /\ Level[a] >= Cost
         /\ Level' = [Level EXCEPT ![a] = @ - Cost]
         /\ now' = now
<1>1. CASE FirstVisit(a)
  <2>1. [tokens |-> Fresh, updated |-> now] \in BucketType
    BY CapacityFact DEF Fresh, BucketType, BucketsInv
  <2>2. Level' = [Level EXCEPT ![a] = Fresh] /\ now' = now
    BY <1>1, <2>1, VisitLevel DEF FirstVisit, Visit
  <2>3. Level[a] = Capacity
    BY <1>1, SweepKeepsWorth, LevelIsWorth DEF FirstVisit, Worth
  <2> QED
    BY <2>2, <2>3, CapacityFact DEF Fresh
<1>2. CASE Admit(a)
  <2>1. Refilled(buckets[a]) = Level[a]
    BY <1>2, SweptFact, LevelIsWorth DEF Admit, Worth
  <2>2. Level[a] \in 0..Capacity
    BY LevelIsWorth, WorthType
  <2>3. [tokens |-> Level[a] - Cost, updated |-> now] \in BucketType
    BY <1>2, <2>1, <2>2, CapacityFact DEF Admit, BucketType, BucketsInv
  <2>4. Level' = [Level EXCEPT ![a] = Level[a] - Cost] /\ now' = now
    BY <1>2, <2>1, <2>3, VisitLevel DEF Admit, Visit
  <2> QED
    BY <1>2, <2>1, <2>4 DEF Admit
<1> QED
  BY <1>1, <1>2

\* A refusal takes nothing.
LEMMA RefuseLevel ==
  ASSUME BucketsInv, NEW a \in Addresses, Refuse(a)
  PROVE  Level[a] < Cost /\ Level' = Level /\ now' = now
<1>1. Refilled(buckets[a]) = Level[a]
  BY SweptFact, LevelIsWorth DEF Refuse, Worth
<1>2. Level[a] \in 0..Capacity
  BY LevelIsWorth, WorthType
<1>3. [tokens |-> Level[a], updated |-> now] \in BucketType
  BY <1>2 DEF BucketType, BucketsInv
<1>4. PICK tenths : Visit(a, [tokens |-> Level[a], updated |-> now], "refused",
                          RetryAfter(tenths))
  BY <1>1 DEF Refuse
<1>5. Level' = [Level EXCEPT ![a] = Level[a]] /\ now' = now
  BY <1>3, <1>4, VisitLevel DEF Visit
<1>6. Level' = Level
  BY <1>5 DEF Level
<1> QED
  BY <1>1, <1>5, <1>6 DEF Refuse

\* A tick refills every address by one, up to the capacity.
LEMMA TickLevel ==
  ASSUME BucketsInv, Tick, NEW a \in Addresses
  PROVE  Level'[a] = IF Level[a] < Capacity THEN Level[a] + 1 ELSE Capacity
<1>1. buckets' = buckets /\ now' = now + 1
  BY DEF Tick
<1>2. CASE buckets[a] = NoBucket
  BY <1>1, <1>2, CapacityFact DEF Level
<1>3. CASE buckets[a] # NoBucket
  <2>1. buckets[a] \in BucketType /\ buckets[a].updated <= now
    BY <1>3 DEF BucketsInv
  <2>2. /\ buckets[a].tokens \in 0..Capacity
        /\ buckets[a].updated \in Nat
        /\ now \in Nat
    BY <2>1 DEF BucketType, BucketsInv
  <2>3. Level[a] = Lesser(Capacity, buckets[a].tokens + (now - buckets[a].updated))
    BY <1>3 DEF Level, Refilled
  <2>4. Level'[a] = Lesser(Capacity, buckets'[a].tokens + (now' - buckets'[a].updated))
    BY <1>1, <1>3 DEF Level, Refilled
  <2>5. Level'[a] = Lesser(Capacity, buckets[a].tokens + ((now + 1) - buckets[a].updated))
    BY <1>1, <2>4
  <2> QED
    BY <2>1, <2>2, <2>3, <2>4, <2>5, CapacityFact DEF Lesser
<1> QED
  BY <1>2, <1>3
-----------------------------------------------------------------------------
(***************************************************************************)
(* Any window is bounded: what was admitted in a window, together with     *)
(* what the address could still spend at once, is at most a burst and the  *)
(* refilling of the window.                                                *)
(***************************************************************************)
WindowInv ==
    /\ Inv
    /\ window \in [Addresses -> WindowType]
    /\ \A a \in Addresses :
          /\ window[a].from <= now
          /\ window[a].admitted * Cost + Level[a]
                <= Capacity + (now - window[a].from)

LEMMA InitWindow == WInit => WindowInv
<1> SUFFICES ASSUME WInit PROVE WindowInv
  OBVIOUS
<1>1. Inv
  BY InitInv DEF WInit
<1>2. window \in [Addresses -> WindowType]
  BY DEF WInit, WindowType
<1>3. ASSUME NEW a \in Addresses
      PROVE  /\ window[a].from <= now
             /\ window[a].admitted * Cost + Level[a]
                   <= Capacity + (now - window[a].from)
  <2>1. window[a] = [from |-> 0, admitted |-> 0] /\ now = 0
    BY DEF WInit, Init
  <2>2. Level[a] = Capacity
    BY DEF WInit, Init, Level
  <2> QED
    BY <2>1, <2>2, CapacityFact
<1> QED
  BY <1>1, <1>2, <1>3 DEF WindowInv

LEMMA NextWindow == WindowInv /\ [WNext]_wvars => WindowInv'
<1> SUFFICES ASSUME WindowInv, [WNext]_wvars PROVE WindowInv'
  OBVIOUS
<1>1. BucketsInv /\ now \in Nat
  BY DEF WindowInv, Inv, BucketsInv
<1>2. \A x \in Addresses :
         /\ Level[x] \in 0..Capacity
         /\ window[x].from \in Nat /\ window[x].admitted \in Nat
         /\ window[x].admitted * Cost \in Nat
  BY <1>1, LevelIsWorth, WorthType, CapacityFact DEF WindowInv, WindowType
<1>3. CASE UNCHANGED wvars
  <2>1. Inv'
    BY <1>3, NextInv DEF wvars, WindowInv
  <2>2. UNCHANGED <<now, buckets, window>>
    BY <1>3 DEF wvars, vars
  <2>3. Level' = Level
    BY <2>2 DEF Level, Refilled
  <2> QED
    BY <2>1, <2>2, <2>3 DEF WindowInv
<1>4. CASE WTick
  <2>1. Inv'
    BY <1>4, NextInv DEF WTick, Next, WindowInv
  <2>2. now' = now + 1 /\ window' = window
    BY <1>4 DEF WTick, Tick
  <2>3. ASSUME NEW a \in Addresses
        PROVE  window[a].admitted * Cost + Level'[a] <= Capacity + (now + 1 - window[a].from)
    <3>1. Level'[a] = IF Level[a] < Capacity THEN Level[a] + 1 ELSE Capacity
      BY <1>1, <1>4, TickLevel DEF WTick
    <3>2. window[a].admitted * Cost + Level[a] <= Capacity + (now - window[a].from)
      BY DEF WindowInv
    <3> QED
      BY <1>1, <1>2, <3>1, <3>2, CapacityFact
  <2>4. \A a \in Addresses : window[a].from <= now + 1
    BY <1>1, <1>2 DEF WindowInv
  <2>5. \A a \in Addresses :
           /\ window'[a].from <= now'
           /\ window'[a].admitted * Cost + Level'[a]
                 <= Capacity + (now' - window'[a].from)
    <3> SUFFICES ASSUME NEW a \in Addresses
                 PROVE  /\ window'[a].from <= now'
                        /\ window'[a].admitted * Cost + Level'[a]
                              <= Capacity + (now' - window'[a].from)
      OBVIOUS
    <3>1. window'[a] = window[a] /\ now' = now + 1
      BY <2>2
    <3> QED
      BY <1>1, <1>2, <2>3, <2>4, <3>1
  <2>6. window' \in [Addresses -> WindowType]
    BY <2>2 DEF WindowInv
  <2> QED
    BY <2>1, <2>5, <2>6 DEF WindowInv
<1>5. ASSUME NEW a \in Addresses, Open(a)
      PROVE  WindowInv'
  <2>1. UNCHANGED vars /\ window' = [window EXCEPT ![a] = [from |-> now, admitted |-> 0]]
    BY <1>5 DEF Open
  <2>2. Inv'
    BY <2>1, NextInv DEF WindowInv
  <2>3. now' = now /\ Level' = Level
    BY <2>1 DEF vars, Level, Refilled
  <2>4. window' \in [Addresses -> WindowType]
    BY <1>1, <2>1 DEF WindowInv, WindowType
  <2>5. ASSUME NEW x \in Addresses
        PROVE  /\ window'[x].from <= now
               /\ window'[x].admitted * Cost + Level[x]
                     <= Capacity + (now - window'[x].from)
    BY <1>1, <1>2, <2>1, CapacityFact DEF WindowInv
  <2> QED
    BY <2>2, <2>3, <2>4, <2>5 DEF WindowInv
<1>6. ASSUME NEW a \in Addresses, WAdmit(a)
      PROVE  WindowInv'
  <2>1. Inv'
    BY <1>6, NextInv DEF WAdmit, Next, WindowInv
  <2>2. /\ Level[a] >= Cost
        /\ Level' = [Level EXCEPT ![a] = @ - Cost]
        /\ now' = now
    BY <1>1, <1>6, AdmitLevel DEF WAdmit
  <2>3. window' = [window EXCEPT ![a].admitted = @ + 1]
    BY <1>6 DEF WAdmit
  <2>4. window' \in [Addresses -> WindowType]
    BY <1>2, <2>3 DEF WindowInv, WindowType
  <2>5. /\ window'[a].from = window[a].from
        /\ window'[a].admitted = window[a].admitted + 1
        /\ \A x \in Addresses : x # a => window'[x] = window[x]
    BY <2>3 DEF WindowInv, WindowType
  <2>6. Level'[a] = Level[a] - Cost /\ \A x \in Addresses : x # a => Level'[x] = Level[x]
    BY <2>2 DEF Level
  <2>7. (window[a].admitted + 1) * Cost = window[a].admitted * Cost + Cost
    BY <1>2, CapacityFact
  <2>8. ASSUME NEW x \in Addresses
        PROVE  /\ window'[x].from <= now
               /\ window'[x].admitted * Cost + Level'[x]
                     <= Capacity + (now - window'[x].from)
    <3>1. CASE x = a
      BY <3>1, <1>1, <1>2, <2>5, <2>6, <2>7, CapacityFact DEF WindowInv
    <3>2. CASE x # a
      BY <3>2, <2>5, <2>6 DEF WindowInv
    <3> QED
      BY <3>1, <3>2
  <2> QED
    BY <2>1, <2>2, <2>4, <2>8 DEF WindowInv
<1>7. ASSUME NEW a \in Addresses, WRefuse(a)
      PROVE  WindowInv'
  <2>1. Inv'
    BY <1>7, NextInv DEF WRefuse, Next, WindowInv
  <2>2. Level' = Level /\ now' = now /\ window' = window
    BY <1>1, <1>7, RefuseLevel DEF WRefuse
  <2> QED
    BY <2>1, <2>2 DEF WindowInv
<1> QED
  BY <1>3, <1>4, <1>5, <1>6, <1>7 DEF WNext

\* From whatever moment it is measured, no address is admitted more than a
\* burst and what the rate adds, for every burst, rate and sweep interval.
THEOREM WindowsAreBounded == WSpec => []AnyWindowIsBounded
<1>1. WindowInv => AnyWindowIsBounded
  <2> SUFFICES ASSUME WindowInv, NEW a \in Addresses
               PROVE  window[a].admitted * Cost <= Capacity + (now - window[a].from)
    BY DEF AnyWindowIsBounded
  <2>1. /\ BucketsInv /\ now \in Nat
        /\ window[a].from \in Nat /\ window[a].admitted \in Nat
        /\ window[a].admitted * Cost + Level[a] <= Capacity + (now - window[a].from)
    BY DEF WindowInv, Inv, BucketsInv, WindowType
  <2>2. Level[a] \in 0..Capacity /\ window[a].admitted * Cost \in Nat
    BY <2>1, LevelIsWorth, WorthType, CapacityFact
  <2> QED
    BY <2>1, <2>2, CapacityFact
<1> QED
  BY InitWindow, NextWindow, <1>1, PTL DEF WSpec
-----------------------------------------------------------------------------
\* A step of the limiter is a step of the budget, or leaves it alone.
LEMMA StepKeepsBudget == Inv /\ [Next]_vars => [Budget!Next]_(Budget!bvars)
<1> SUFFICES ASSUME Inv, [Next]_vars PROVE [Budget!Next]_(Budget!bvars)
  OBVIOUS
<1>0. BucketsInv /\ answer \in [Addresses -> AnswerType]
  BY DEF Inv
<1>1. CASE UNCHANGED vars
  <2>1. Level' = Level /\ Verdict' = Verdict
    BY <1>1 DEF vars, Level, Refilled, Verdict
  <2> QED
    BY <2>1 DEF Budget!bvars
<1>2. CASE Tick
  <2>1. Verdict' = Verdict
    BY <1>2 DEF Tick, Verdict
  <2>2. Level' = [a \in Addresses |-> Budget!Refilled(Level[a])]
    <3>1. \A a \in Addresses : Level'[a] = Budget!Refilled(Level[a])
      BY <1>0, <1>2, TickLevel DEF Budget!Refilled
    <3>2. Level' = [a \in Addresses |-> Level'[a]]
      BY DEF Level
    <3> QED
      BY <3>1, <3>2
  <2> QED
    BY <2>1, <2>2 DEF Budget!Next, Budget!Pass
<1>3. ASSUME NEW a \in Addresses, FirstVisit(a) \/ Admit(a)
      PROVE  Budget!Next
  <2>1. Level[a] >= Cost /\ Level' = [Level EXCEPT ![a] = @ - Cost]
    BY <1>0, <1>3, AdmitLevel
  <2>2. PICK s \in Nat :
          answer' = [answer EXCEPT ![a] = [verdict |-> "admitted", at |-> now, retry |-> s]]
    BY <1>3 DEF FirstVisit, Admit, Visit
  <2>3. Verdict' = [Verdict EXCEPT ![a] = "admitted"]
    BY <1>0, <2>2 DEF Verdict
  <2> QED
    BY <2>1, <2>3 DEF Budget!Next, Budget!Admit
<1>4. ASSUME NEW a \in Addresses, Refuse(a)
      PROVE  Budget!Next
  <2>1. Level[a] < Cost /\ Level' = Level
    BY <1>0, <1>4, RefuseLevel
  <2>2. PICK s :
          answer' = [answer EXCEPT ![a] = [verdict |-> "refused", at |-> now, retry |-> s]]
    BY <1>4 DEF Refuse, Visit
  <2>3. Verdict' = [Verdict EXCEPT ![a] = "refused"]
    BY <1>0, <2>2 DEF Verdict
  <2> QED
    BY <2>1, <2>3 DEF Budget!Next, Budget!Refuse
<1> QED
  BY <1>1, <1>2, <1>3, <1>4 DEF Next

\* The limiter implements the budget: whatever is swept, forgotten and created
\* again, no client gains or loses a token by it.
THEOREM ImplementsBudget == Spec => KeepsBudget
<1>1. Init => Budget!Init
  <2> SUFFICES ASSUME Init PROVE Budget!Init
    OBVIOUS
  <2>1. Level = [a \in Addresses |-> Capacity]
    BY DEF Init, Level
  <2>2. Verdict = [a \in Addresses |-> "none"]
    BY DEF Init, Verdict
  <2> QED
    BY <2>1, <2>2 DEF Budget!Init
<1> QED
  BY InitInv, NextInv, <1>1, StepKeepsBudget, PTL DEF Spec, KeepsBudget, Budget!Spec
-----------------------------------------------------------------------------
(***************************************************************************)
(* Forgetting takes two things: no bucket survives a sweep it was idle at, *)
(* and no visit is answered long after a sweep.                            *)
(***************************************************************************)
SweepForgets ==
    \A a \in Addresses :
        buckets[a] # NoBucket => lastSweep - buckets[a].updated < Idle

SweepIsRecent ==
    \A b \in Addresses :
        answer[b].verdict # "none" => answer[b].at - lastSweep < SweepEvery

LEMMA NextForgets == Inv /\ SweepForgets /\ [Next]_vars => SweepForgets'
<1> SUFFICES ASSUME Inv, SweepForgets, [Next]_vars PROVE SweepForgets'
  OBVIOUS
<1>1. CASE UNCHANGED vars
  BY <1>1 DEF vars, SweepForgets, Idle, Capacity
<1>2. CASE Tick
  BY <1>2 DEF Tick, SweepForgets, Idle, Capacity
<1>3. ASSUME NEW a \in Addresses, FirstVisit(a) \/ Admit(a) \/ Refuse(a),
             NEW x \in Addresses, buckets'[x] # NoBucket
      PROVE  lastSweep' - buckets'[x].updated < Idle
  <2>0. BucketsInv /\ now \in Nat /\ lastSweep \in Nat /\ lastSweep <= now
    BY DEF Inv, BucketsInv
  <2>1. PICK bucket \in BucketType, verdict \in {"admitted", "refused"}, retry \in Nat :
           bucket.updated = now /\ Visit(a, bucket, verdict, retry)
    BY <1>3, StepFact DEF Inv
  <2>2. /\ buckets' = [Swept EXCEPT ![a] = bucket]
        /\ lastSweep' = IF SweepDue THEN now ELSE lastSweep
    BY <2>1 DEF Visit
  <2>3. CASE x = a
    <3>1. buckets'[x] = bucket
      BY <2>0, <2>2, <2>3, SweptFact
    <3> QED
      BY <2>0, <2>1, <2>2, <3>1, IdleFact, CapacityFact
  <2>4. CASE x # a
    <3>1. buckets'[x] = Swept[x]
      BY <2>0, <2>2, <2>4, SweptFact
    <3>2. buckets'[x] = buckets[x] /\ (SweepDue => ~(now - buckets[x].updated >= Idle))
      BY <1>3, <3>1 DEF Swept
    <3>3. buckets[x].updated \in Nat
      BY <1>3, <2>0, <3>2 DEF BucketsInv, BucketType
    <3>4. CASE SweepDue
      BY <2>0, <2>2, <3>2, <3>3, <3>4, IdleFact
    <3>5. CASE ~SweepDue
      BY <1>3, <2>2, <3>2, <3>5 DEF SweepForgets
    <3> QED
      BY <3>4, <3>5
  <2> QED
    BY <2>3, <2>4
<1>4. Idle' = Idle
  BY DEF Idle, Capacity
<1> QED
  BY <1>1, <1>2, <1>3, <1>4 DEF Next, SweepForgets

\* Every visit sweeps if it has been long enough.
LEMMA NextSweeps == Inv /\ SweepIsRecent /\ [Next]_vars => SweepIsRecent'
<1> SUFFICES ASSUME Inv, SweepIsRecent, [Next]_vars PROVE SweepIsRecent'
  OBVIOUS
<1>0. /\ BucketsInv /\ now \in Nat /\ lastSweep \in Nat /\ lastSweep <= now
      /\ answer \in [Addresses -> AnswerType] /\ SweepEvery \in Nat /\ SweepEvery >= 1
  BY SweepAssumption DEF Inv, BucketsInv
<1>1. CASE UNCHANGED <<lastSweep, answer>>
  BY <1>1 DEF SweepIsRecent
<1>2. ASSUME NEW a \in Addresses, FirstVisit(a) \/ Admit(a) \/ Refuse(a),
             NEW b \in Addresses, answer'[b].verdict # "none"
      PROVE  answer'[b].at - lastSweep' < SweepEvery
  <2>1. PICK bucket \in BucketType, verdict \in {"admitted", "refused"}, retry \in Nat :
           bucket.updated = now /\ Visit(a, bucket, verdict, retry)
    BY <1>0, <1>2, StepFact
  <2>2. /\ lastSweep' = IF SweepDue THEN now ELSE lastSweep
        /\ answer' = [answer EXCEPT ![a] = [verdict |-> verdict, at |-> now, retry |-> retry]]
    BY <2>1 DEF Visit
  <2>3. now - lastSweep' < SweepEvery /\ lastSweep' \in Nat /\ lastSweep <= lastSweep'
    BY <1>0, <2>2 DEF SweepDue
  <2>4. CASE b = a
    <3>1. answer'[b].at = now
      BY <1>0, <2>2, <2>4
    <3> QED
      BY <2>3, <3>1
  <2>5. CASE b # a
    <3>1. answer'[b] = answer[b] /\ answer[b].at \in Nat
      BY <1>0, <2>2, <2>5 DEF AnswerType
    <3>2. answer[b].at - lastSweep < SweepEvery
      BY <1>2, <3>1 DEF SweepIsRecent
    <3> QED
      BY <1>0, <2>3, <3>1, <3>2
  <2> QED
    BY <2>4, <2>5
<1> QED
  BY <1>1, <1>2 DEF Next, Tick, vars, SweepIsRecent

\* Whenever somebody has just been answered, no bucket has been untouched for
\* longer than the idle limit and one interval, whatever burst, rate and interval.
THEOREM Forgets == Spec => []NothingIsRemembered
<1>1. Init => SweepForgets /\ SweepIsRecent
  BY DEF Init, SweepForgets, SweepIsRecent
<1>2. Inv /\ SweepForgets /\ SweepIsRecent => NothingIsRemembered
  <2> SUFFICES ASSUME Inv, SweepForgets, SweepIsRecent, NEW a \in Addresses, NEW b \in Addresses,
                      buckets[a] # NoBucket, answer[b].verdict # "none"
               PROVE  answer[b].at - buckets[a].updated < Idle + SweepEvery
    BY DEF NothingIsRemembered
  <2>1. /\ buckets[a].updated \in Nat /\ answer[b].at \in Nat /\ lastSweep \in Nat
        /\ SweepEvery \in Nat /\ Idle \in Nat
    BY SweepAssumption, IdleFact DEF Inv, BucketsInv, BucketType, AnswerType
  <2>2. lastSweep - buckets[a].updated < Idle /\ answer[b].at - lastSweep < SweepEvery
    BY DEF SweepForgets, SweepIsRecent
  <2> QED
    BY <2>1, <2>2
<1> QED
  BY InitInv, NextInv, <1>1, <1>2, NextForgets, NextSweeps, PTL DEF Spec
-----------------------------------------------------------------------------
\* The seconds announced cover the wait, however it was rounded.
LEMMA RetryCovers ==
  ASSUME NEW wait \in Nat, NEW tenths \in Tenths(wait)
  PROVE  RetryAfter(tenths) * Second >= wait
<1>1. tenths \in Nat /\ 2 * wait <= 2 * tenths * Tenth + Tenth /\ Tenth \in Nat
  BY TenthAssumption DEF Tenths
<1> DEFINE q == tenths \div 10
           k == 10 * (q + 1) - (tenths + 1)
<1>2. q \in Nat /\ k \in Nat
  BY <1>1
<1>3. RetryAfter(tenths) = q + 1
  BY <1>2 DEF RetryAfter, Greater
<1>4. (q + 1) * Second = (tenths + 1) * Tenth + k * Tenth
  BY <1>1, <1>2 DEF Second
<1>5. k * Tenth \in Nat /\ (tenths + 1) * Tenth = tenths * Tenth + Tenth
      /\ tenths * Tenth \in Nat /\ 2 * tenths * Tenth = 2 * (tenths * Tenth)
  BY <1>1, <1>2
<1> QED
  BY <1>1, <1>3, <1>4, <1>5

\* A refused client's bucket is as the refusal left it, or was swept; what it
\* lacks of a token refills in the seconds the client was told.
RetryInv ==
    \A a \in Addresses :
        answer[a].verdict = "refused" /\ buckets[a] # NoBucket
        => /\ buckets[a].updated = answer[a].at
           /\ Cost - buckets[a].tokens <= answer[a].retry * Second

LEMMA NextRetry == Inv /\ RetryInv /\ [Next]_vars => RetryInv'
<1> SUFFICES ASSUME Inv, RetryInv, [Next]_vars PROVE RetryInv'
  OBVIOUS
<1>0. /\ BucketsInv /\ now \in Nat
      /\ answer \in [Addresses -> AnswerType]
  BY DEF Inv, BucketsInv
<1>1. CASE UNCHANGED <<buckets, answer>>
  BY <1>1 DEF RetryInv, Second
<1>2. ASSUME NEW a \in Addresses, NEW bucket \in BucketType, NEW verdict, NEW retry,
             Visit(a, bucket, verdict, retry), bucket.updated = now,
             verdict = "refused" => Cost - bucket.tokens <= retry * Second
      PROVE  RetryInv'
  <2>1. /\ buckets' = [Swept EXCEPT ![a] = bucket]
        /\ answer' = [answer EXCEPT ![a] = [verdict |-> verdict, at |-> now, retry |-> retry]]
    BY <1>2 DEF Visit
  <2>2. ASSUME NEW x \in Addresses, answer'[x].verdict = "refused", buckets'[x] # NoBucket
        PROVE  /\ buckets'[x].updated = answer'[x].at
               /\ Cost - buckets'[x].tokens <= answer'[x].retry * Second
    <3>1. CASE x = a
      <4>1. buckets'[x] = bucket
        BY <1>0, <2>1, <3>1, SweptFact
      <4>2. answer'[x] = [verdict |-> verdict, at |-> now, retry |-> retry]
        BY <1>0, <2>1, <3>1
      <4> QED
        BY <1>2, <2>2, <4>1, <4>2
    <3>2. CASE x # a
      <4>1. buckets'[x] = buckets[x] /\ answer'[x] = answer[x]
        BY <1>0, <2>1, <2>2, <3>2, SweptFact
      <4> QED
        BY <2>2, <4>1 DEF RetryInv
    <3> QED
      BY <3>1, <3>2
  <2> QED
    BY <2>2 DEF RetryInv, Second
<1>3. ASSUME NEW a \in Addresses, FirstVisit(a)
      PROVE  RetryInv'
  <2>1. [tokens |-> Fresh, updated |-> now] \in BucketType
    BY <1>0, CapacityFact DEF Fresh, BucketType
  <2> QED
    BY <1>2, <1>3, <2>1 DEF FirstVisit
<1>4. ASSUME NEW a \in Addresses, Admit(a) \/ Refuse(a)
      PROVE  /\ Refilled(buckets[a]) \in 0..Capacity
  BY <1>0, <1>4, SweptFact, RefilledFact DEF Admit, Refuse, BucketsInv
<1>5. ASSUME NEW a \in Addresses, Admit(a)
      PROVE  RetryInv'
  <2>1. [tokens |-> Refilled(buckets[a]) - Cost, updated |-> now] \in BucketType
    BY <1>0, <1>4, <1>5, CapacityFact DEF Admit, BucketType
  <2> QED
    BY <1>2, <1>5, <2>1 DEF Admit
<1>6. ASSUME NEW a \in Addresses, Refuse(a)
      PROVE  RetryInv'
  <2> DEFINE level == Refilled(buckets[a])
  <2>1. level \in 0..Capacity /\ level < Cost /\ Cost - level \in Nat
    BY <1>4, <1>6, CapacityFact DEF Refuse
  <2>2. PICK tenths \in Tenths(Cost - level) :
           Visit(a, [tokens |-> level, updated |-> now], "refused", RetryAfter(tenths))
    BY <1>6 DEF Refuse
  <2>3. Cost - level <= RetryAfter(tenths) * Second
    <3>1. RetryAfter(tenths) * Second >= Cost - level
      BY <2>1, <2>2, RetryCovers
    <3>2. RetryAfter(tenths) * Second \in Nat
      BY <2>1, <2>2, TenthAssumption DEF Tenths, RetryAfter, Greater, Second
    <3> QED
      BY <2>1, <3>1, <3>2
  <2>4. [tokens |-> level, updated |-> now] \in BucketType
    BY <1>0, <2>1 DEF BucketType
  <2> HIDE DEF level
  <2> QED
    BY <1>2, <2>2, <2>3, <2>4
<1> QED
  BY <1>1, <1>3, <1>5, <1>6 DEF Next, Tick, vars

\* Whoever waits the seconds announced finds a token, for every rate.
THEOREM RetryIsEnough == Spec => []RetryAfterSuffices
<1>1. Init => RetryInv
  BY DEF Init, RetryInv
<1>2. Inv /\ RetryInv => RetryAfterSuffices
  <2> SUFFICES ASSUME Inv, RetryInv, NEW a \in Addresses,
                      answer[a].verdict = "refused",
                      now >= answer[a].at + answer[a].retry * Second,
                      buckets[a] # NoBucket
               PROVE  Refilled(buckets[a]) >= Cost
    BY DEF RetryAfterSuffices
  <2>1. /\ buckets[a] \in BucketType /\ now \in Nat
        /\ answer[a].at \in Nat /\ answer[a].retry \in Nat
    BY DEF Inv, BucketsInv, AnswerType
  <2>2. /\ buckets[a].updated = answer[a].at
        /\ Cost - buckets[a].tokens <= answer[a].retry * Second
    BY DEF RetryInv
  <2>3. buckets[a].tokens \in Nat /\ buckets[a].updated \in Nat
    BY <2>1, CapacityFact DEF BucketType
  <2>4. answer[a].retry * Second \in Nat
    BY <2>1, TenthAssumption DEF Second
  <2> QED
    BY <2>1, <2>2, <2>3, <2>4, CapacityFact DEF Refilled, Lesser
<1> QED
  BY InitInv, NextInv, <1>1, <1>2, NextRetry, PTL DEF Spec
=============================================================================
