----------------------------- MODULE TokenBudget -----------------------------
(***************************************************************************)
(* What a client address is promised, whatever the limiter remembers of    *)
(* it: a budget that refills by one unit per tick up to Capacity, from     *)
(* which every admitted request takes Cost units and no refused request    *)
(* takes anything.  Every address has a budget at all times: there are no  *)
(* buckets, no sweeps and no first visit here.                             *)
(***************************************************************************)
EXTENDS Naturals

CONSTANTS Addresses, Cost, Capacity

VARIABLES level, verdict

bvars == <<level, verdict>>

Init ==
    /\ level = [a \in Addresses |-> Capacity]
    /\ verdict = [a \in Addresses |-> "none"]

Refilled(n) == IF n < Capacity THEN n + 1 ELSE Capacity

Admit(a) ==
    /\ level[a] >= Cost
    /\ level' = [level EXCEPT ![a] = @ - Cost]
    /\ verdict' = [verdict EXCEPT ![a] = "admitted"]

Refuse(a) ==
    /\ level[a] < Cost
    /\ verdict' = [verdict EXCEPT ![a] = "refused"]
    /\ UNCHANGED level

Pass ==
    /\ level' = [a \in Addresses |-> Refilled(level[a])]
    /\ UNCHANGED verdict

Next == Pass \/ \E a \in Addresses : Admit(a) \/ Refuse(a)

Spec == Init /\ [][Next]_bvars
==============================================================================
