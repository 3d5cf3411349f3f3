------------------------------ MODULE RateWindow ------------------------------
(***************************************************************************)
(* RateLimiter observed through one window of time per address: a window   *)
(* may be opened at any moment, and counts the requests admitted since.    *)
(* The windows are never read by the program.                              *)
(***************************************************************************)
EXTENDS RateLimiter

VARIABLE window

wvars == <<vars, window>>

WindowType == [from : Nat, admitted : Nat]

WInit ==
    /\ Init
    /\ window = [a \in Addresses |-> [from |-> 0, admitted |-> 0]]

Open(a) ==
    /\ window' = [window EXCEPT ![a] = [from |-> now, admitted |-> 0]]
    /\ UNCHANGED vars

WAdmit(a) ==
    /\ FirstVisit(a) \/ Admit(a)
    /\ window' = [window EXCEPT ![a].admitted = @ + 1]

WRefuse(a) == Refuse(a) /\ UNCHANGED window

WTick == Tick /\ UNCHANGED window

WNext == WTick \/ \E a \in Addresses : Open(a) \/ WAdmit(a) \/ WRefuse(a)

WSpec == WInit /\ [][WNext]_wvars

(***************************************************************************)
(* The backstop holds in any window: from whatever moment it is measured,  *)
(* an address is admitted no more than a burst and what the rate adds      *)
(* since, also across sweeps that forget it in between.                    *)
(***************************************************************************)
AnyWindowIsBounded ==
    \A a \in Addresses :
        window[a].admitted * Cost <= Capacity + (now - window[a].from)
===============================================================================
