------------------------------ MODULE Ingestion ------------------------------
(***************************************************************************)
(* What app/models.py accepts as the results and the identification of a   *)
(* sheet, when the operator registers it and again when the viewer decodes *)
(* it, and what web/js/views/results.js draws of the results.              *)
(*                                                                         *)
(* A field that has to be present and well formed and takes part in no     *)
(* comparison is left out.  Percentages are exact: a fraction is the pair  *)
(* of its terms.                                                           *)
(***************************************************************************)
EXTENDS Integers, Sequences, SequencesExt

\* Mutant: the options are compared with the ballots cast.
TotalsOfBallots(r) ==
    /\ FoldLeft(+, 0, r.options) = r.valid + r.null + r.blank
    /\ r.valid + r.null + r.blank = r.voters
    /\ r.voters <= r.eligible

\* The three balances of check_totals.
CheckTotals(r) ==
    /\ FoldLeft(+, 0, r.options) = r.valid
    /\ r.valid + r.null + r.blank = r.voters
    /\ r.voters <= r.eligible

\* Results: no count is negative, there is an option, the balances hold.
ResultsOK(r) ==
    /\ \A i \in 1..Len(r.options) : r.options[i] >= 0
    /\ {r.valid, r.null, r.blank, r.voters, r.eligible} \subseteq Nat
    /\ r.options # <<>>
    /\ CheckTotals(r)

\* RecordData names its station and its process.
DataOK(d) == d.wellFormed

\* The checks of build_body.
Accepted(results, data) ==
    ResultsOK(results) /\ DataOK(data) /\ results.station = data.station
-----------------------------------------------------------------------------
\* share of an option and turnout: a percentage as a pair, 0 of 1 for nobody.
Share(r, i) == IF r.valid # 0 THEN <<r.options[i], r.valid>> ELSE <<0, 1>>

Turnout(r) == IF r.eligible # 0 THEN <<r.voters, r.eligible>> ELSE <<0, 1>>

\* The width of a bar, relative to the longest one; never against nobody.
BarWidth(r, i) == <<r.options[i], Max({1} \cup ToSet(r.options))>>

AtMostWhole(fraction) == 0 <= fraction[1] /\ fraction[1] <= fraction[2]
=============================================================================
