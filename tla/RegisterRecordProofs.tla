------------------------- MODULE RegisterRecordProofs -------------------------
(***************************************************************************)
(* Proofs about RegisterRecord for every number of runs, files, accounts   *)
(* and inputs.  What the tool checks of its input, Accepted, is not opened *)
(* up: the proofs hold whatever it amounts to, except where the figures    *)
(* themselves are the conclusion.                                          *)
(***************************************************************************)
EXTENDS RegisterRecord, TLAPS

Success == {"registered", "duplicated"}

\* The run knows a file it read and figures that passed build_body.
HasBody(q) == q.evidence \in Contents /\ q.input \in Checked

(***************************************************************************)
(* What holds of a run: it sends what it saw; it has something to say only *)
(* after it had something to send; what it reports as a success is sealed; *)
(* and it has a receipt only of a success.                                 *)
(***************************************************************************)
RunOK(q) ==
    /\ q \in RunType
    /\ q.evidence = q.seen
    /\ q.pc = "idle" => q.said = "nothing"
    /\ q.pc \notin {"idle", "stopped"} \/ q.said # "nothing" => HasBody(q)
    /\ q.said \in Success => <<Operator, q.evidence>> \in sealed
    /\ q.proof => q.said \in Success
    /\ q.pc = "saving" => q.proof

\* What is on its way, its run has sent, whether or not it still runs.
PostedOK == \A r \in posted : run[r].pc # "idle" /\ HasBody(run[r])

\* The operator's rows carry figures that passed build_body.
InfoOK == \A d \in Contents : <<Operator, d>> \in sealed => info[d] \in Checked

Inv ==
    /\ ToolTypeOK
    /\ \A r \in Runs : RunOK(run[r])
    /\ PostedOK
    /\ InfoOK
    /\ ReceiptIsGenuine
-----------------------------------------------------------------------------
LEMMA NotRunOK == RunOK(NotRun)
  BY DEF RunOK, RunType, NotRun, Pcs, Success

\* A run with another pc.
LEMMA AtPc ==
  ASSUME NEW q \in RunType, NEW p \in Pcs
  PROVE  \E f \in RunType :
            /\ f = [q EXCEPT !.pc = p]
            /\ f.pc = p /\ f.evidence = q.evidence /\ f.input = q.input
            /\ f.said = q.said /\ f.proof = q.proof /\ f.seen = q.seen
<1>1. PICK f : f = [q EXCEPT !.pc = p]
  OBVIOUS
<1>2. /\ f.pc = p /\ f.evidence = q.evidence /\ f.input = q.input
      /\ f.said = q.said /\ f.proof = q.proof /\ f.seen = q.seen
  BY <1>1 DEF RunType
<1>3. f = [pc |-> f.pc, evidence |-> f.evidence, input |-> f.input, said |-> f.said,
           proof |-> f.proof, seen |-> f.seen]
  BY <1>1 DEF RunType
<1>4. f \in RunType
  BY <1>2, <1>3 DEF RunType
<1> QED
  BY <1>1, <1>2, <1>4

LEMMA InitInv == Init => Inv
<1> SUFFICES ASSUME Init PROVE Inv
  OBVIOUS
<1>1. WorldTypeOK
  BY MaxChangesAssumption DEF Init, WorldInit, WorldTypeOK
<1>2. NotRun \in RunType
  BY NotRunOK DEF RunOK
<1>3. ToolTypeOK
  BY <1>1, <1>2 DEF Init, ToolTypeOK, Receipts
<1> QED
  BY <1>3, NotRunOK DEF Init, WorldInit, Inv, PostedOK, InfoOK, ReceiptIsGenuine

(***************************************************************************)
(* A step of a run or of the service on its behalf: what is sealed stays   *)
(* sealed, so the other runs hear nothing of it.                           *)
(***************************************************************************)
LEMMA RunStep ==
  ASSUME Inv, NEW r \in Runs, NEW f, run' = [run EXCEPT ![r] = f], RunOK(f)',
         sealed \subseteq sealed', WorldTypeOK', pdf' \in Contents \cup {NoDoc},
         info' \in [Contents -> Inputs \cup {NoInput}], receipt' \in Receipts,
         posted' \subseteq posted \cup {r}, r \in posted' => f.pc # "idle" /\ HasBody(f),
         InfoOK', ReceiptIsGenuine'
  PROVE  Inv'
<1>1. ASSUME NEW c \in Runs
      PROVE  RunOK(run[c])'
  BY DEF Inv, ToolTypeOK, RunOK
<1>2. run' \in [Runs -> RunType]
  BY <1>1 DEF RunOK, Inv, ToolTypeOK
<1>3. PostedOK'
  BY DEF Inv, ToolTypeOK, PostedOK, HasBody
<1> QED
  BY <1>1, <1>2, <1>3 DEF Inv, ToolTypeOK

\* The same of a step of the run alone.
LEMMA LocalStep ==
  ASSUME Inv, NEW r \in Runs, NEW f, run' = [run EXCEPT ![r] = f], RunOK(f),
         UNCHANGED <<worldVars, pdf, info>>, receipt' \in Receipts, ReceiptIsGenuine',
         posted' \subseteq posted \cup {r}, r \in posted' => f.pc # "idle" /\ HasBody(f)
  PROVE  Inv'
<1>1. /\ UNCHANGED <<custody, held, sealed, latest, anchored, changes, pdf, info>>
      /\ WorldTypeOK /\ InfoOK /\ ToolTypeOK
  BY DEF worldVars, Inv, ToolTypeOK
<1>2. WorldTypeOK' /\ InfoOK' /\ RunOK(f)'
  BY <1>1 DEF WorldTypeOK, InfoOK, RunOK
<1>3. pdf' \in Contents \cup {NoDoc} /\ info' \in [Contents -> Inputs \cup {NoInput}]
  BY <1>1 DEF ToolTypeOK
<1> QED
  BY <1>1, <1>2, <1>3, RunStep

\* What Goes makes of a run.
LEMMA GoesOK ==
  ASSUME Inv, NEW r \in Runs, NEW p \in Pcs \ {"idle"}, Goes(r, p),
         p # "stopped" => HasBody(run[r]), p = "saving" => run[r].proof
  PROVE  \E f : /\ run' = [run EXCEPT ![r] = f] /\ RunOK(f)
                /\ f.pc = p /\ HasBody(f) = HasBody(run[r])
<1>1. PICK q \in RunType : q = run[r]
  BY DEF Inv, ToolTypeOK
<1>2. RunOK(q)
  BY <1>1 DEF Inv
<1>3. PICK f \in RunType :
         /\ f = [q EXCEPT !.pc = p]
         /\ f.pc = p /\ f.evidence = q.evidence /\ f.input = q.input
         /\ f.said = q.said /\ f.proof = q.proof /\ f.seen = q.seen
  BY AtPc
<1>4. run' = [run EXCEPT ![r] = f]
  BY <1>1, <1>3 DEF Goes
<1>5. HasBody(f) = HasBody(q)
  BY <1>3 DEF HasBody
<1>6. RunOK(f)
  BY <1>1, <1>2, <1>3, <1>5 DEF RunOK
<1> QED
  BY <1>1, <1>3, <1>4, <1>5, <1>6
-----------------------------------------------------------------------------
\* build_body: the file is read once, and what is sent is its hash.
LEMMA BuildBodyInv ==
  ASSUME Inv, NEW r \in Runs, NEW x \in Inputs, BuildBody(r, x)
  PROVE  Inv'
<1>1. PICK q \in RunType : q = run[r]
  BY DEF Inv, ToolTypeOK
<1>2. PICK d \in Contents : d = pdf
  BY DEF BuildBody, Inv, ToolTypeOK
<1>3. PICK f : f = [q EXCEPT !.pc = "built", !.evidence = d, !.input = x, !.seen = d]
  OBVIOUS
<1>4. /\ f.pc = "built" /\ f.evidence = d /\ f.input = x /\ f.seen = d
      /\ f.said = q.said /\ f.proof = q.proof
  BY <1>3 DEF RunType
<1>5. f = [pc |-> f.pc, evidence |-> f.evidence, input |-> f.input, said |-> f.said,
           proof |-> f.proof, seen |-> f.seen]
  BY <1>3 DEF RunType
<1>6. f \in RunType
  BY <1>4, <1>5 DEF RunType, Pcs
<1>7. RunOK(q) /\ q.pc = "idle" /\ x \in Checked
  BY <1>1 DEF BuildBody, Inv
<1>8. RunOK(f)
  BY <1>4, <1>6, <1>7 DEF RunOK, HasBody, Success
<1>9. run' = [run EXCEPT ![r] = f]
  BY <1>1, <1>2, <1>3 DEF BuildBody, Inv, ToolTypeOK
<1>10. r \notin posted
  BY <1>1, <1>7 DEF Inv, PostedOK
<1>11. \E g : run' = [run EXCEPT ![r] = g] /\ RunOK(g)
  BY <1>8, <1>9
<1>12. /\ UNCHANGED <<worldVars, pdf, info, posted>>
       /\ receipt' \in Receipts /\ ReceiptIsGenuine'
  BY DEF BuildBody, worldVars, Inv, ToolTypeOK, ReceiptIsGenuine
<1> QED
  BY <1>10, <1>11, <1>12, LocalStep

\* Steps that only move a run along.
LEMMA MovesInv ==
  ASSUME Inv, NEW r \in Runs,
         DryRun(r) \/ Post(r) \/ Stops(r) \/ Ends(r) \/ \E x \in Inputs : Rejects(r, x)
  PROVE  Inv'
<1>1. RunOK(run[r]) /\ (r \in posted => HasBody(run[r]))
  BY DEF Inv, PostedOK
<1>2. \E p \in Pcs \ {"idle"} :
         Goes(r, p) /\ (p # "stopped" => HasBody(run[r])) /\ p # "saving"
  BY <1>1 DEF DryRun, Post, Stops, Ends, Rejects, RunOK, Pcs
<1>3. posted' \subseteq posted \cup {r} /\ (r \in posted' => HasBody(run[r]))
  BY <1>1 DEF DryRun, Post, Stops, Ends, Rejects, RunOK
<1>4. UNCHANGED <<worldVars, pdf, info, receipt>>
  BY DEF DryRun, Post, Stops, Ends, Rejects
<1>5. UNCHANGED sealed /\ receipt' \in Receipts /\ ReceiptIsGenuine'
  BY <1>4 DEF worldVars, Inv, ToolTypeOK, ReceiptIsGenuine
<1>6. \E f : /\ run' = [run EXCEPT ![r] = f] /\ RunOK(f)
             /\ f.pc # "idle" /\ HasBody(f) = HasBody(run[r])
  BY <1>2, GoesOK
<1> QED
  BY <1>3, <1>4, <1>5, <1>6, LocalStep

\* The receipt is truncated, and filled with that of what the run registered.
LEMMA SavesInv ==
  ASSUME Inv, NEW r \in Runs, Saves(r) \/ Saved(r)
  PROVE  Inv'
<1>1. RunOK(run[r]) /\ (r \in posted => HasBody(run[r]))
  BY DEF Inv, PostedOK
<1>2. \E p \in Pcs \ {"idle"} :
         Goes(r, p) /\ (p # "stopped" => HasBody(run[r])) /\ (p = "saving" => run[r].proof)
  BY <1>1 DEF Saves, Saved, RunOK, Pcs
<1>3. \E f : /\ run' = [run EXCEPT ![r] = f] /\ RunOK(f)
             /\ f.pc # "idle" /\ HasBody(f) = HasBody(run[r])
  BY <1>2, GoesOK
<1>4. UNCHANGED <<worldVars, pdf, posted, info>> /\ UNCHANGED sealed
  BY DEF Saves, Saved, worldVars
<1>5. receipt' \in Receipts /\ ReceiptIsGenuine'
  <2>1. CASE Saves(r)
    BY <2>1 DEF Saves, Receipts, ReceiptIsGenuine
  <2>2. CASE Saved(r)
    <3>1. run[r].proof /\ run[r].evidence \in Contents /\ <<Operator, run[r].evidence>> \in sealed
      BY <1>1, <2>2 DEF Saved, RunOK, HasBody
    <3>2. receipt' = [state |-> "whole", of |-> run[r].evidence]
      BY <2>2, <3>1 DEF Saved
    <3> QED
      BY <1>4, <3>1, <3>2 DEF Receipts, ReceiptIsGenuine
  <2> QED
    BY <2>1, <2>2
<1> QED
  BY <1>1, <1>3, <1>4, <1>5, LocalStep
-----------------------------------------------------------------------------
\* What an answer makes of a run, whether or not it still waits for it.
LEMMA TellsOK ==
  ASSUME Inv, NEW r \in Runs, NEW said \in {"registered", "duplicated", "error"},
         NEW proof \in BOOLEAN, Tells(r, said, proof), r \in posted,
         sealed \subseteq sealed', proof => said \in Success,
         said \in Success => <<Operator, run[r].evidence>> \in sealed'
  PROVE  \E f : run' = [run EXCEPT ![r] = f] /\ RunOK(f)'
<1>1. PICK q \in RunType : q = run[r]
  BY DEF Inv, ToolTypeOK
<1>2. RunOK(q) /\ HasBody(q) /\ q.pc # "idle"
  BY <1>1 DEF Inv, PostedOK
<1>3. CASE q.pc # "posted"
  <2>1. run' = [run EXCEPT ![r] = q]
    BY <1>1, <1>3 DEF Tells, Inv, ToolTypeOK
  <2>2. RunOK(q)'
    BY <1>2 DEF RunOK
  <2> QED
    BY <2>1, <2>2
<1>4. CASE q.pc = "posted"
  <2>1. PICK f : f = [q EXCEPT !.pc = "answered", !.said = said, !.proof = proof]
    OBVIOUS
  <2>2. /\ f.pc = "answered" /\ f.evidence = q.evidence /\ f.input = q.input
        /\ f.seen = q.seen /\ f.said = said /\ f.proof = proof
    BY <2>1 DEF RunType
  <2>3. f = [pc |-> f.pc, evidence |-> f.evidence, input |-> f.input, said |-> f.said,
             proof |-> f.proof, seen |-> f.seen]
    BY <2>1 DEF RunType
  <2>4. f \in RunType
    BY <2>2, <2>3 DEF RunType, Pcs
  <2>5. RunOK(f)'
    BY <1>1, <1>2, <2>2, <2>4 DEF RunOK, HasBody
  <2>6. run' = [run EXCEPT ![r] = f]
    BY <1>1, <1>4, <2>1 DEF Tells, Inv, ToolTypeOK
  <2> QED
    BY <2>5, <2>6
<1> QED
  BY <1>3, <1>4

\* The row is the operator's and carries the figures of the run that made it.
LEMMA RegistersInv ==
  ASSUME Inv, NEW r \in Runs, Registers(r)
  PROVE  Inv'
<1>1. PICK d \in Contents : d = run[r].evidence
  BY DEF Registers, Inv, PostedOK, HasBody
<1>2. PICK x \in Checked : x = run[r].input
  BY DEF Registers, Inv, PostedOK, HasBody
<1>3. /\ sealed' = sealed \cup {<<Operator, d>>}
      /\ latest' = [latest EXCEPT ![d] = Operator]
      /\ info' = [info EXCEPT ![d] = x]
      /\ UNCHANGED <<custody, held, anchored, changes, pdf, receipt>>
      /\ posted' = posted \ {r} /\ r \in posted
  BY <1>1, <1>2 DEF Registers
<1>4. x \in Inputs /\ Operator \in Accounts
  BY <1>2, OperatorAssumption DEF Checked
<1>5. ToolTypeOK /\ WorldTypeOK /\ InfoOK /\ ReceiptIsGenuine
  BY DEF Inv, ToolTypeOK
<1>6. WorldTypeOK'
  BY <1>3, <1>4, <1>5 DEF WorldTypeOK
<1>7. pdf' \in Contents \cup {NoDoc} /\ receipt' \in Receipts
      /\ info' \in [Contents -> Inputs \cup {NoInput}]
  BY <1>3, <1>4, <1>5 DEF ToolTypeOK
<1>8. InfoOK' /\ ReceiptIsGenuine'
  BY <1>2, <1>3, <1>5 DEF ToolTypeOK, InfoOK, ReceiptIsGenuine
<1>9. \E f : run' = [run EXCEPT ![r] = f] /\ RunOK(f)'
  <2>1. PICK proof \in BOOLEAN : proof
    OBVIOUS
  <2>2. Tells(r, "registered", proof)
    BY <2>1 DEF Registers
  <2> QED
    BY <1>1, <1>3, <2>2, TellsOK DEF Success
<1> QED
  BY <1>3, <1>6, <1>7, <1>8, <1>9, RunStep

\* An answer that changes nothing, or none.
LEMMA AnswersInv ==
  ASSUME Inv, NEW r \in Runs, Repeats(r) \/ Refuses(r) \/ Loses(r)
  PROVE  Inv'
<1>1. /\ UNCHANGED <<worldVars, pdf, info, receipt>>
      /\ posted' = posted \ {r} /\ r \in posted
  BY DEF Repeats, Refuses, Loses
<1>2. UNCHANGED <<custody, held, sealed, latest, anchored, changes>>
  BY <1>1 DEF worldVars
<1>3. ToolTypeOK /\ WorldTypeOK /\ InfoOK /\ ReceiptIsGenuine
  BY DEF Inv, ToolTypeOK
<1>4. /\ WorldTypeOK' /\ InfoOK' /\ ReceiptIsGenuine'
      /\ pdf' \in Contents \cup {NoDoc} /\ receipt' \in Receipts
      /\ info' \in [Contents -> Inputs \cup {NoInput}]
  BY <1>1, <1>2, <1>3 DEF WorldTypeOK, InfoOK, ReceiptIsGenuine, ToolTypeOK
<1>5. \E f : run' = [run EXCEPT ![r] = f] /\ RunOK(f)'
  <2>1. CASE Repeats(r)
    <3>1. PICK proof \in BOOLEAN : Tells(r, "duplicated", proof)
      BY <2>1 DEF Repeats
    <3>2. <<Operator, run[r].evidence>> \in sealed
      BY <2>1 DEF Repeats
    <3> QED
      BY <1>1, <1>2, <3>1, <3>2, TellsOK DEF Success
  <2>2. CASE Refuses(r)
    <3>1. PICK proof \in BOOLEAN : ~proof
      OBVIOUS
    <3>2. Tells(r, "error", proof)
      BY <2>2, <3>1 DEF Refuses
    <3> QED
      BY <1>1, <1>2, <3>1, <3>2, TellsOK DEF Success
  <2>3. CASE Loses(r)
    <3>1. run' = [run EXCEPT ![r] = run[r]]
      BY <2>3 DEF Loses, Inv, ToolTypeOK
    <3>2. RunOK(run[r])
      BY DEF Inv
    <3>3. PICK f : f = run[r]
      OBVIOUS
    <3>4. RunOK(f)'
      BY <1>2, <3>2, <3>3 DEF RunOK
    <3> QED
      BY <3>1, <3>3, <3>4
  <2> QED
    BY <2>1, <2>2, <2>3
<1> QED
  BY <1>1, <1>2, <1>4, <1>5, RunStep
-----------------------------------------------------------------------------
(***************************************************************************)
(* The world around the tool: files are signed and stored, and accounts    *)
(* other than the operator's seal them.                                    *)
(***************************************************************************)
LEMMA WorldInv ==
  ASSUME Inv, NEW d \in Contents,
         Sign(d) \/ Store(d) \/ \E a \in Accounts : SealElsewhere(a, d)
  PROVE  Inv'
<1>1. UNCHANGED <<run, posted, info, receipt>>
  BY DEF Sign, Store, SealElsewhere, toolVars
<1>2. /\ sealed \subseteq sealed'
      /\ \A c \in Contents : <<Operator, c>> \in sealed' => <<Operator, c>> \in sealed
  BY DEF Sign, Store, SealElsewhere, Deposit, Seal
<1>3. ToolTypeOK /\ WorldTypeOK /\ PostedOK /\ InfoOK /\ ReceiptIsGenuine
  BY DEF Inv, ToolTypeOK
<1>4. WorldTypeOK'
  <2>1. WorldMoves
    BY DEF Sign, Store, SealElsewhere, Deposit, Seal
  <2>2. changes' \in 0..MaxChanges
    BY <1>3, <2>1, MaxChangesAssumption DEF WorldMoves, WorldTypeOK
  <2>3. CASE Sign(d)
    BY <1>3, <2>2, <2>3 DEF Sign, WorldTypeOK
  <2>4. CASE Deposit(Sheet, d)
    BY <1>3, <2>2, <2>4, SheetAssumption DEF Deposit, WorldTypeOK
  <2>5. ASSUME NEW a \in Accounts, Seal(a, d) PROVE WorldTypeOK'
    BY <1>3, <2>2, <2>5 DEF Seal, WorldTypeOK
  <2> QED
    BY <2>3, <2>4, <2>5 DEF Store, SealElsewhere
<1>5. ToolTypeOK'
  <2>1. pdf' \in Contents \cup {NoDoc}
    BY <1>3 DEF Sign, Store, SealElsewhere, toolVars, ToolTypeOK
  <2> QED
    BY <1>1, <1>3, <1>4, <2>1 DEF ToolTypeOK
<1>6. ASSUME NEW r \in Runs
      PROVE  RunOK(run[r])'
  <2>1. RunOK(run[r])
    BY DEF Inv
  <2> QED
    BY <1>1, <1>2, <2>1 DEF RunOK
<1>7. PostedOK' /\ InfoOK' /\ ReceiptIsGenuine'
  BY <1>1, <1>2, <1>3 DEF PostedOK, InfoOK, ReceiptIsGenuine
<1> QED
  BY <1>5, <1>6, <1>7 DEF Inv

LEMMA NextInv == Inv /\ [Next]_vars => Inv'
<1> SUFFICES ASSUME Inv, [Next]_vars PROVE Inv'
  OBVIOUS
<1>1. ASSUME NEW r \in Runs, Step(r) PROVE Inv'
  BY <1>1, BuildBodyInv, MovesInv, SavesInv DEF Step
<1>2. ASSUME NEW r \in Runs, Service(r) PROVE Inv'
  BY <1>2, RegistersInv, AnswersInv DEF Service
<1>3. ASSUME NEW d \in Contents,
             Sign(d) \/ Store(d) \/ \E a \in Accounts : SealElsewhere(a, d)
      PROVE  Inv'
  BY <1>3, WorldInv
<1>4. CASE UNCHANGED vars
  BY <1>4 DEF vars, worldVars, toolVars, Inv, ToolTypeOK, WorldTypeOK, RunOK, PostedOK,
              InfoOK, ReceiptIsGenuine
<1> QED
  BY <1>1, <1>2, <1>3, <1>4 DEF Next

LEMMA Invariance == Spec => []Inv
  BY InitInv, NextInv, PTL DEF Spec

\* Type correctness of the tool, its requests and the receipt on disk.
THEOREM TypeCorrect == Spec => []ToolTypeOK
<1>1. Inv => ToolTypeOK
  BY DEF Inv
<1> QED
  BY <1>1, Invariance, PTL

(***************************************************************************)
(* Whatever runs overlap, fail, are interrupted or answered late: a        *)
(* receipt that can be read is of a file the operator has registered       *)
(* (main of register_record.py writes it only from an answer that has one).*)
(***************************************************************************)
THEOREM ReceiptIsAlwaysGenuine == Spec => []ReceiptIsGenuine
<1>1. Inv => ReceiptIsGenuine
  BY DEF Inv
<1> QED
  BY <1>1, Invariance, PTL

\* The viewer asks with the tool's own token and expects its account, or nobody.
SameEntity == Token = Operator /\ ExpectedIssuer \in {Operator, NoAccount}

\* With those settings the row of a sealed file is found and attests it.
LEMMA SealedIsVerified ==
  ASSUME SameEntity, NEW d \in Contents, <<Operator, d>> \in sealed
  PROVE  /\ VisibleRows(d) # {}
         /\ \A row \in VisibleRows(d) : ToView(d, row).status = "verified"
<1>1. Token # NoAccount
  BY OperatorAssumption, NoAccountAssumption DEF SameEntity
<1>2. sealed \cap {<<Token, d>>} = {<<Operator, d>>}
  BY DEF SameEntity
<1>3. VisibleRows(d) = {Row(p[1], p[2]) : p \in {<<Operator, d>>}}
  BY <1>1, <1>2 DEF VisibleRows
<1>4. VisibleRows(d) = {Row(Operator, d)}
  BY <1>3, Zenon
<1>5. Row(Operator, d).owner = Operator /\ Row(Operator, d).evidence = d
  BY DEF Row
<1>6. Attests(d, Row(Operator, d))
  BY <1>5 DEF Attests, IssuedByTheEntity, SameEntity
<1>7. ToView(d, Row(Operator, d)).status = "verified"
  BY <1>6 DEF ToView, View
<1> QED
  BY <1>4, <1>7

(***************************************************************************)
(* Where the viewer is set up for the entity that runs the tool (the same  *)
(* token, its account or nobody as the expected issuer): once a run has    *)
(* printed that a file is registered, or was already, the viewer finds a   *)
(* row of that file and takes it for the electoral body's, and the figures *)
(* of that row decode and are of the station the page names.               *)
(***************************************************************************)
THEOREM RegisteredIsAlwaysVerified ==
  ASSUME SameEntity
  PROVE  Spec => []RegisteredIsVerified
<1>1. Inv => RegisteredIsVerified
  <2> SUFFICES ASSUME Inv, NEW r \in Runs, run[r].said \in Success
               PROVE  /\ VisibleRows(run[r].seen) # {}
                      /\ \A row \in VisibleRows(run[r].seen) :
                            ToView(run[r].seen, row).status = "verified"
                      /\ LET x == info[run[r].seen]
                         IN  /\ ResultsOK(x.results) /\ DataOK(x.data)
                             /\ x.results.station = x.data.station
    BY DEF RegisteredIsVerified, Success
  <2>1. PICK d \in Contents : d = run[r].seen /\ <<Operator, d>> \in sealed
    BY DEF Inv, RunOK, HasBody, Success
  <2>2. info[d] \in Checked
    BY <2>1 DEF Inv, InfoOK
  <2>3. Accepted(info[d].results, info[d].data)
    BY <2>2 DEF Checked
  <2> QED
    BY <2>1, <2>3, SealedIsVerified DEF Accepted
<1> QED
  BY <1>1, Invariance, PTL
=============================================================================
