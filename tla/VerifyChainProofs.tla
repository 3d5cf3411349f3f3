-------------------------- MODULE VerifyChainProofs --------------------------
(***************************************************************************)
(* Proofs about VerifyChain for every number of chains, every record the   *)
(* service may answer and whatever fails on the way.  MerkleRoot is not    *)
(* opened up: the one theorem that needs to know what a root says assumes  *)
(* RootsIdentifySheets, which AlgorithmProofs proves.                      *)
(***************************************************************************)
EXTENDS VerifyChain, TLAPS

Printed == {"verified", "partial", "failed"}

\* The program went through its loop to the end, or the chains so far.
Done(q)   == q.ending \in Printed
Behind(q) == IF Done(q) THEN Positions ELSE 1..(q.chain - 1)

\* How many checks may have failed by now.
MostFailures(q) ==
    CASE q.at = "record" -> 0
      [] q.at = "block"  -> 2
      [] q.at = "chain" /\ ~Done(q) -> 2 + 2 * q.chain
      [] q.at = "receipt" -> 3 + 2 * q.chain
      [] OTHER -> 4 + 2 * q.chain

Transactions == [state : TxStates, mentions : Mentions \cup {NoCid}]

TypeInv ==
    /\ ledger \in [Positions -> Transactions]
    /\ nodes \subseteq Positions
    /\ record \in RecordType \cup {NoRecord}
    /\ run \in RunType
    /\ moved \in SUBSET Positions /\ silent \in SUBSET Positions /\ faulted \in BOOLEAN
    /\ run.fallos <= MostFailures(run)

\* The transaction on chain n is confirmed and names the block in hand.
Committed(n) == ledger[n].state = "confirmed" /\ MentionsBlock(ledger[n])

(***************************************************************************)
(* Where the program is and what it has in hand.                           *)
(***************************************************************************)
PlaceOK ==
    /\ run.at = "record" => record = NoRecord
    /\ run.at # "record" => record \in RecordType
    /\ run.at \in {"record", "block"} => run.chain = 1 /\ ~Done(run)
    /\ run.at \in {"chain", "receipt", "header"} =>
          record.cid \in Cids /\ block \in Served[record.cid]
    /\ run.at = "block" /\ run.ending = "none" => record.cid \in Cids
    /\ run.at \in {"receipt", "header"} => run.chain \in record.named \cap nodes
    /\ run.ending = "unpublished" => record.cid = NoCid
    /\ Done(run) => run.ending = Verdict(run.fallos, run.unchecked)
    /\ run.ending = "unknown" => run.at = "record"

(***************************************************************************)
(* While no check has failed, everything that was checked is true, and     *)
(* stays true: a confirmed transaction is confirmed for good.              *)
(***************************************************************************)
ChecksOK ==
    run.fallos = 0 =>
        /\ run.at # "record" => /\ record.evidence = File
                                /\ WithIssuer => record.expected
        /\ run.at \in {"chain", "receipt", "header"} => File \in Range(block.leaves)
        /\ run.at \in {"receipt", "header"} => MentionsBlock(ledger[run.chain])
        /\ run.at = "header" => ledger[run.chain].state = "confirmed"
        /\ run.at # "record" =>
              \A n \in (Behind(run) \cap record.named) \ run.unchecked : Committed(n)

\* The chains nobody looked at are those without a node that answered.
UncheckedOK ==
    /\ run.at = "record" => run.unchecked = {} /\ silent = {}
    /\ run.at # "record" =>
          /\ silent \subseteq Behind(run)
          /\ run.unchecked = Behind(run) \cap (record.named \ (nodes \ silent))

Inv == TypeInv /\ PlaceOK /\ ChecksOK /\ UncheckedOK

\* The program has the block it asked for, if it has one.
HasItsBlock == run.at \in {"chain", "receipt", "header"} => block = Published[record.cid]

\* No call failed but those to silent nodes, no chain of the record moved, and
\* the sheet in hand is all it should be.
SoundSheet ==
    ~faulted /\ record # NoRecord /\ Sound /\ record.named \cap moved = {} /\ HasItsBlock

\* A sound sheet fails no check, and nothing ends the program before its time.
SoundRun(q) ==
    /\ q.fallos = 0
    /\ q.at \in {"receipt", "header"} => q.datos = "confirmed"
    /\ q.ending \in Printed \cup {"none"}

SoundSoFar == SoundSheet => SoundRun(run)
-----------------------------------------------------------------------------
LEMMA LengthFact == Len(Chains) \in Nat /\ Len(Chains) >= 1 /\ 1 \in Positions
  BY ChainsAssumption DEF Positions

LEMMA PositionFact ==
  ASSUME NEW n \in Positions
  PROVE  n \in Nat /\ n >= 1 /\ n <= Len(Chains)
  BY LengthFact DEF Positions

LEMMA CountFact == \A x : Count(x) \in {0, 1} /\ (Count(x) = 0 => ~x) /\ (~x => Count(x) = 0)
  BY DEF Count

\* The parts of the program, with their types.
LEMMA RunFact ==
  ASSUME NEW q \in RunType
  PROVE  /\ q.at \in {"record", "block", "chain", "receipt", "header"}
         /\ q.chain \in Positions /\ q.chain \in Nat /\ q.datos \in TxStates
         /\ q.fallos \in Nat /\ q.fallos <= 4 + 2 * Len(Chains)
         /\ q.unchecked \in SUBSET Positions /\ q.ending \in Endings \cup {"none"}
  BY LengthFact, PositionFact DEF RunType

LEMMA BehindFact ==
  ASSUME NEW q \in RunType
  PROVE  Behind(q) \subseteq Positions /\ (~Done(q) => q.chain \notin Behind(q))
<1>1. /\ q.chain \in Nat /\ q.chain >= 1 /\ q.chain <= Len(Chains)
  BY RunFact, PositionFact
<1> QED
  BY <1>1, LengthFact DEF Behind, Positions

LEMMA InitInv == Init => Inv /\ SoundSoFar
<1> SUFFICES ASSUME Init PROVE Inv /\ SoundSoFar
  OBVIOUS
<1>1. run \in RunType /\ run.fallos <= MostFailures(run)
  BY LengthFact DEF Init, RunType, TxStates, MostFailures
<1>2. TypeInv
  <2>1. \A n \in Positions : ledger[n] \in Transactions
    BY DEF Init, Transactions, TxStates
  <2>2. ledger \in [Positions -> Transactions]
    BY <2>1 DEF Init
  <2> QED
    BY <1>1, <2>2 DEF Init, TypeInv
<1>3. PlaceOK /\ ChecksOK /\ UncheckedOK /\ SoundSoFar
  BY DEF Init, PlaceOK, ChecksOK, UncheckedOK, SoundSoFar, SoundSheet, Done, Printed
<1> QED
  BY <1>2, <1>3 DEF Inv

(***************************************************************************)
(* The loop leaves a chain behind it.                                      *)
(***************************************************************************)
LEMMA NextChainRun ==
  ASSUME run \in RunType, run.ending = "none", run.at \in {"chain", "header"},
         NEW failed \in Nat, failed <= 4 + 2 * run.chain,
         NEW unchecked \in SUBSET Positions, NextChain(failed, unchecked)
  PROVE  /\ run' \in RunType /\ run'.fallos = failed /\ run'.unchecked = unchecked
         /\ Behind(run') = Behind(run) \cup {run.chain}
         /\ run'.at \in {"chain", "header"} /\ (~Done(run') => run'.at = "chain")
         /\ failed <= MostFailures(run')
         /\ run'.ending \in Printed \cup {"none"}
         /\ Done(run') => run'.ending = Verdict(failed, unchecked)
<1>1. PICK q \in RunType : q = run
  OBVIOUS
<1>2. PICK L \in Nat : L = Len(Chains) /\ L >= 1
  BY LengthFact
<1>3. q.chain \in Nat /\ q.chain >= 1 /\ q.chain <= L
  BY <1>2, RunFact, PositionFact
<1>4. q.at \in {"chain", "header"} /\ q.ending = "none" /\ failed <= 4 + 2 * q.chain
  BY <1>1
<1>5. CASE q.chain < L
  <2>1. PICK f : f = [q EXCEPT !.at = "chain", !.chain = q.chain + 1, !.datos = "absent",
                               !.fallos = failed, !.unchecked = unchecked]
    OBVIOUS
  <2>2. /\ f.at = "chain" /\ f.chain = q.chain + 1 /\ f.datos = "absent"
        /\ f.fallos = failed /\ f.unchecked = unchecked /\ f.ending = "none"
    BY <1>4, <2>1 DEF RunType
  <2>3. f = [at |-> f.at, chain |-> f.chain, datos |-> f.datos, fallos |-> f.fallos,
             unchecked |-> f.unchecked, ending |-> f.ending]
    BY <2>1 DEF RunType
  <2>4. f.chain \in Positions /\ f.fallos \in 0..(4 + 2 * Len(Chains))
    BY <1>2, <1>3, <1>4, <1>5, <2>2 DEF Positions
  <2>5. f \in RunType
    BY <2>2, <2>3, <2>4 DEF RunType, TxStates
  <2>6. ~Done(f) /\ ~Done(q)
    BY <1>4, <2>2 DEF Done, Printed
  <2>7. Behind(f) = Behind(q) \cup {q.chain}
    BY <1>3, <2>2, <2>6 DEF Behind
  <2>8. failed <= MostFailures(f)
    BY <1>3, <1>4, <2>2, <2>6 DEF MostFailures
  <2>9. run' = f
    BY <1>1, <1>2, <1>5, <2>1 DEF NextChain
  <2> QED
    BY <1>1, <2>2, <2>5, <2>6, <2>7, <2>8, <2>9
<1>6. CASE ~(q.chain < L)
  <2>1. PICK verdict : verdict = Verdict(failed, unchecked)
    OBVIOUS
  <2>2. verdict \in Printed
    BY <2>1 DEF Verdict, Printed
  <2>3. PICK f : f = [q EXCEPT !.fallos = failed, !.unchecked = unchecked, !.ending = verdict]
    OBVIOUS
  <2>4. /\ f.at = q.at /\ f.chain = q.chain /\ f.datos = q.datos
        /\ f.fallos = failed /\ f.unchecked = unchecked /\ f.ending = verdict
    BY <2>3 DEF RunType
  <2>5. f = [at |-> f.at, chain |-> f.chain, datos |-> f.datos, fallos |-> f.fallos,
             unchecked |-> f.unchecked, ending |-> f.ending]
    BY <2>3 DEF RunType
  <2>6. f.fallos \in 0..(4 + 2 * Len(Chains)) /\ q.chain = L
    BY <1>2, <1>3, <1>4, <1>6, <2>4
  <2>7. f \in RunType
    BY <2>2, <2>4, <2>5, <2>6 DEF RunType, Endings, Printed
  <2>8. Done(f) /\ ~Done(q)
    BY <1>4, <2>2, <2>4 DEF Done, Printed
  <2>9. Behind(f) = Behind(q) \cup {q.chain}
    BY <1>2, <1>3, <2>4, <2>6, <2>8 DEF Behind, Positions
  <2>10. failed <= MostFailures(f)
    BY <1>3, <1>4, <2>4, <2>8 DEF MostFailures
  <2>11. run' = f
    BY <1>1, <1>2, <1>6, <2>1, <2>3 DEF NextChain
  <2> QED
    BY <1>1, <1>4, <2>1, <2>2, <2>4, <2>7, <2>8, <2>9, <2>10, <2>11
<1> QED
  BY <1>5, <1>6

LEMMA NextChainInv ==
  ASSUME Inv, run.ending = "none", run.at \in {"chain", "header"},
         NEW failed \in Nat, failed <= 4 + 2 * run.chain,
         NEW unchecked \in SUBSET Positions, run.unchecked \subseteq unchecked,
         NextChain(failed, unchecked), faulted' \in BOOLEAN,
         silent \subseteq silent', silent' \subseteq silent \cup {run.chain},
         failed = 0 => /\ run.fallos = 0
                       /\ run.chain \in record.named \ unchecked => Committed(run.chain),
         unchecked = run.unchecked \cup ({run.chain} \cap (record.named \ (nodes \ silent')))
  PROVE  Inv'
<1>1. /\ run \in RunType /\ record \in RecordType
      /\ record.cid \in Cids \/ run.at = "header"
  BY DEF Inv, TypeInv, PlaceOK
<1>2. UNCHANGED <<ledger, moved, nodes, record, block>>
  BY DEF NextChain, world
<1>3. /\ run' \in RunType /\ run'.fallos = failed /\ run'.unchecked = unchecked
      /\ Behind(run') = Behind(run) \cup {run.chain}
      /\ run'.at \in {"chain", "header"} /\ (~Done(run') => run'.at = "chain")
      /\ failed <= MostFailures(run')
      /\ run'.ending \in Printed \cup {"none"}
      /\ Done(run') => run'.ending = Verdict(failed, unchecked)
  BY <1>1, NextChainRun
<1>4. TypeInv'
  BY <1>1, <1>2, <1>3, RunFact DEF Inv, TypeInv
<1>5. run'.at = "header" => run.at = "header" /\ run'.chain = run.chain
  BY <1>1, <1>3 DEF NextChain, RunType
<1>6. PlaceOK'
  BY <1>1, <1>2, <1>3, <1>5 DEF Inv, PlaceOK, Printed
<1>7. ChecksOK'
  <2> SUFFICES ASSUME failed = 0
               PROVE  /\ record.evidence = File
                      /\ WithIssuer => record.expected
                      /\ File \in Range(block.leaves)
                      /\ run'.at = "header" => /\ MentionsBlock(ledger[run'.chain])
                                               /\ ledger[run'.chain].state = "confirmed"
                      /\ \A n \in (Behind(run') \cap record.named) \ unchecked : Committed(n)
    BY <1>2, <1>3 DEF ChecksOK, Committed, MentionsBlock
  <2> QED
    BY <1>3, <1>5 DEF Inv, ChecksOK
<1>8. UncheckedOK'
  <2>1. run.chain \notin Behind(run)
    BY <1>1, BehindFact DEF Done, Printed
  <2>2. /\ silent \subseteq Behind(run)
        /\ run.unchecked = Behind(run) \cap (record.named \ (nodes \ silent))
    BY DEF Inv, UncheckedOK
  <2>3. unchecked = (Behind(run) \cup {run.chain}) \cap (record.named \ (nodes \ silent'))
    BY <2>1, <2>2
  <2>4. silent' \subseteq Behind(run) \cup {run.chain}
    BY <2>2
  <2> QED
    BY <1>2, <1>3, <2>3, <2>4 DEF UncheckedOK
<1> QED
  BY <1>4, <1>6, <1>7, <1>8 DEF Inv
-----------------------------------------------------------------------------
\* The steps from one place to another in front of the same chain.
MoveTo(q, at, failed)          == [q EXCEPT !.at = at, !.fallos = failed]
EndAt(q, at, failed, ending)   == [q EXCEPT !.at = at, !.fallos = failed, !.ending = ending]
FetchTo(q, at, datos, failed)  == [q EXCEPT !.at = at, !.datos = datos, !.fallos = failed]

LEMMA MoveToFact ==
  ASSUME NEW q \in RunType, NEW at \in {"record", "block", "chain", "receipt", "header"},
         NEW failed \in 0..(4 + 2 * Len(Chains))
  PROVE  \E f \in RunType :
            /\ f = MoveTo(q, at, failed)
            /\ f.at = at /\ f.chain = q.chain /\ f.datos = q.datos /\ f.fallos = failed
            /\ f.unchecked = q.unchecked /\ f.ending = q.ending
<1>1. PICK f : f = MoveTo(q, at, failed)
  OBVIOUS
<1>2. /\ f.at = at /\ f.chain = q.chain /\ f.datos = q.datos /\ f.fallos = failed
      /\ f.unchecked = q.unchecked /\ f.ending = q.ending
  BY <1>1 DEF MoveTo, RunType
<1>3. f = [at |-> f.at, chain |-> f.chain, datos |-> f.datos, fallos |-> f.fallos,
           unchecked |-> f.unchecked, ending |-> f.ending]
  BY <1>1 DEF MoveTo, RunType
<1>4. f \in RunType
  BY <1>2, <1>3 DEF RunType
<1> QED
  BY <1>1, <1>2, <1>4

LEMMA EndAtFact ==
  ASSUME NEW q \in RunType, NEW at \in {"record", "block", "chain", "receipt", "header"},
         NEW failed \in 0..(4 + 2 * Len(Chains)),
         NEW ending \in Endings \cup {"none"}
  PROVE  \E f \in RunType :
            /\ f = EndAt(q, at, failed, ending)
            /\ f.at = at /\ f.chain = q.chain /\ f.datos = q.datos /\ f.fallos = failed
            /\ f.unchecked = q.unchecked /\ f.ending = ending
<1>1. PICK f : f = EndAt(q, at, failed, ending)
  OBVIOUS
<1>2. /\ f.at = at /\ f.chain = q.chain /\ f.datos = q.datos /\ f.fallos = failed
      /\ f.unchecked = q.unchecked /\ f.ending = ending
  BY <1>1 DEF EndAt, RunType
<1>3. f = [at |-> f.at, chain |-> f.chain, datos |-> f.datos, fallos |-> f.fallos,
           unchecked |-> f.unchecked, ending |-> f.ending]
  BY <1>1 DEF EndAt, RunType
<1>4. f \in RunType
  BY <1>2, <1>3 DEF RunType
<1> QED
  BY <1>1, <1>2, <1>4

LEMMA FetchToFact ==
  ASSUME NEW q \in RunType, NEW at \in {"record", "block", "chain", "receipt", "header"},
         NEW failed \in 0..(4 + 2 * Len(Chains)),
         NEW datos \in TxStates
  PROVE  \E f \in RunType :
            /\ f = FetchTo(q, at, datos, failed)
            /\ f.at = at /\ f.chain = q.chain /\ f.datos = datos /\ f.fallos = failed
            /\ f.unchecked = q.unchecked /\ f.ending = q.ending
<1>1. PICK f : f = FetchTo(q, at, datos, failed)
  OBVIOUS
<1>2. /\ f.at = at /\ f.chain = q.chain /\ f.datos = datos /\ f.fallos = failed
      /\ f.unchecked = q.unchecked /\ f.ending = q.ending
  BY <1>1 DEF FetchTo, RunType
<1>3. f = [at |-> f.at, chain |-> f.chain, datos |-> f.datos, fallos |-> f.fallos,
           unchecked |-> f.unchecked, ending |-> f.ending]
  BY <1>1 DEF FetchTo, RunType
<1>4. f \in RunType
  BY <1>2, <1>3 DEF RunType
<1> QED
  BY <1>1, <1>2, <1>4

\* The program ends without a verdict.
LEMMA EndInv ==
  ASSUME Inv, run.ending = "none", NEW ending \in {"traceback", "unknown"},
         ending = "unknown" => run.at = "record",
         run' = [run EXCEPT !.ending = ending],
         UNCHANGED <<world, record, block, silent>>, faulted' \in {faulted, TRUE}
  PROVE  Inv'
<1>1. PICK q \in RunType : q = run
  BY DEF Inv, TypeInv
<1>2. PICK f : f = [q EXCEPT !.ending = ending]
  OBVIOUS
<1>3. /\ f.at = q.at /\ f.chain = q.chain /\ f.datos = q.datos /\ f.fallos = q.fallos
      /\ f.unchecked = q.unchecked /\ f.ending = ending
  BY <1>2 DEF RunType
<1>4. f = [at |-> f.at, chain |-> f.chain, datos |-> f.datos, fallos |-> f.fallos,
           unchecked |-> f.unchecked, ending |-> f.ending]
  BY <1>2 DEF RunType
<1>5. f \in RunType
  BY <1>3, <1>4 DEF RunType, Endings
<1>6. run' = f /\ q.ending = "none"
  BY <1>1, <1>2
<1>7. ~Done(q) /\ ~Done(f) /\ Behind(f) = Behind(q) /\ MostFailures(f) = MostFailures(q)
  BY <1>3, <1>6 DEF Done, Printed, Behind, MostFailures
<1>8. UNCHANGED <<ledger, moved, nodes, record, block, silent>>
  BY DEF world
<1>9. TypeInv' /\ PlaceOK'
  BY <1>1, <1>3, <1>5, <1>6, <1>7, <1>8 DEF Inv, TypeInv, PlaceOK
<1>10. ChecksOK'
  BY <1>1, <1>3, <1>6, <1>7, <1>8 DEF Inv, ChecksOK, Committed, MentionsBlock
<1>11. UncheckedOK'
  BY <1>1, <1>3, <1>6, <1>7, <1>8 DEF Inv, TypeInv, UncheckedOK
<1> QED
  BY <1>9, <1>10, <1>11 DEF Inv

\* Steps 1 and 1b.
LEMMA RecordFoundInv ==
  ASSUME Inv, NEW r \in RecordType, RecordFound(r)
  PROVE  Inv'
<1>1. PICK q \in RunType : q = run
  BY DEF Inv, TypeInv
<1>2. q.at = "record" /\ q.ending = "none" /\ q.chain = 1
  BY <1>1 DEF RecordFound, At, Inv, PlaceOK
<1>3. PICK w : w = WrongInRecord(r)
  OBVIOUS
<1>4. w \in 0..2 /\ (w = 0 => r.evidence = File /\ (WithIssuer => r.expected))
  <2>1. PICK c : c = Count(r.evidence # File)
    OBVIOUS
  <2>2. c \in {0, 1} /\ (c = 0 => r.evidence = File)
    BY <2>1 DEF Count
  <2>3. PICK d : d = Count(WithIssuer /\ ~r.expected)
    OBVIOUS
  <2>4. d \in {0, 1} /\ (d = 0 => (WithIssuer => r.expected))
    BY <2>3 DEF Count
  <2>5. w = c + d
    BY <1>3, <2>1, <2>3 DEF WrongInRecord
  <2>6. w \in 0..2 /\ (w = 0 => c = 0 /\ d = 0)
    BY <2>2, <2>4, <2>5
  <2> QED
    BY <2>2, <2>4, <2>6
<1>5. PICK ending : ending = IF r.cid = NoCid THEN "unpublished" ELSE "none"
  OBVIOUS
<1>6. w \in 0..(4 + 2 * Len(Chains)) /\ ending \in Endings \cup {"none"}
  BY <1>4, <1>5, LengthFact DEF Endings
<1>7. PICK f \in RunType :
         /\ f = EndAt(q, "block", w, ending)
         /\ f.at = "block" /\ f.chain = q.chain /\ f.fallos = w
         /\ f.unchecked = q.unchecked /\ f.ending = ending
  BY <1>6, EndAtFact
<1>8. run' = f
  BY <1>1, <1>3, <1>5, <1>7 DEF RecordFound, EndAt
<1>9. record' = r /\ UNCHANGED <<ledger, moved, nodes, block, silent, faulted>>
  BY DEF RecordFound, world, faults
<1>10. ~Done(f) /\ Behind(f) = {} /\ MostFailures(f) = 2
  BY <1>2, <1>5, <1>7 DEF Done, Printed, Behind, MostFailures
<1>11. TypeInv'
  BY <1>4, <1>7, <1>8, <1>9, <1>10 DEF Inv, TypeInv
<1>12. PlaceOK'
  BY <1>2, <1>5, <1>7, <1>8, <1>9, <1>10 DEF PlaceOK, RecordType
<1>13. ChecksOK' /\ UncheckedOK'
  BY <1>1, <1>2, <1>4, <1>7, <1>8, <1>9, <1>10 DEF Inv, ChecksOK, UncheckedOK
<1> QED
  BY <1>11, <1>12, <1>13 DEF Inv

\* Steps 2 and 3.
LEMMA BlockFoundInv ==
  ASSUME Inv, NEW b, BlockFound(b)
  PROVE  Inv'
<1>1. PICK q \in RunType : q = run
  BY DEF Inv, TypeInv
<1>2. /\ q.at = "block" /\ q.ending = "none" /\ q.chain = 1 /\ q.fallos \in 0..2
      /\ record.cid \in Cids /\ record \in RecordType
  <2>1. /\ q.at = "block" /\ q.ending = "none" /\ q.chain = 1
        /\ record.cid \in Cids /\ record \in RecordType
    BY <1>1 DEF BlockFound, At, Inv, PlaceOK
  <2>2. q.fallos <= 2
    BY <1>1, <2>1 DEF Inv, TypeInv, MostFailures
  <2> QED
    BY <2>1, <2>2, RunFact
<1>3. PICK w : w = WrongInBlock(b)
  OBVIOUS
<1>4. w \in 0..2 /\ (w = 0 => File \in Range(b.leaves))
  <2>1. PICK c : c = Count(File \notin Range(b.leaves))
    OBVIOUS
  <2>2. c \in {0, 1} /\ (c = 0 => File \in Range(b.leaves))
    BY <2>1 DEF Count
  <2>3. PICK d : d = Count(b.hashblock # MerkleRoot(b.leaves))
    OBVIOUS
  <2>4. d \in {0, 1}
    BY <2>3 DEF Count
  <2>5. w = c + d
    BY <1>3, <2>1, <2>3 DEF WrongInBlock
  <2>6. w \in 0..2 /\ (w = 0 => c = 0)
    BY <2>2, <2>4, <2>5
  <2> QED
    BY <2>2, <2>6
<1>5. PICK failed \in 0..(4 + 2 * Len(Chains)) : failed = q.fallos + w
  BY <1>2, <1>4, LengthFact
<1>6. failed \in Nat /\ failed <= 4 /\ (failed = 0 => q.fallos = 0 /\ w = 0)
  BY <1>2, <1>4, <1>5, LengthFact
<1>7. PICK f \in RunType :
         /\ f = MoveTo(q, "chain", failed)
         /\ f.at = "chain" /\ f.chain = q.chain /\ f.datos = q.datos /\ f.fallos = failed
         /\ f.unchecked = q.unchecked /\ f.ending = q.ending
  BY MoveToFact
<1>8. run' = f
  BY <1>1, <1>3, <1>5, <1>7 DEF BlockFound, MoveTo
<1>9. block' = b /\ UNCHANGED <<ledger, moved, nodes, record, silent, faulted>>
      /\ b \in Served[record.cid]
  BY DEF BlockFound, world, faults
<1>10. ~Done(f) /\ ~Done(q) /\ Behind(f) = {} /\ Behind(q) = {} /\ MostFailures(f) = 4
  BY <1>2, <1>7 DEF Done, Printed, Behind, MostFailures
<1>11. TypeInv'
  BY <1>6, <1>7, <1>8, <1>9, <1>10 DEF Inv, TypeInv
<1>12. PlaceOK'
  BY <1>2, <1>7, <1>8, <1>9, <1>10 DEF PlaceOK
<1>13. ChecksOK'
  BY <1>1, <1>2, <1>4, <1>6, <1>7, <1>8, <1>9, <1>10 DEF Inv, ChecksOK
<1>14. UncheckedOK'
  BY <1>1, <1>2, <1>7, <1>8, <1>9, <1>10 DEF Inv, UncheckedOK
<1> QED
  BY <1>11, <1>12, <1>13, <1>14 DEF Inv

\* The input names the block in hand, or a check has failed.
LEMMA TxFoundInv ==
  ASSUME Inv, TxFound
  PROVE  Inv'
<1>1. PICK q \in RunType : q = run
  BY DEF Inv, TypeInv
<1>2. PICK tx \in Transactions : tx = ledger[q.chain]
  BY <1>1, RunFact DEF Inv, TypeInv
<1>3. PICK c \in {0, 1} : c = Count(~MentionsBlock(tx))
  BY DEF Count
<1>4. c = 0 => MentionsBlock(tx)
  BY <1>3 DEF Count
<1>5. /\ q.at = "chain" /\ q.ending = "none" /\ q.chain \in record.named \cap nodes
      /\ record.cid \in Cids /\ record \in RecordType /\ block \in Served[record.cid]
  BY <1>1 DEF TxFound, AtNode, At, Inv, PlaceOK
<1>6. /\ q.chain \in Nat /\ q.chain >= 1 /\ q.chain <= Len(Chains)
      /\ q.fallos \in Nat /\ q.fallos <= 2 + 2 * q.chain
  <2>1. q.fallos <= MostFailures(q) /\ ~Done(q)
    BY <1>1, <1>5 DEF Inv, TypeInv, Done, Printed
  <2>2. MostFailures(q) = 2 + 2 * q.chain
    BY <1>5, <2>1 DEF MostFailures
  <2> QED
    BY <2>1, <2>2, RunFact, PositionFact
<1>7. PICK failed \in 0..(4 + 2 * Len(Chains)) : failed = q.fallos + c
  BY <1>6, LengthFact
<1>8. failed \in Nat /\ failed <= 3 + 2 * q.chain /\ (failed = 0 => q.fallos = 0 /\ c = 0)
  BY <1>6, <1>7, LengthFact
<1>9. PICK datos \in TxStates : datos = tx.state
  BY DEF Transactions
<1>10. PICK f \in RunType :
         /\ f = FetchTo(q, "receipt", datos, failed)
         /\ f.at = "receipt" /\ f.chain = q.chain /\ f.datos = datos /\ f.fallos = failed
         /\ f.unchecked = q.unchecked /\ f.ending = q.ending
  BY FetchToFact
<1>11. run' = f
  BY <1>1, <1>2, <1>3, <1>7, <1>9, <1>10 DEF TxFound, Tx, FetchTo
<1>12. UNCHANGED <<ledger, moved, nodes, record, block, silent, faulted>>
  BY DEF TxFound, world, faults
<1>13. ~Done(f) /\ ~Done(q) /\ Behind(f) = Behind(q) /\ MostFailures(f) = 3 + 2 * q.chain
  BY <1>5, <1>10 DEF Done, Printed, Behind, MostFailures
<1>14. TypeInv'
  BY <1>8, <1>10, <1>11, <1>12, <1>13 DEF Inv, TypeInv
<1>15. PlaceOK'
  BY <1>5, <1>10, <1>11, <1>12, <1>13 DEF PlaceOK
<1>16. ChecksOK'
  BY <1>1, <1>2, <1>4, <1>5, <1>8, <1>10, <1>11, <1>12, <1>13
     DEF Inv, ChecksOK, Committed, MentionsBlock
<1>17. UncheckedOK'
  BY <1>1, <1>5, <1>10, <1>11, <1>12, <1>13 DEF Inv, UncheckedOK
<1> QED
  BY <1>14, <1>15, <1>16, <1>17 DEF Inv

\* The receipt says that the transaction is confirmed, or a check has failed.
LEMMA ReceiptInv ==
  ASSUME Inv, At("receipt"), NEW c \in {0, 1},
         run' = MoveTo(run, "header", run.fallos + c),
         UNCHANGED <<world, record, block, silent>>, faulted' \in {faulted, TRUE},
         c = 0 => ledger[run.chain].state = "confirmed"
  PROVE  Inv'
<1>1. PICK q \in RunType : q = run
  BY DEF Inv, TypeInv
<1>2. /\ q.at = "receipt" /\ q.ending = "none" /\ q.chain \in record.named \cap nodes
      /\ record.cid \in Cids /\ record \in RecordType /\ block \in Served[record.cid]
  BY <1>1 DEF At, Inv, PlaceOK
<1>3. /\ q.chain \in Nat /\ q.chain >= 1 /\ q.chain <= Len(Chains)
      /\ q.fallos \in Nat /\ q.fallos <= 3 + 2 * q.chain
  <2>1. q.fallos <= MostFailures(q)
    BY <1>1 DEF Inv, TypeInv
  <2>2. MostFailures(q) = 3 + 2 * q.chain
    BY <1>2 DEF MostFailures
  <2> QED
    BY <2>1, <2>2, RunFact, PositionFact
<1>4. PICK failed \in 0..(4 + 2 * Len(Chains)) : failed = q.fallos + c
  BY <1>3, LengthFact
<1>5. failed \in Nat /\ failed <= 4 + 2 * q.chain /\ (failed = 0 => q.fallos = 0 /\ c = 0)
  BY <1>3, <1>4, LengthFact, SMTT(30)
<1>6. PICK f \in RunType :
         /\ f = MoveTo(q, "header", failed)
         /\ f.at = "header" /\ f.chain = q.chain /\ f.datos = q.datos /\ f.fallos = failed
         /\ f.unchecked = q.unchecked /\ f.ending = q.ending
  BY MoveToFact
<1>7. run' = f
  BY <1>1, <1>4, <1>6
<1>8. UNCHANGED <<ledger, moved, nodes, record, block, silent>>
  BY DEF world
<1>9. ~Done(f) /\ ~Done(q) /\ Behind(f) = Behind(q) /\ MostFailures(f) = 4 + 2 * q.chain
  BY <1>2, <1>6 DEF Done, Printed, Behind, MostFailures
<1>10. TypeInv'
  BY <1>5, <1>6, <1>7, <1>8, <1>9 DEF Inv, TypeInv
<1>11. PlaceOK'
  BY <1>2, <1>6, <1>7, <1>8, <1>9 DEF PlaceOK
<1>12. ChecksOK'
  BY <1>1, <1>2, <1>5, <1>6, <1>7, <1>8, <1>9 DEF Inv, ChecksOK, Committed, MentionsBlock
<1>13. UncheckedOK'
  BY <1>1, <1>2, <1>6, <1>7, <1>8, <1>9 DEF Inv, TypeInv, UncheckedOK
<1> QED
  BY <1>10, <1>11, <1>12, <1>13 DEF Inv

\* A chain that moves changes what its pending transaction came to, and only that.
LEMMA MineLedger ==
  ASSUME ledger \in [Positions -> Transactions], NEW n \in Positions,
         NEW outcome \in {"confirmed", "reverted"}, Mine(n, outcome)
  PROVE  /\ ledger' \in [Positions -> Transactions]
         /\ \A m \in Positions :
               /\ ledger'[m].mentions = ledger[m].mentions
               /\ ledger[m].state = "confirmed" => ledger'[m].state = "confirmed"
<1>1. PICK old \in Transactions : old = ledger[n]
  OBVIOUS
<1>2. PICK new : new = [old EXCEPT !.state = outcome]
  OBVIOUS
<1>3. /\ new.state = outcome /\ new.mentions = old.mentions
      /\ new = [state |-> new.state, mentions |-> new.mentions]
  BY <1>2 DEF Transactions
<1>4. new \in Transactions
  BY <1>3 DEF Transactions, TxStates
<1>5. ledger' = [ledger EXCEPT ![n] = new] /\ old.state = "pending"
  BY <1>1, <1>2 DEF Mine
<1>6. ledger' \in [Positions -> Transactions]
  BY <1>4, <1>5
<1>7. ASSUME NEW m \in Positions
      PROVE  /\ ledger'[m].mentions = ledger[m].mentions
             /\ ledger[m].state = "confirmed" => ledger'[m].state = "confirmed"
  <2>1. CASE m = n
    BY <1>1, <1>3, <1>5, <2>1
  <2>2. CASE m # n
    BY <1>5, <2>2
  <2> QED
    BY <2>1, <2>2
<1> QED
  BY <1>6, <1>7

LEMMA MineInv ==
  ASSUME Inv, NEW n \in Positions, NEW outcome \in {"confirmed", "reverted"}, Mine(n, outcome)
  PROVE  Inv'
<1>1. /\ ledger \in [Positions -> Transactions] /\ run \in RunType
      /\ record \in RecordType \cup {NoRecord}
  BY DEF Inv, TypeInv
<1>2. /\ ledger' \in [Positions -> Transactions]
      /\ \A m \in Positions :
            /\ ledger'[m].mentions = ledger[m].mentions
            /\ ledger[m].state = "confirmed" => ledger'[m].state = "confirmed"
  BY <1>1, MineLedger
<1>3. UNCHANGED <<nodes, record, block, run, silent, faulted>> /\ moved' = moved \cup {n}
  BY DEF Mine, faults
<1>4. TypeInv' /\ PlaceOK' /\ UncheckedOK'
  BY <1>2, <1>3 DEF Inv, TypeInv, PlaceOK, UncheckedOK
<1>5. ASSUME NEW m \in Positions, Committed(m) PROVE Committed(m)'
  BY <1>2, <1>3, <1>5 DEF Committed, MentionsBlock
<1>6. run.chain \in Positions /\ Behind(run) \subseteq Positions
  BY <1>1, RunFact, BehindFact
<1>7. ASSUME run.fallos = 0, run.at # "record"
      PROVE  \A m \in (Behind(run) \cap record.named) \ run.unchecked : Committed(m)'
  BY <1>5, <1>6, <1>7 DEF Inv, ChecksOK
<1>8. ASSUME run.fallos = 0
      PROVE  /\ run.at \in {"receipt", "header"} => MentionsBlock(ledger[run.chain])'
             /\ run.at = "header" => ledger'[run.chain].state = "confirmed"
  BY <1>2, <1>3, <1>6, <1>8 DEF Inv, ChecksOK, MentionsBlock
<1>9. ChecksOK'
  BY <1>3, <1>7, <1>8 DEF Inv, ChecksOK
<1> QED
  BY <1>4, <1>9 DEF Inv

\* In front of a chain of the record, with the checks failed so far.
LEMMA AtChainFact ==
  ASSUME Inv, At("chain") \/ At("header")
  PROVE  /\ run \in RunType /\ run.chain \in Positions /\ run.unchecked \in SUBSET Positions
         /\ run.fallos \in Nat /\ run.fallos + 1 \in Nat /\ run.fallos <= 4 + 2 * run.chain
         /\ At("chain") => run.fallos + 1 <= 4 + 2 * run.chain
         /\ run.fallos + 1 # 0 /\ run.chain \notin silent
<1>1. PICK q \in RunType : q = run
  BY DEF Inv, TypeInv
<1>2. q.at \in {"chain", "header"} /\ q.ending = "none" /\ ~Done(q)
  BY <1>1 DEF At, Done, Printed
<1>3. q.fallos <= MostFailures(q)
  BY <1>1 DEF Inv, TypeInv
<1>4. MostFailures(q) = IF q.at = "chain" THEN 2 + 2 * q.chain ELSE 4 + 2 * q.chain
  BY <1>2 DEF MostFailures
<1>5. /\ q.chain \in Positions /\ q.chain \in Nat /\ q.unchecked \in SUBSET Positions
      /\ q.fallos \in Nat
  BY RunFact
<1>6. /\ q.fallos <= 4 + 2 * q.chain /\ q.fallos + 1 # 0 /\ q.fallos + 1 \in Nat
      /\ q.at = "chain" => q.fallos + 1 <= 4 + 2 * q.chain
  BY <1>2, <1>3, <1>4, <1>5
<1>7. q.chain \notin silent
  BY <1>1, <1>2, BehindFact DEF Inv, UncheckedOK
<1> QED
  BY <1>1, <1>5, <1>6, <1>7 DEF At

LEMMA NextInv == Inv /\ [Next]_vars => Inv'
<1> SUFFICES ASSUME Inv, [Next]_vars PROVE Inv'
  OBVIOUS
<1>1. faulted \in BOOLEAN
  BY DEF Inv, TypeInv
<1>2. ASSUME NEW call, Crash(call) PROVE Inv'
  <2>1. run.ending = "none" /\ run' = [run EXCEPT !.ending = "traceback"] /\ faulted' = TRUE
    BY <1>2 DEF Crash, At
  <2>2. UNCHANGED <<world, record, block, silent>>
    BY <1>2 DEF Crash
  <2> QED
    BY <2>1, <2>2, EndInv
<1>3. ASSUME RecordMissing PROVE Inv'
  <2>1. /\ run.ending = "none" /\ run.at = "record"
        /\ run' = [run EXCEPT !.ending = "unknown"] /\ faulted' = faulted
    BY <1>3 DEF RecordMissing, At, faults
  <2>2. UNCHANGED <<world, record, block, silent>>
    BY <1>3 DEF RecordMissing, faults
  <2> QED
    BY <2>1, <2>2, EndInv
<1>4. ASSUME HeaderOfPending PROVE Inv'
  <2>1. /\ run.ending = "none"
        /\ run' = [run EXCEPT !.ending = "traceback"] /\ faulted' = faulted
    BY <1>4 DEF HeaderOfPending, At, faults
  <2>2. UNCHANGED <<world, record, block, silent>>
    BY <1>4 DEF HeaderOfPending, faults
  <2> QED
    BY <2>1, <2>2, EndInv
<1>5. ASSUME NotAnchored PROVE Inv'
  <2>1. /\ At("chain") /\ run.chain \notin record.named
        /\ NextChain(run.fallos, run.unchecked) /\ faulted' = faulted /\ silent' = silent
    BY <1>5 DEF NotAnchored, faults
  <2>2. run.unchecked = run.unchecked \cup ({run.chain} \cap (record.named \ (nodes \ silent')))
    BY <2>1
  <2> QED
    BY <1>1, <2>1, <2>2, AtChainFact, NextChainInv DEF At
<1>6. ASSUME NoNode PROVE Inv'
  <2>1. /\ At("chain") /\ run.chain \in record.named \ nodes
        /\ NextChain(run.fallos, run.unchecked \cup {run.chain}) /\ faulted' = faulted
        /\ silent' = silent
    BY <1>6 DEF NoNode, faults
  <2>2. PICK unchecked \in SUBSET Positions : unchecked = run.unchecked \cup {run.chain}
    BY <2>1, AtChainFact
  <2>3. /\ unchecked = run.unchecked \cup ({run.chain} \cap (record.named \ (nodes \ silent')))
        /\ run.unchecked \subseteq unchecked /\ run.chain \in unchecked
        /\ NextChain(run.fallos, unchecked)
    BY <2>1, <2>2
  <2> QED
    BY <1>1, <2>1, <2>3, AtChainFact, NextChainInv DEF At
<1>7. ASSUME NodeSilent PROVE Inv'
  <2>1. /\ At("chain") /\ faulted' = faulted /\ silent' = silent \cup {run.chain}
        /\ NextChain(run.fallos, run.unchecked \cup {run.chain})
        /\ run.chain \in record.named
    BY <1>7 DEF NodeSilent, AtNode
  <2>2. PICK unchecked \in SUBSET Positions : unchecked = run.unchecked \cup {run.chain}
    BY <2>1, AtChainFact
  <2>3. /\ unchecked = run.unchecked \cup ({run.chain} \cap (record.named \ (nodes \ silent')))
        /\ run.unchecked \subseteq unchecked /\ run.chain \in unchecked
        /\ NextChain(run.fallos, unchecked)
    BY <2>1, <2>2
  <2> QED
    BY <1>1, <2>1, <2>3, AtChainFact, NextChainInv DEF At
<1>8. ASSUME TxUnknown \/ NodeErrs PROVE Inv'
  <2>1. /\ At("chain") /\ run.chain \in record.named \cap nodes
        /\ NextChain(run.fallos + 1, run.unchecked) /\ faulted' \in {faulted, TRUE}
        /\ silent' = silent
    BY <1>8 DEF TxUnknown, NodeErrs, AtNode, faults
  <2>2. PICK failed \in Nat : failed = run.fallos + 1
    BY <2>1, AtChainFact
  <2>3. failed <= 4 + 2 * run.chain /\ failed # 0
    BY <2>1, <2>2, AtChainFact
  <2>4. NextChain(failed, run.unchecked)
    BY <2>1, <2>2
  <2>5. /\ run.unchecked = run.unchecked \cup ({run.chain} \cap (record.named \ (nodes \ silent')))
        /\ silent \subseteq silent' /\ silent' \subseteq silent \cup {run.chain}
    BY <2>1, AtChainFact
  <2>6. /\ run.unchecked \in SUBSET Positions /\ run.unchecked \subseteq run.unchecked
        /\ run.ending = "none" /\ run.at \in {"chain", "header"}
    BY <2>1, AtChainFact DEF At
  <2>7. faulted' \in BOOLEAN
    <3>1. CASE faulted' = faulted
      BY <1>1, <3>1
    <3>2. CASE faulted' = TRUE
      BY <3>2
    <3> QED
      BY <2>1, <3>1, <3>2, Zenon
  <2> QED
    <3>1. failed = 0 => /\ run.fallos = 0
                        /\ run.chain \in record.named \ run.unchecked => Committed(run.chain)
      BY <2>3
    <3>2. failed <= 4 + 2 * run.chain
      BY <2>3
    <3> QED
      BY <2>4, <2>5, <2>6, <2>7, <3>1, <3>2, NextChainInv
<1>9. ASSUME HeaderFound PROVE Inv'
  <2>1. /\ At("header") /\ NextChain(run.fallos, run.unchecked) /\ faulted' = faulted
        /\ silent' = silent
    BY <1>9 DEF HeaderFound, faults
  <2>2. run.chain \in record.named \cap nodes
    BY <2>1 DEF At, Inv, PlaceOK
  <2>3. run.unchecked = run.unchecked \cup ({run.chain} \cap (record.named \ (nodes \ silent')))
    BY <2>1, <2>2, AtChainFact
  <2>4. run.fallos = 0 => Committed(run.chain)
    BY <2>1 DEF At, Inv, ChecksOK, Committed
  <2> QED
    BY <1>1, <2>1, <2>3, <2>4, AtChainFact, NextChainInv DEF At
<1>10. ASSUME Receipt PROVE Inv'
  <2>1. PICK c \in {0, 1} : c = Count(Tx.state # "confirmed")
    BY DEF Count
  <2>2. c = 0 => ledger[run.chain].state = "confirmed"
    BY <2>1 DEF Count, Tx
  <2>3. /\ At("receipt") /\ run' = MoveTo(run, "header", run.fallos + c)
        /\ UNCHANGED <<world, record, block, silent>> /\ faulted' = faulted
    BY <1>10, <2>1 DEF Receipt, MoveTo, faults
  <2> QED
    BY <2>2, <2>3, ReceiptInv
<1>11. ASSUME ReceiptErrs PROVE Inv'
  <2>1. /\ At("receipt") /\ run' = MoveTo(run, "header", run.fallos + 1)
        /\ UNCHANGED <<world, record, block, silent>> /\ faulted' = TRUE
    BY <1>11 DEF ReceiptErrs, MoveTo
  <2> QED
    BY <2>1, ReceiptInv
<1>12. ASSUME UNCHANGED vars PROVE Inv'
  <2>1. UNCHANGED <<ledger, moved, nodes, record, block, run, silent, faulted>>
    BY <1>12 DEF vars, world, faults
  <2> QED
    BY <2>1 DEF Inv, TypeInv, PlaceOK, ChecksOK, UncheckedOK, Committed, MentionsBlock
<1> QED
  BY <1>2, <1>3, <1>4, <1>5, <1>6, <1>7, <1>8, <1>9, <1>10, <1>11, <1>12,
     RecordFoundInv, BlockFoundInv, TxFoundInv, MineInv
     DEF Next, Main, RecordFails, BlockFails, ReceiptFails, HeaderFails
-----------------------------------------------------------------------------
\* A chain is left behind without a failed check.
LEMMA NextChainSound ==
  ASSUME Inv, SoundRun(run), run.ending = "none", run.at \in {"chain", "header"},
         NEW unchecked \in SUBSET Positions, NextChain(run.fallos, unchecked)
  PROVE  SoundRun(run')
<1>1. run \in RunType /\ run.fallos = 0
  BY DEF Inv, TypeInv, SoundRun
<1>2. run.fallos \in Nat /\ run.fallos <= 4 + 2 * run.chain
  BY <1>1, RunFact
<1>3. /\ run'.fallos = run.fallos /\ run'.at \in {"chain", "header"}
      /\ (~Done(run') => run'.at = "chain") /\ run'.ending \in Printed \cup {"none"}
  BY <1>1, <1>2, NextChainRun
<1>4. run'.at = "header" => run'.datos = run.datos /\ run.at = "header"
  BY <1>1, <1>3 DEF NextChain, RunType
<1> QED
  BY <1>1, <1>3, <1>4 DEF SoundRun

\* The service answered with the record of a sound sheet.
LEMMA RecordFoundSound ==
  ASSUME Inv, NEW r \in RecordType, RecordFound(r), Sound'
  PROVE  SoundRun(run')
<1>1. PICK q \in RunType : q = run
  BY DEF Inv, TypeInv
<1>2. r.evidence = File /\ r.expected /\ r.cid \in Cids
  BY DEF Sound, RecordFound
<1>3. WrongInRecord(r) = 0
  <2>1. Count(r.evidence # File) = 0 /\ Count(WithIssuer /\ ~r.expected) = 0
    BY <1>2 DEF Count
  <2> QED
    BY <2>1 DEF WrongInRecord
<1>4. run' = EndAt(q, "block", 0, "none")
  BY <1>1, <1>2, <1>3, NoCidAssumption DEF RecordFound, EndAt
<1>5. PICK zero \in 0..(4 + 2 * Len(Chains)) : zero = 0
  BY LengthFact
<1>6. PICK f \in RunType :
         /\ f = EndAt(q, "block", zero, "none")
         /\ f.at = "block" /\ f.fallos = zero /\ f.ending = "none"
  BY EndAtFact
<1> QED
  BY <1>4, <1>5, <1>6 DEF SoundRun

\* The gateway answered with the block it was asked for.
LEMMA BlockFoundSound ==
  ASSUME Inv, SoundRun(run), NEW b, b = Published[record.cid], BlockFound(b), Sound
  PROVE  SoundRun(run')
<1>1. PICK q \in RunType : q = run
  BY DEF Inv, TypeInv
<1>2. record.cid \in Cids /\ b = Published[record.cid]
  BY DEF Sound
<1>3. WrongInBlock(b) = 0
  <2>1. Count(File \notin Range(b.leaves)) = 0 /\ Count(b.hashblock # MerkleRoot(b.leaves)) = 0
    BY <1>2 DEF Count, Sound
  <2> QED
    BY <2>1 DEF WrongInBlock
<1>4. run' = MoveTo(q, "chain", 0) /\ q.ending \in Printed \cup {"none"}
  <2>1. q.fallos = 0 /\ q.ending \in Printed \cup {"none"}
    BY <1>1 DEF SoundRun
  <2>2. q.fallos + WrongInBlock(b) = 0
    BY <1>3, <2>1
  <2>3. run' = MoveTo(q, "chain", q.fallos + WrongInBlock(b))
    BY <1>1 DEF BlockFound, MoveTo
  <2> QED
    BY <2>1, <2>2, <2>3
<1>5. PICK zero \in 0..(4 + 2 * Len(Chains)) : zero = 0
  BY LengthFact
<1>6. PICK f \in RunType :
         /\ f = MoveTo(q, "chain", zero)
         /\ f.at = "chain" /\ f.chain = q.chain /\ f.datos = q.datos /\ f.fallos = zero
         /\ f.unchecked = q.unchecked /\ f.ending = q.ending
  BY MoveToFact
<1> QED
  BY <1>4, <1>5, <1>6 DEF SoundRun

\* The node answered with the transaction of a sound sheet, and its receipt.
LEMMA TxFoundSound ==
  ASSUME Inv, SoundRun(run), block = Published[record.cid], TxFound, Sound
  PROVE  SoundRun(run')
<1>1. PICK q \in RunType : q = run
  BY DEF Inv, TypeInv
<1>2. q.chain \in record.named /\ record.cid \in Cids /\ block = Published[record.cid]
  BY <1>1 DEF TxFound, AtNode, At, Inv, PlaceOK
<1>3. PICK tx : tx = ledger[q.chain]
  OBVIOUS
<1>4. tx.state = "confirmed" /\ MentionsBlock(tx)
  BY <1>2, <1>3 DEF Sound, MentionsBlock
<1>5. Count(~MentionsBlock(tx)) = 0
  BY <1>4 DEF Count
<1>6. q.fallos = 0 /\ q.ending \in Printed \cup {"none"}
  BY <1>1 DEF SoundRun
<1>7. q.fallos + Count(~MentionsBlock(tx)) = 0
  BY <1>5, <1>6
<1>8. run' = FetchTo(q, "receipt", tx.state, q.fallos + Count(~MentionsBlock(tx)))
  BY <1>1, <1>3 DEF TxFound, Tx, FetchTo
<1>9. run' = FetchTo(q, "receipt", "confirmed", 0)
  BY <1>4, <1>7, <1>8
<1>10. PICK zero \in 0..(4 + 2 * Len(Chains)) : zero = 0
  BY LengthFact
<1>11. PICK datos \in TxStates : datos = "confirmed"
  BY DEF TxStates
<1>12. PICK f \in RunType :
         /\ f = FetchTo(q, "receipt", datos, zero)
         /\ f.at = "receipt" /\ f.chain = q.chain /\ f.datos = datos /\ f.fallos = zero
         /\ f.unchecked = q.unchecked /\ f.ending = q.ending
  BY FetchToFact
<1> QED
  BY <1>6, <1>9, <1>10, <1>11, <1>12 DEF SoundRun

LEMMA ReceiptSound ==
  ASSUME Inv, SoundRun(run), Receipt, Sound
  PROVE  SoundRun(run')
<1>1. PICK q \in RunType : q = run
  BY DEF Inv, TypeInv
<1>2. q.at = "receipt" /\ q.chain \in record.named
  BY <1>1 DEF Receipt, At, Inv, PlaceOK
<1>3. Count(Tx.state # "confirmed") = 0
  BY <1>1, <1>2 DEF Sound, Count, Tx
<1>4. q.fallos = 0 /\ q.datos = "confirmed" /\ q.ending \in Printed \cup {"none"}
  BY <1>1, <1>2 DEF SoundRun
<1>5. q.fallos + Count(Tx.state # "confirmed") = 0
  BY <1>3, <1>4
<1>6. run' = MoveTo(q, "header", q.fallos + Count(Tx.state # "confirmed"))
  BY <1>1 DEF Receipt, MoveTo
<1>7. run' = MoveTo(q, "header", 0)
  BY <1>5, <1>6
<1>8. PICK zero \in 0..(4 + 2 * Len(Chains)) : zero = 0
  BY LengthFact
<1>9. PICK f \in RunType :
         /\ f = MoveTo(q, "header", zero)
         /\ f.at = "header" /\ f.chain = q.chain /\ f.datos = q.datos /\ f.fallos = zero
         /\ f.unchecked = q.unchecked /\ f.ending = q.ending
  BY MoveToFact
<1> QED
  BY <1>4, <1>7, <1>8, <1>9 DEF SoundRun

\* The places in front of the chains, where the block is in hand.
InChains(q) == q.at \in {"chain", "receipt", "header"}

LEMMA SoundInv == Inv /\ SoundSoFar /\ [Next]_vars => SoundSoFar'
<1> SUFFICES ASSUME Inv, SoundSoFar, [Next]_vars, SoundSheet' PROVE SoundRun(run')
  BY DEF SoundSoFar
<1>0. run \in RunType
  BY DEF Inv, TypeInv
<1>1. /\ ~faulted' /\ record' # NoRecord /\ Sound' /\ record'.named \cap moved' = {}
      /\ InChains(run') => block' = Published[record'.cid]
  BY DEF SoundSheet, HasItsBlock, InChains
<1>2. ASSUME UNCHANGED <<world, record>>, faulted' = faulted,
             InChains(run) => InChains(run') /\ block' = block
      PROVE  /\ Sound /\ SoundRun(run)
             /\ InChains(run) => block = Published[record.cid]
  <2>1. UNCHANGED <<ledger, moved, record>>
    BY <1>2 DEF world
  <2>2. Sound
    BY <1>1, <2>1 DEF Sound
  <2>3. InChains(run) => block = Published[record.cid]
    BY <1>1, <1>2, <2>1
  <2> QED
    BY <1>1, <1>2, <2>1, <2>2, <2>3 DEF SoundSoFar, SoundSheet, HasItsBlock, InChains
<1>3. ASSUME NEW call, Crash(call) PROVE FALSE
  BY <1>1, <1>3 DEF Crash
<1>4. ASSUME RecordMissing PROVE FALSE
  <2>1. run.at = "record" /\ record' = record
    BY <1>4 DEF RecordMissing, At
  <2> QED
    BY <1>1, <2>1 DEF Inv, PlaceOK
<1>5. ASSUME NEW r \in RecordType, RecordFound(r) PROVE SoundRun(run')
  BY <1>1, <1>5, RecordFoundSound
<1>6. ASSUME NEW b, BlockFound(b) PROVE SoundRun(run')
  <2>1. UNCHANGED <<world, record>> /\ faulted' = faulted /\ ~InChains(run)
    BY <1>6 DEF BlockFound, faults, At, InChains
  <2>2. run'.at = "chain" /\ block' = b
    BY <1>0, <1>6 DEF BlockFound, RunType
  <2>3. b = Published[record.cid]
    BY <1>1, <2>1, <2>2 DEF InChains
  <2> QED
    BY <1>2, <1>6, <2>1, <2>3, BlockFoundSound
<1>7. ASSUME NEW unchecked, NextChain(run.fallos, unchecked), faulted' = faulted,
             At("chain") \/ At("header"), unchecked \in SUBSET Positions
      PROVE  SoundRun(run')
  <2>1. UNCHANGED <<world, record, block>>
    BY <1>7 DEF NextChain
  <2>2. run.ending = "none" /\ run.at \in {"chain", "header"}
    BY <1>7 DEF At
  <2>3. InChains(run')
    BY <1>0, <1>7, <2>2 DEF NextChain, RunType, InChains
  <2>4. SoundRun(run)
    BY <1>2, <1>7, <2>1, <2>3
  <2> QED
    BY <1>7, <2>2, <2>4, NextChainSound
<1>8. ASSUME NotAnchored \/ HeaderFound PROVE SoundRun(run')
  <2>1. /\ NextChain(run.fallos, run.unchecked) /\ faulted' = faulted
        /\ At("chain") \/ At("header")
    BY <1>8 DEF NotAnchored, HeaderFound, faults
  <2> QED
    BY <1>7, <2>1, AtChainFact
<1>9. ASSUME NoNode \/ NodeSilent PROVE SoundRun(run')
  <2>1. /\ NextChain(run.fallos, run.unchecked \cup {run.chain}) /\ faulted' = faulted
        /\ At("chain")
    BY <1>9 DEF NoNode, NodeSilent, AtNode, faults
  <2>2. run.unchecked \cup {run.chain} \in SUBSET Positions
    BY <2>1, AtChainFact
  <2> QED
    BY <1>7, <2>1, <2>2
<1>10. ASSUME NodeErrs \/ ReceiptErrs PROVE FALSE
  BY <1>1, <1>10 DEF NodeErrs, ReceiptErrs
<1>11. ASSUME TxUnknown PROVE FALSE
  <2>1. /\ run.chain \in record.named /\ ledger[run.chain].state = "absent"
        /\ UNCHANGED <<world, record, block>> /\ faulted' = faulted /\ run.at = "chain"
    BY <1>11 DEF TxUnknown, AtNode, At, Tx, NextChain, faults
  <2>2. InChains(run')
    BY <1>0, <1>11, <2>1 DEF TxUnknown, NextChain, RunType, InChains
  <2> QED
    BY <1>2, <2>1, <2>2 DEF Sound
<1>12. ASSUME TxFound PROVE SoundRun(run')
  <2>1. UNCHANGED <<world, record, block>> /\ faulted' = faulted /\ run.at = "chain"
    BY <1>12 DEF TxFound, AtNode, At, faults
  <2>2. InChains(run) /\ InChains(run')
    BY <1>0, <1>12, <2>1 DEF TxFound, RunType, InChains
  <2> QED
    BY <1>2, <1>12, <2>1, <2>2, TxFoundSound
<1>13. ASSUME Receipt PROVE SoundRun(run')
  <2>1. UNCHANGED <<world, record, block>> /\ faulted' = faulted
    BY <1>13 DEF Receipt, faults
  <2>2. InChains(run')
    BY <1>0, <1>13 DEF Receipt, RunType, InChains
  <2> QED
    BY <1>2, <1>13, <2>1, <2>2, ReceiptSound
<1>14. ASSUME HeaderOfPending PROVE FALSE
  <2>1. /\ run.at = "header" /\ run.datos = "pending"
        /\ UNCHANGED <<world, record, block>> /\ faulted' = faulted
    BY <1>14 DEF HeaderOfPending, At, faults
  <2>2. InChains(run')
    BY <1>0, <1>14, <2>1 DEF HeaderOfPending, RunType, InChains
  <2> QED
    BY <1>2, <2>1, <2>2 DEF SoundRun
<1>15. ASSUME NEW n \in Positions, NEW outcome, Mine(n, outcome) PROVE SoundRun(run')
  <2>1. /\ ledger' = [ledger EXCEPT ![n].state = outcome] /\ moved' = moved \cup {n}
        /\ UNCHANGED <<record, block, run, faulted>>
    BY <1>15 DEF Mine, faults
  <2>2. n \notin record.named /\ record.named \cap moved = {}
    BY <1>1, <2>1
  <2>3. record.named \subseteq Positions /\ ledger \in [Positions -> Transactions]
    BY <1>1, <2>1 DEF Inv, TypeInv, RecordType
  <2>4. \A m \in record.named : ledger'[m] = ledger[m]
    BY <2>1, <2>2, <2>3
  <2>5. Sound
    BY <1>1, <2>1, <2>4 DEF Sound
  <2> QED
    BY <1>1, <2>1, <2>2, <2>5 DEF SoundSoFar, SoundSheet, HasItsBlock, InChains
<1>16. ASSUME UNCHANGED vars PROVE SoundRun(run')
  <2>1. UNCHANGED <<world, record, block, run, faulted>>
    BY <1>16 DEF vars, faults
  <2> QED
    BY <1>2, <2>1
<1> QED
  BY <1>3, <1>4, <1>5, <1>6, <1>8, <1>9, <1>10, <1>11, <1>12, <1>13, <1>14, <1>15, <1>16
     DEF Next, Main, RecordFails, BlockFails, ReceiptFails, HeaderFails
-----------------------------------------------------------------------------
LEMMA Invariance == Spec => []Inv
<1>1. Init => Inv
  BY InitInv
<1>2. Inv /\ [Next]_vars => Inv'
  BY NextInv
<1> QED
  BY <1>1, <1>2, PTL DEF Spec

(***************************************************************************)
(* verify_chain.py counts no more checks than it makes and looks at no     *)
(* chain that is not one of nodes(), whatever answers and whatever fails.  *)
(***************************************************************************)
THEOREM TypeCorrect == Spec => []TypeOK
<1>1. Inv => TypeOK
  BY DEF Inv, TypeInv, TypeOK, Transactions
<1> QED
  BY <1>1, Invariance, PTL

(***************************************************************************)
(* A transaction that the attestation service invented is exposed by the   *)
(* node of its chain, if it answers: whatever the calls about the other    *)
(* chains come to, main() prints neither VERIFICADA nor PARCIALMENTE.      *)
(***************************************************************************)
THEOREM InventedIsAlwaysExposed == Spec => []InventedIsExposed
<1>1. Inv => InventedIsExposed
  <2> SUFFICES ASSUME Inv, run.ending \in {"verified", "partial"},
                      NEW n \in (record.named \cap nodes) \ silent
               PROVE  ledger[n].state # "absent"
    BY DEF InventedIsExposed
  <2>1. Done(run) /\ run.fallos = 0
    BY DEF Done, Printed, Inv, PlaceOK, Verdict, TypeInv, RunType
  <2>2. run.at # "record" /\ n \in Behind(run)
    BY <2>1 DEF Inv, PlaceOK, TypeInv, Behind
  <2>3. n \notin run.unchecked
    BY <2>2 DEF Inv, UncheckedOK
  <2>4. Committed(n)
    BY <2>1, <2>2, <2>3 DEF Inv, ChecksOK
  <2> QED
    BY <2>4 DEF Committed
<1> QED
  BY <1>1, Invariance, PTL

\* What a verified run has in hand, and what the chains hold.
LEMMA VerifiedFact ==
  ASSUME Inv, run.ending = "verified"
  PROVE  /\ record \in RecordType /\ record.cid \in Cids /\ block \in Served[record.cid]
         /\ File \in Range(block.leaves) /\ (WithIssuer => record.expected)
         /\ \A n \in record.named : Committed(n)
<1>1. Done(run) /\ run.at # "record" /\ run.at # "block"
  BY DEF Done, Printed, Inv, PlaceOK
<1>2. run.fallos = 0 /\ run.unchecked = {}
  BY <1>1 DEF Inv, PlaceOK, Verdict, TypeInv, RunType
<1>3. /\ record \in RecordType /\ record.cid \in Cids /\ block \in Served[record.cid]
      /\ File \in Range(block.leaves) /\ (WithIssuer => record.expected)
  BY <1>1, <1>2 DEF Inv, PlaceOK, ChecksOK, TypeInv, RunType
<1>4. ASSUME NEW n \in record.named PROVE Committed(n)
  <2>1. n \in Positions
    BY <1>3 DEF RecordType
  <2> QED
    BY <1>1, <1>2, <2>1 DEF Inv, ChecksOK, Behind
<1> QED
  BY <1>3, <1>4

(***************************************************************************)
(* VERIFICADA of a file whose record names a transaction that committed to *)
(* the root of some list of sheets.                                        *)
(***************************************************************************)
RootHoldsTheFile(sealed) ==
    run.ending = "verified" =>
        \A n \in record.named :
            ledger[n].mentions = MerkleRoot(sealed) => File \in Range(sealed)

\* The program checks that the leaves served give the root and that the file is
\* among them; a list with that root that holds one sheet holds those sealed.
LEMMA RootFact ==
  ASSUME Inv, RootsIdentifySheets,
         NEW Hashes, NEW sealed \in Seq(Hashes), sealed # <<>>,
         \A x \in Range(sealed) \cup {File} : IsLeaf(x),
         MerkleRoot(sealed) \notin Cids,
         \A cid \in Cids : \A b \in Served[cid] : b.leaves \in Seq(Hashes)
  PROVE  RootHoldsTheFile(sealed)
<1> SUFFICES ASSUME run.ending = "verified", NEW n \in record.named,
                    ledger[n].mentions = MerkleRoot(sealed)
             PROVE  File \in Range(sealed)
  BY DEF RootHoldsTheFile
<1>1. /\ record.cid \in Cids /\ block \in Served[record.cid]
      /\ File \in Range(block.leaves) /\ MentionsBlock(ledger[n])
  BY VerifiedFact DEF Committed
<1>2. PICK served \in Seq(Hashes) : served = block.leaves
  BY <1>1
<1>3. MerkleRoot(served) = MerkleRoot(sealed)
  BY <1>1, <1>2 DEF MentionsBlock
<1>4. served # <<>> /\ \E x \in Range(served) : IsLeaf(x)
  <2>1. File \in Range(served) /\ IsLeaf(File)
    BY <1>1, <1>2
  <2>2. served # <<>>
    BY <2>1 DEF Range
  <2> QED
    BY <2>1, <2>2
<1>5. Range(served) = Range(sealed)
  BY <1>3, <1>4 DEF RootsIdentifySheets
<1> QED
  BY <1>1, <1>2, <1>5

(***************************************************************************)
(* Where a chain holds a root, the gateway need not be believed: whatever  *)
(* blocks it answers, VERIFICADA means that the file is one of the sheets  *)
(* the root was made of.  The hypotheses: what AlgorithmProofs proves of   *)
(* roots, leaves that are no hashes of nodes, and a root that is not read  *)
(* as an identifier.                                                       *)
(***************************************************************************)
THEOREM RootNeedsNoGateway ==
  ASSUME RootsIdentifySheets,
         NEW Hashes, NEW sealed \in Seq(Hashes), sealed # <<>>,
         \A x \in Range(sealed) \cup {File} : IsLeaf(x),
         MerkleRoot(sealed) \notin Cids,
         \A cid \in Cids : \A b \in Served[cid] : b.leaves \in Seq(Hashes)
  PROVE  Spec => []RootHoldsTheFile(sealed)
<1>1. Inv => RootHoldsTheFile(sealed)
  BY RootFact
<1> QED
  BY <1>1, Invariance, PTL

(***************************************************************************)
(* VERIFICADA is true of the chains the record names, and for good: each   *)
(* holds a confirmed transaction that anchors this very file.  Nothing is  *)
(* asked of what the gateway serves: where a transaction has a root, no    *)
(* published block with that root lacks the file, and where it has a CID   *)
(* the theorem says no more than what an honest gateway would add to it.   *)
(***************************************************************************)
THEOREM VerifiedIsAlwaysAnchored ==
  ASSUME RootsIdentifySheets, IsLeaf(File), NEW Hashes,
         \A cid \in Cids :
            /\ Published[cid].leaves \in Seq(Hashes) /\ Published[cid].leaves # <<>>
            /\ \A x \in Range(Published[cid].leaves) : IsLeaf(x)
            /\ MerkleRoot(Published[cid].leaves) \notin Cids
            /\ \A b \in Served[cid] : b.leaves \in Seq(Hashes)
  PROVE  Spec => []VerifiedIsAnchored
<1>1. Inv => VerifiedIsAnchored
  <2> SUFFICES ASSUME Inv, run.ending = "verified", NEW n \in record.named
               PROVE  ledger[n].state = "confirmed" /\ Anchors(ledger[n])
    BY DEF VerifiedIsAnchored
  <2>1. PICK tx : tx = ledger[n]
    OBVIOUS
  <2>2. /\ tx.state = "confirmed" /\ tx.mentions \in {MerkleRoot(block.leaves), record.cid}
        /\ block \in Served[record.cid] /\ File \in Range(block.leaves)
    BY <2>1, VerifiedFact DEF Committed, MentionsBlock
  <2>3. ASSUME NEW cid \in Cids, tx.mentions = MerkleRoot(Published[cid].leaves)
        PROVE  File \in Range(Published[cid].leaves)
    <3>1. PICK sealed \in Seq(Hashes) : sealed = Published[cid].leaves
      OBVIOUS
    <3>2. RootHoldsTheFile(sealed)
      BY <3>1, RootFact
    <3> QED
      BY <2>1, <2>3, <3>1, <3>2 DEF RootHoldsTheFile
  <2>4. Anchors(tx)
    BY <2>2, <2>3 DEF Anchors
  <2> QED
    BY <2>1, <2>2, <2>4
<1> QED
  BY <1>1, Invariance, PTL

(***************************************************************************)
(* A sound sheet is never slandered and never said to be more than was     *)
(* looked at: if its transactions stay as they are, the gateway served its *)
(* block and only nodes were silent, it is VERIFICADA exactly when a node  *)
(* answered for each chain of its record, and PARCIALMENTE otherwise.      *)
(***************************************************************************)
THEOREM SoundIsAlwaysVerified == Spec => []SoundIsVerified
<1>1. Init => SoundSoFar
  BY InitInv
<1>2. Inv /\ SoundSoFar /\ [Next]_vars => SoundSoFar'
  BY SoundInv
<1>3. Inv /\ SoundSoFar => SoundIsVerified
  <2> SUFFICES ASSUME Inv, SoundSoFar, Ended, ~faulted, record # NoRecord, Sound,
                      record.named \cap moved = {}, block = Published[record.cid]
               PROVE  run.ending = IF record.named \subseteq nodes \ silent
                                   THEN "verified" ELSE "partial"
    BY DEF SoundIsVerified
  <2>1. run.fallos = 0 /\ Done(run)
    BY DEF SoundSoFar, SoundSheet, HasItsBlock, SoundRun, Ended, Done
  <2>2. /\ run.at # "record" /\ record \in RecordType
        /\ run.ending = Verdict(run.fallos, run.unchecked)
    BY <2>1 DEF Inv, PlaceOK
  <2>3. /\ run.unchecked = Positions \cap (record.named \ (nodes \ silent))
        /\ record.named \subseteq Positions
    BY <2>1, <2>2 DEF Inv, UncheckedOK, Behind, RecordType
  <2>4. run.unchecked = {} <=> record.named \subseteq nodes \ silent
    BY <2>3
  <2> QED
    BY <2>1, <2>2, <2>4 DEF Verdict
<1> QED
  BY <1>1, <1>2, <1>3, Invariance, PTL DEF Spec
=============================================================================
