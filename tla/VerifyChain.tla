----------------------------- MODULE VerifyChain -----------------------------
(***************************************************************************)
(* tools/verify_chain.py: the independent verification of one PDF, against *)
(* what the attestation service says of it, the block a gateway serves and *)
(* the transactions the nodes of the chains know.                          *)
(*                                                                         *)
(* The program is sequential, and every step of it is a call to somebody   *)
(* else, who may fail and, between two calls, move on.  What the service   *)
(* says is arbitrary, what the gateway serves is a parameter, and what a   *)
(* node answers is what its chain holds.                                   *)
(* Hashes are identified with what they are hashes of.                     *)
(***************************************************************************)
EXTENDS Naturals, FiniteSets, MerkleTree

CONSTANTS
    File,             \* the PDF in hand
    Evidences,        \* hashes of files, File's among them
    Chains,           \* the networks of nodes(), as a sequence
    Cids,             \* content identifiers of published blocks
    NoCid,            \* the record names no block yet
    Published,        \* Published[cid]: the block with that content
    Served,           \* Served[cid]: the blocks the gateway may answer, of that
                      \* content or not
    Mentions,         \* roots, cids or something else: the input of a tx
    NoRecord,         \* nothing looked up yet
    WithIssuer        \* was --issuer given?

ASSUME FileAssumption    == File \in Evidences
ASSUME ChainsAssumption  == Len(Chains) \in Nat \ {0}
ASSUME IssuerAssumption  == WithIssuer \in BOOLEAN
ASSUME NoCidAssumption   == NoCid \notin Cids
ASSUME ServedAssumption  == DOMAIN Published = Cids /\ DOMAIN Served = Cids

Positions == 1..Len(Chains)

\* block.ipfs is cid; networks.mainnet names a transaction on each of named.
\* The transaction itself, whose hash is in the record, is that of ledger.
RecordType ==
    [evidence : Evidences, expected : BOOLEAN, cid : Cids \cup {NoCid},
     named : SUBSET Positions]

ASSUME NoRecordAssumption == NoRecord \notin RecordType

TxStates == {"absent", "pending", "confirmed", "reverted"}

VARIABLES
    ledger,      \* each chain's transaction: its state and what it mentions
    moved,       \* observation: the chains that moved meanwhile
    nodes,       \* the chains a node is configured for
    record,      \* what the service answered
    block,       \* what the gateway answered
    run,         \* the program
    silent,      \* observation: the chains whose node was asked and did not answer
    faulted      \* observation: did any other call fail?

world == <<ledger, moved, nodes>>
faults == <<silent, faulted>>
vars == <<world, record, block, run, faults>>

\* What the program ends with: one of its three verdicts, a traceback, or one
\* of the two early returns, which print no verdict.
Endings == {"verified", "partial", "failed", "traceback", "unknown", "unpublished"}

(***************************************************************************)
(* The call the program is at, the chain it looks at, the state of its     *)
(* transaction when it was fetched (datos), the checks that failed, the    *)
(* chains nobody looked at (sin_comprobar), and how it ended.              *)
(***************************************************************************)
RunType ==
    [at : {"record", "block", "chain", "receipt", "header"}, chain : Positions,
     datos : TxStates, fallos : 0..(4 + 2 * Len(Chains)),
     unchecked : SUBSET Positions, ending : Endings \cup {"none"}]

Init ==
    /\ ledger \in [Positions -> {[state |-> "absent", mentions |-> NoCid]}
                                 \cup [state : TxStates \ {"absent"}, mentions : Mentions]]
    /\ moved = {}
    /\ nodes \in SUBSET Positions
    /\ record = NoRecord
    /\ block = [leaves |-> <<>>, hashblock |-> NoCid]
    /\ run = [at |-> "record", chain |-> 1, datos |-> "absent", fallos |-> 0,
              unchecked |-> {}, ending |-> "none"]
    /\ silent = {}
    /\ faulted = FALSE

At(call) == run.at = call /\ run.ending = "none"

Ended == run.ending # "none"

Count(condition) == IF condition THEN 1 ELSE 0

\* A call raises, and main() catches nothing: a traceback, exit status 1.
Crash(call) ==
    /\ At(call)
    /\ run' = [run EXCEPT !.ending = "traceback"]
    /\ faulted' = TRUE
    /\ UNCHANGED <<world, record, block, silent>>
-----------------------------------------------------------------------------
RecordFails == Crash("record")

RecordMissing ==
    /\ At("record")
    /\ run' = [run EXCEPT !.ending = "unknown"]
    /\ UNCHANGED <<world, record, block, faults>>

\* Steps 1 and 1b.
WrongInRecord(r) ==
    Count(r.evidence # File) + Count(WithIssuer /\ ~r.expected)

\* A record without a CID ends the program there.
RecordFound(r) ==
    /\ At("record")
    /\ record' = r
    /\ run' = [run EXCEPT !.at = "block", !.fallos = WrongInRecord(r),
                          !.ending = IF r.cid = NoCid THEN "unpublished" ELSE "none"]
    /\ UNCHANGED <<world, block, faults>>

BlockFails == Crash("block")

\* Mutant: nobody looks for the sheet in the block.
SheetNotSought(b) == Count(b.hashblock # MerkleRoot(b.leaves))

\* Steps 2 and 3: the sheet is in the block, and the leaves give its root.
WrongInBlock(b) ==
    Count(File \notin Range(b.leaves)) + Count(b.hashblock # MerkleRoot(b.leaves))

BlockFound(b) ==
    /\ At("block")
    /\ b \in Served[record.cid]
    /\ block' = b
    /\ run' = [run EXCEPT !.at = "chain", !.fallos = @ + WrongInBlock(b)]
    /\ UNCHANGED <<world, record, faults>>
-----------------------------------------------------------------------------
\* Mutant: a chain nobody looked at counts as a failure.
UncheckedFails(failed, unchecked) ==
    IF failed > 0 \/ unchecked # {} THEN "failed" ELSE "verified"

Verdict(failed, unchecked) ==
    IF failed > 0 THEN "failed" ELSE IF unchecked # {} THEN "partial" ELSE "verified"

\* Mutant: one chain too many.
OneChainMore(failed, unchecked) ==
    /\ run' = [run EXCEPT !.at = "chain", !.chain = @ + 1, !.fallos = failed,
                          !.unchecked = unchecked]
    /\ UNCHANGED <<world, record, block>>

\* The loop over the chains goes on, or the verdict is printed.
NextChain(failed, unchecked) ==
    /\ run' = IF run.chain < Len(Chains)
              THEN [run EXCEPT !.at = "chain", !.chain = @ + 1, !.datos = "absent",
                               !.fallos = failed, !.unchecked = unchecked]
              ELSE [run EXCEPT !.fallos = failed, !.unchecked = unchecked,
                               !.ending = Verdict(failed, unchecked)]
    /\ UNCHANGED <<world, record, block>>

Tx == ledger[run.chain]

NotAnchored ==
    /\ At("chain") /\ run.chain \notin record.named
    /\ NextChain(run.fallos, run.unchecked)
    /\ UNCHANGED faults

\* Mutant: the loop does not move on from a chain without a node.
NoNodeStays ==
    /\ At("chain") /\ run.chain \in record.named \ nodes
    /\ run' = [run EXCEPT !.unchecked = @ \cup {run.chain}]
    /\ UNCHANGED <<world, record, block, faults>>

NoNode ==
    /\ At("chain") /\ run.chain \in record.named \ nodes
    /\ NextChain(run.fallos, run.unchecked \cup {run.chain})
    /\ UNCHANGED faults

AtNode == At("chain") /\ run.chain \in record.named \cap nodes

\* The one call whose failure is caught.
NodeSilent ==
    /\ AtNode
    /\ NextChain(run.fallos, run.unchecked \cup {run.chain})
    /\ silent' = silent \cup {run.chain}
    /\ UNCHANGED faulted

\* Mutant: a transaction the node does not know is one nobody looked at.
UnknownIsUnchecked ==
    /\ AtNode /\ Tx.state = "absent"
    /\ NextChain(run.fallos, run.unchecked \cup {run.chain})
    /\ UNCHANGED faults

TxUnknown ==
    /\ AtNode /\ Tx.state = "absent"
    /\ NextChain(run.fallos + 1, run.unchecked)
    /\ UNCHANGED faults

\* A node that answers an error answers no result: it reads as unknown.
NodeErrs ==
    /\ AtNode
    /\ NextChain(run.fallos + 1, run.unchecked)
    /\ faulted' = TRUE
    /\ UNCHANGED silent

\* Either mention is enough.
MentionsBlock(tx) == tx.mentions \in {MerkleRoot(block.leaves), record.cid}

TxFound ==
    /\ AtNode /\ Tx.state # "absent"
    /\ run' = [run EXCEPT !.at = "receipt", !.datos = Tx.state,
                          !.fallos = @ + Count(~MentionsBlock(Tx))]
    /\ UNCHANGED <<world, record, block, faults>>

ReceiptFails == Crash("receipt")

Receipt ==
    /\ At("receipt")
    /\ run' = [run EXCEPT !.at = "header", !.fallos = @ + Count(Tx.state # "confirmed")]
    /\ UNCHANGED <<world, record, block, faults>>

\* No receipt reads as a transaction that was not confirmed.
ReceiptErrs ==
    /\ At("receipt")
    /\ run' = [run EXCEPT !.at = "header", !.fallos = @ + 1]
    /\ faulted' = TRUE
    /\ UNCHANGED <<world, record, block, silent>>

HeaderFails == Crash("header")

\* The block number is the one the transaction had when it was fetched: none
\* if it was pending, even if the receipt has found it mined since.
HeaderOfPending ==
    /\ At("header") /\ run.datos = "pending"
    /\ run' = [run EXCEPT !.ending = "traceback"]
    /\ UNCHANGED <<world, record, block, faults>>

HeaderFound ==
    /\ At("header") /\ run.datos # "pending"
    /\ NextChain(run.fallos, run.unchecked)
    /\ UNCHANGED faults
-----------------------------------------------------------------------------
\* A pending transaction of a chain is mined, with success or without, while
\* the program runs or after.
Mine(n, outcome) ==
    /\ ledger[n].state = "pending"
    /\ ledger' = [ledger EXCEPT ![n].state = outcome]
    /\ moved' = moved \cup {n}
    /\ UNCHANGED <<nodes, record, block, run, faults>>

Main ==
    \/ RecordFails \/ RecordMissing \/ \E r \in RecordType : RecordFound(r)
    \/ BlockFails \/ \E cid \in Cids : \E b \in Served[cid] : BlockFound(b)
    \/ NotAnchored \/ NoNode \/ NodeSilent \/ NodeErrs \/ TxUnknown \/ TxFound
    \/ ReceiptFails \/ ReceiptErrs \/ Receipt
    \/ HeaderFails \/ HeaderOfPending \/ HeaderFound

Next == Main \/ \E n \in Positions, outcome \in {"confirmed", "reverted"} : Mine(n, outcome)

Spec == Init /\ [][Next]_vars

\* Every call has a timeout; the chains owe the program nothing.
FairSpec == Spec /\ WF_vars(Main)
-----------------------------------------------------------------------------
(***************************************************************************)
(* Type invariant.                                                         *)
(***************************************************************************)
TypeOK ==
    /\ DOMAIN ledger = Positions
    /\ \A n \in Positions : ledger[n].state \in TxStates
    /\ nodes \subseteq Positions
    /\ record \in RecordType \cup {NoRecord}
    /\ run \in RunType
    /\ {moved, silent} \subseteq SUBSET Positions /\ faulted \in BOOLEAN

(***************************************************************************)
(* What a transaction that names the block in hand says of the file.  The  *)
(* root of a published block: that the block holds it, whatever block the  *)
(* gateway served.  A CID, which nobody compares with what was served:     *)
(* that the block holds it if the gateway served that block.  Any other    *)
(* root: that it is one over this file.                                    *)
(***************************************************************************)
Anchors(tx) ==
    /\ \A cid \in Cids :
          tx.mentions = MerkleRoot(Published[cid].leaves) => File \in Range(Published[cid].leaves)
    /\ \/ /\ tx.mentions = record.cid
          /\ block = Published[record.cid] => File \in Range(Published[record.cid].leaves)
       \/ \E b \in Served[record.cid] :
             tx.mentions = MerkleRoot(b.leaves) /\ File \in Range(b.leaves)

(***************************************************************************)
(* VERIFICADA is true of the chains and not only of what was answered: on  *)
(* every chain the record names there is a confirmed transaction that      *)
(* anchors this very file, then and for good.  The service is believed     *)
(* about which chains those are, possibly none, and about the account,     *)
(* and the gateway about the content of a CID.                             *)
(***************************************************************************)
VerifiedIsAnchored ==
    run.ending = "verified" =>
        \A n \in record.named : ledger[n].state = "confirmed" /\ Anchors(ledger[n])

(***************************************************************************)
(* A transaction the service invented is exposed as soon as a node of its  *)
(* chain is asked and answers, whatever the other calls come to: neither   *)
(* of the good verdicts is printed.                                        *)
(***************************************************************************)
InventedIsExposed ==
    run.ending \in {"verified", "partial"} =>
        \A n \in (record.named \cap nodes) \ silent : ledger[n].state # "absent"

\* The record of a sheet sealed by the entity, in a published block whose
\* root or CID is on every chain the record names.
Sound ==
    /\ record.evidence = File /\ record.expected
    /\ record.cid \in Cids
    /\ LET b == Published[record.cid]
       IN  /\ File \in Range(b.leaves)
           /\ b.hashblock = MerkleRoot(b.leaves)
           /\ \A n \in record.named :
                 /\ ledger[n].state = "confirmed"
                 /\ ledger[n].mentions \in {MerkleRoot(b.leaves), record.cid}

(***************************************************************************)
(* No sheet is slandered, and what was not looked at is said: a sheet that *)
(* is all it should be, while its own transactions stay as they are, gets  *)
(* VERIFICADA if a node answers for every chain named, PARCIALMENTE as     *)
(* soon as one has none or is silent, and nothing else.                    *)
(***************************************************************************)
SoundIsVerified ==
    /\ Ended /\ ~faulted
    /\ record # NoRecord /\ Sound
    /\ record.named \cap moved = {} /\ block = Published[record.cid]
    => run.ending = IF record.named \subseteq nodes \ silent THEN "verified" ELSE "partial"

(***************************************************************************)
(* What the program prints with VERIFICADA, that no step depends on        *)
(* believing the service: a chain was looked at, and it has the block.     *)
(***************************************************************************)
VerifiedIsWitnessed ==
    run.ending = "verified" =>
        \E n \in record.named \cap nodes :
            ledger[n].state = "confirmed" /\ MentionsBlock(ledger[n])

\* The program ends whoever fails it: with a verdict, or without.
EveryRunEnds == <>Ended
=============================================================================
