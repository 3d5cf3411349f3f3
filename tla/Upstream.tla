------------------------------ MODULE Upstream ------------------------------
(***************************************************************************)
(* What the viewer reads and does not own: the custody store that holds    *)
(* the signed PDFs and the attestation service that holds one row per      *)
(* (account, file hash).  Neither is under src/; both are modelled from    *)
(* how the drivers of app/services/custody and app/services/stamping.py    *)
(* use them and from what README.md:126-139 says of the lookups.           *)
(*                                                                         *)
(* A file is identified with its SHA-256 (Document.sha256 is recomputed    *)
(* from the bytes on every read), and a transaction id, sha1 of that hash, *)
(* with the file too: two contents are two model values.                   *)
(* An account stands for every spelling of its user id that strip().lower()*)
(* maps to the same string, which is how the code compares them.           *)
(***************************************************************************)
EXTENDS Naturals, FiniteSets

CONSTANTS
    Identifiers,    \* internal sheet identifiers, e.g. EMC-2026/035253
    Contents,       \* PDF contents, equivalently their hashes
    Accounts,       \* accounts of the attestation service
    NoDoc,          \* no file under an identifier
    NoAccount,      \* nobody; also an empty setting
    Token,          \* settings.stamping_token: whose rows a lookup sees
    StrayAnswers,   \* may the service answer a lookup with some other row?
    MaxChanges      \* bound on how often the outside world changes

ASSUME NoDocAssumption      == NoDoc \notin Contents
ASSUME NoAccountAssumption  == NoAccount \notin Accounts
ASSUME TokenAssumption      == Token \in Accounts \cup {NoAccount}
ASSUME StrayAssumption      == StrayAnswers \in BOOLEAN
ASSUME MaxChangesAssumption == MaxChanges \in Nat

VARIABLES
    custody,    \* the file each identifier resolves to now
    held,       \* every file custody ever served for an identifier
    sealed,     \* registered <<account, content>> pairs
    latest,     \* the account that registered a content last
    anchored,   \* the registrations already written to the chains
    changes     \* how many times the world has moved

worldVars == <<custody, held, sealed, latest, anchored, changes>>

Row(a, d) == [owner |-> a, evidence |-> d, anchored |-> <<a, d>> \in anchored]

Rows == [owner : Accounts, evidence : Contents, anchored : BOOLEAN]

\* Mutant: the token never reaches the service.
PublicRows(d) == {Row(p[1], p[2]) : p \in sealed \cap {<<latest[d], d>>}}

(***************************************************************************)
(* The rows a lookup by transaction id may answer with.  With a token the  *)
(* lookup is scoped to that account; without one the public route returns  *)
(* the row registered last, whoever registered it.                         *)
(***************************************************************************)
VisibleRows(d) ==
    IF Token # NoAccount
    THEN {Row(p[1], p[2]) : p \in sealed \cap {<<Token, d>>}}
    ELSE {Row(p[1], p[2]) : p \in sealed \cap {<<latest[d], d>>}}

StrayRows(d) ==
    IF StrayAnswers THEN {Row(p[1], p[2]) : p \in sealed} ELSE {}

WorldTypeOK ==
    /\ custody  \in [Identifiers -> Contents \cup {NoDoc}]
    /\ held     \in [Identifiers -> SUBSET Contents]
    /\ sealed   \in SUBSET (Accounts \X Contents)
    /\ latest   \in [Contents -> Accounts \cup {NoAccount}]
    /\ anchored \in SUBSET sealed
    /\ changes  \in 0..MaxChanges

WorldInit ==
    /\ custody  = [i \in Identifiers |-> NoDoc]
    /\ held     = [i \in Identifiers |-> {}]
    /\ sealed   = {}
    /\ latest   = [d \in Contents |-> NoAccount]
    /\ anchored = {}
    /\ changes  = 0

WorldMoves == changes < MaxChanges /\ changes' = changes + 1

\* A file is put under an identifier, replacing the one there, if any.
Deposit(i, d) ==
    /\ WorldMoves
    /\ custody[i] # d
    /\ custody' = [custody EXCEPT ![i] = d]
    /\ held'    = [held EXCEPT ![i] = @ \cup {d}]
    /\ UNCHANGED <<sealed, latest, anchored>>

\* The file under an identifier is removed.
Withdraw(i) ==
    /\ WorldMoves
    /\ custody[i] # NoDoc
    /\ custody' = [custody EXCEPT ![i] = NoDoc]
    /\ UNCHANGED <<held, sealed, latest, anchored>>

\* An account registers a content; registration is idempotent per account.
Seal(a, d) ==
    /\ WorldMoves
    /\ <<a, d>> \notin sealed
    /\ sealed' = sealed \cup {<<a, d>>}
    /\ latest' = [latest EXCEPT ![d] = a]
    /\ UNCHANGED <<custody, held, anchored>>

\* A registration is written to the chains, minutes after it was made.
AnchorRow(a, d) ==
    /\ WorldMoves
    /\ <<a, d>> \in sealed \ anchored
    /\ anchored' = anchored \cup {<<a, d>>}
    /\ UNCHANGED <<custody, held, sealed, latest>>

World ==
    \/ \E i \in Identifiers, d \in Contents : Deposit(i, d)
    \/ \E i \in Identifiers : Withdraw(i)
    \/ \E a \in Accounts, d \in Contents : Seal(a, d) \/ AnchorRow(a, d)
=============================================================================
