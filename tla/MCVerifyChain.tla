---------------------------- MODULE MCVerifyChain ----------------------------
(***************************************************************************)
(* Small instances of VerifyChain: a published block of three leaves that  *)
(* holds the file and one that does not, and a gateway that may answer the *)
(* first for the second, and a block nobody published for the first.       *)
(***************************************************************************)
EXTENDS VerifyChain

CONSTANTS other, third, good, foreign, rollux, lacchain

Networks == <<rollux, lacchain>>

GoodLeaves    == <<other, third, File>>
ForeignLeaves == <<other, third>>

BlockOf(leaves) == [leaves |-> leaves, hashblock |-> MerkleRoot(leaves)]

Blocks == [c \in Cids |-> BlockOf(IF c = good THEN GoodLeaves ELSE ForeignLeaves)]

\* The leaves of one block under the root of the other.
Broken == [leaves |-> GoodLeaves, hashblock |-> MerkleRoot(ForeignLeaves)]

\* A gateway that answers the content it is asked for.
Faithful == [c \in Cids |-> {Blocks[c]}]

\* A gateway that does not always answer the content it is asked for.
Fickle ==
    [c \in Cids |-> IF c = good THEN {Blocks[good], Broken} ELSE {Blocks[foreign], Blocks[good]}]

Inputs == {MerkleRoot(GoodLeaves), MerkleRoot(ForeignLeaves), good, foreign}
=============================================================================
