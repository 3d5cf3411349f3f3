----------------------------- MODULE MerkleTree -----------------------------
(***************************************************************************)
(* merkle_root of tools/verify_chain.py.  The hash of two strings is the   *)
(* pair of them: two pairs have one hash only if they are the same pair.   *)
(***************************************************************************)
EXTENDS Naturals, Sequences, SequencesExt

\* Mutant: an odd level is padded with the empty string.
PaddedLevel(level) ==
    [i \in 1..((Len(level) + 1) \div 2) |->
        <<level[2*i - 1], IF 2*i <= Len(level) THEN level[2*i] ELSE <<>> >>]

\* Mutant: the last element of an odd level is dropped.
TruncatedLevel(level) ==
    [i \in 1..(Len(level) \div 2) |-> <<level[2*i - 1], level[2*i]>>]

\* The next level up; a level of odd length repeats its last element.
NextLevel(level) ==
    [i \in 1..((Len(level) + 1) \div 2) |->
        <<level[2*i - 1], IF 2*i <= Len(level) THEN level[2*i] ELSE level[2*i - 1]>>]

\* Levels are built until one node is left, never more of them than leaves.
MerkleRoot(leaves) ==
    Head(FoldLeft(LAMBDA level, leaf : IF Len(level) > 1 THEN NextLevel(level) ELSE level,
                  leaves, leaves))
-----------------------------------------------------------------------------
\* A leaf is the hash of a file, and never that of two nodes.
IsLeaf(x) == \A y, z : x # <<y, z>>

(***************************************************************************)
(* What a root says: a list that has the root of the sealed sheets, and    *)
(* holds one sheet at all, holds those sheets and no other.                *)
(***************************************************************************)
RootsIdentifySheets ==
    \A T : \A sealed, served \in Seq(T) :
        /\ sealed # <<>> /\ served # <<>> /\ MerkleRoot(served) = MerkleRoot(sealed)
        /\ \A x \in Range(sealed) : IsLeaf(x)
        /\ \E x \in Range(served) : IsLeaf(x)
        => Range(served) = Range(sealed)
=============================================================================
