----------------------------- MODULE MCAlgorithms -----------------------------
(***************************************************************************)
(* The pure algorithms of the system, each on every input up to a size.    *)
(* An instance checks one of them, picked at the start, on two sequences   *)
(* that grow element by element:                                           *)
(*                                                                         *)
(*   merkle   the leaves an anchoring engine sealed; those a gateway serves*)
(*   code     the characters of a code somebody asks for                   *)
(*   sheet    the votes of each option; the other figures of the results   *)
(*   path     the pieces of an identifier                                  *)
(***************************************************************************)
EXTENDS MerkleTree, CodeCipher, Ingestion, CustodyPaths, FiniteSets

CONSTANTS
    Leaves, MaxLeaves,         \* merkle
    Junk, MaxText,             \* code: a character that is no symbol
    slash,                     \* and one base64 reads as a symbol
    MaxVotes, MaxOptions,      \* sheet
    MaxPieces,                 \* path
    acta1, acta2               \* the identifiers codes were printed for

ASSUME SizesAssumption == {MaxLeaves, MaxText, MaxVotes, MaxOptions, MaxPieces} \subseteq Nat
ASSUME LettersAssumption == {"a", "l"} \subseteq Alphanumeric

VARIABLES part, first, second

Inputs ==
    [merkle |-> <<Leaves, MaxLeaves, Leaves, MaxLeaves>>,
     code   |-> <<Symbols \cup {Pad, Junk} \cup DOMAIN Alias, MaxText, {}, 0>>,
     sheet  |-> <<0..MaxVotes, MaxOptions, 0..(MaxVotes + 1), 5>>,
     path   |-> <<{<<"a">>, <<"l">>, <<".">>, <<"/">>, <<".", ".", "/">>, <<"newline">>, <<"*">>},
                  MaxPieces, {}, 0>>]

Init == part \in DOMAIN Inputs /\ first = <<>> /\ second = <<>>

GrowFirst ==
    /\ Len(first) < Inputs[part][2]
    /\ \E e \in Inputs[part][1] : first' = Append(first, e)
    /\ UNCHANGED <<part, second>>

GrowSecond ==
    /\ Len(second) < Inputs[part][4]
    /\ \E e \in Inputs[part][3] : second' = Append(second, e)
    /\ UNCHANGED <<part, first>>

Next == GrowFirst \/ GrowSecond

Spec == Init /\ [][Next]_<<part, first, second>>
-----------------------------------------------------------------------------
(***************************************************************************)
(* merkle_root                                                             *)
(***************************************************************************)

\* The number of leaves below a node of each height up to n.
Widths(n) ==
    LET width[h \in 0..n] == IF h = 0 THEN 1 ELSE 2 * width[h - 1] IN width

\* The smallest height of a binary tree with n leaves.
Height(n) ==
    CHOOSE h \in 0..n : Widths(n)[h] >= n /\ \A k \in 0..(h - 1) : Widths(n)[k] < n

(***************************************************************************)
(* The nodes of every height seen from above, each at the position of its  *)
(* first leaf: the right half starts where the left half is full, and a    *)
(* right half without leaves is the left half over again.                  *)
(***************************************************************************)
Half(i, width, n) == IF i + width <= n THEN i + width ELSE i

Halves(nodes, width, n) == [i \in 1..n |-> <<nodes[i], nodes[Half(i, width, n)]>>]

Nodes(leaves) ==
    LET n == Len(leaves)
        node[h \in 0..n] ==
            IF h = 0 THEN leaves ELSE Halves(node[h - 1], Widths(n)[h - 1], n)
    IN  node

Tree(leaves) == Nodes(leaves)[Height(Len(leaves))][1]

(***************************************************************************)
(* The levels built from the leaves up give the tree defined from the root *)
(* down, whatever the number of leaves: an odd level anywhere in the tree  *)
(* repeats its last node and never pads with nothing.                      *)
(***************************************************************************)
RootIsTheTree ==
    part = "merkle" /\ first # <<>> => MerkleRoot(first) = Tree(first)

(***************************************************************************)
(* What step 3 of the verifier is for: if the leaves served reconstruct    *)
(* the root that was sealed, a sheet is among the one exactly when it is   *)
(* among the other.  Not the lists themselves: repeating the last leaves   *)
(* of an odd list gives another list with the same root.                   *)
(***************************************************************************)
RootDeterminesTheSheets ==
    /\ part = "merkle" /\ first # <<>> /\ second # <<>>
    /\ MerkleRoot(first) = MerkleRoot(second)
    => Range(first) = Range(second)
-----------------------------------------------------------------------------
(***************************************************************************)
(* CodeCipher: a code has one spelling.  Of all strings, with symbols left *)
(* over, characters the decoder skips, two for one symbol and padding in   *)
(* odd places, a sheet answers to those that were printed for it and to no *)
(* other, and everything that decodes to the bytes of one print is it.     *)
(***************************************************************************)
OneSpellingPerCode ==
    part = "code" =>
        LET found == Decode(first)
        IN  /\ \A i \in Range(Sealed) : found = i <=> first \in Encode(i)
            /\ \A b \in DOMAIN Sealed :
                  found # InvalidCode /\ B64Decode(first) = b <=> first = B64Encode(b)

\* Two prints of one sheet, of a length that leaves bits over, and one of
\* another, of whole groups.
Prints == <<15, 6>> :> acta1 @@ <<3, 6>> :> acta1 @@ <<3, 14, 9>> :> acta2

\* The last symbol has a second character.
Standard == slash :> 7
-----------------------------------------------------------------------------
\* The results under construction.
Figures ==
    [station |-> 0, options |-> first, valid |-> second[1], null |-> second[2],
     blank |-> second[3], voters |-> second[4], eligible |-> second[5]]

(***************************************************************************)
(* Results and the results view: whatever figures are accepted can be      *)
(* drawn.  The shares of the options are parts of one whole and add up to  *)
(* it, nobody's turnout is above it, every bar fits its track, and no      *)
(* figure is divided by nobody, for sheets without votes or voters too.    *)
(***************************************************************************)
AcceptedCanBeShown ==
    part = "sheet" /\ Len(second) = 5 /\ ResultsOK(Figures)
    => /\ AtMostWhole(Turnout(Figures)) /\ Turnout(Figures)[2] > 0
       /\ \A i \in 1..Len(first) :
             \A fraction \in {Share(Figures, i), BarWidth(Figures, i)} :
                AtMostWhole(fraction) /\ fraction[2] > 0
       /\ LET shares == [i \in 1..Len(first) |-> Share(Figures, i)]
              total  == FoldLeft(LAMBDA sum, share : sum + share[1], 0, shares)
          IN  total = IF second[1] = 0 THEN 0 ELSE shares[1][2]
-----------------------------------------------------------------------------
\* A directory of the tree is a link to another place.
Place == << <<"a">> >>
Away  == << <<"a">>, <<"l">> >> :> << <<"l">> >>

\* No directory or file on the way to a sheet is a link.
Unlinked(id) == \A link \in DOMAIN Links : ~IsPrefix(link, Key(id))

(***************************************************************************)
(* The custody drivers: whatever an identifier deciphers to, nothing is    *)
(* read outside the directory, links included, and no key names an object  *)
(* outside the prefix, even in a store that normalises keys.  Nor is a     *)
(* sheet on disk withheld by the look at its resolved path, unless a link  *)
(* is on the way to it.                                                    *)
(***************************************************************************)
StaysInCustody ==
    part = "path" =>
        LET id == FlattenSeq(first)
        IN  /\ ServedFromDisk(id) => IsUnderRoot(Candidate(id))
            /\ IsSafe(id) => /\ IsUnderRoot(Key(id)) /\ Key(id) # Root
                             /\ Unlinked(id) => ServedFromDisk(id)
===============================================================================
