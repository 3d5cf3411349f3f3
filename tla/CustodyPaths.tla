----------------------------- MODULE CustodyPaths -----------------------------
(***************************************************************************)
(* From an identifier to a file or an object: safe_identifier of           *)
(* app/services/custody/__init__.py, _resolve of local.py, _key of s3.py.  *)
(*                                                                         *)
(* An identifier is a sequence of characters, of which the rules tell      *)
(* apart the dot, the slash, the newline, the letters and the rest.  A     *)
(* path is the sequence of its names.                                      *)
(***************************************************************************)
EXTENDS Naturals, Sequences, SequencesExt

CONSTANTS
    Alphanumeric,   \* the characters [A-Za-z0-9]
    MaxLength,      \* 200, the longest identifier
    Root,           \* the path of the storage root, or the prefix of a bucket
    Links           \* symbolic links: path -> the path it points to

ASSUME AlphanumericAssumption ==
    Alphanumeric \cap {".", "/", "_", "-", "newline", "*", ".pdf"} = {}

\* All characters; "*" is any other, and the extension counts for one.
Characters == Alphanumeric \cup {".", "/", "_", "-", "newline", "*", ".pdf"}

ASSUME RootAssumption == Root \in Seq(Seq(Characters))

\* _SAFE; $ also matches in front of a last newline.
SafeBody(s) ==
    /\ Len(s) \in 1..MaxLength
    /\ s[1] \in Alphanumeric
    /\ ToSet(s) \subseteq Alphanumeric \cup {".", "_", "/", "-"}

HasSafeShape(id) ==
    SafeBody(id) \/ (id # <<>> /\ Last(id) = "newline" /\ SafeBody(Front(id)))

\* Mutant: a parent directory is looked for at the beginning only.
ClimbsAtOnce(id) == IsPrefix(<<".", ".">>, id)

\* The identifier names a parent directory, or skips a name.
Traverses(id) ==
    \/ \E i \in 1..(Len(id) - 1) : SubSeq(id, i, i + 1) \in {<<".", ".">>, <<"/", "/">>}
    \/ IsPrefix(<<"/">>, id)

IsSafe(id) == HasSafeShape(id) /\ ~Traverses(id)
-----------------------------------------------------------------------------
\* One character further in a path: a slash begins a name, which may stay empty.
Spell(names, c) ==
    IF c = "/" THEN Append(names, <<>>)
    ELSE [names EXCEPT ![Len(names)] = Append(@, c)]

Names(chars) == FoldLeft(Spell, << <<>> >>, chars)

\* Empty names and this directory lead nowhere.
IsStep(name) == name \notin {<<>>, <<".">>}

Parent(path) == IF path = <<>> THEN <<>> ELSE Front(path)

\* One name further.
Follow(path, name) ==
    IF name = <<".", ".">> THEN Parent(path)
    ELSE IF IsStep(name) THEN Append(path, name) ELSE path

\* resolve(): names are followed one by one, links where they point.
FollowLinks(path, name) ==
    LET next == Follow(path, name)
    IN  IF IsStep(name) /\ next \in DOMAIN Links THEN Links[next] ELSE next

Resolved(names) == FoldLeft(FollowLinks, Root, names)

Candidate(id) == Resolved(Names(Append(id, ".pdf")))

IsUnderRoot(path) == IsPrefix(Root, path)

\* LocalCustody._resolve lets the identifier through.
ServedFromDisk(id) == IsSafe(id) /\ IsUnderRoot(Candidate(id))

\* S3Custody._key: the names of the object; a store may normalise them.
Key(id) == FoldLeft(Follow, Root, Names(Append(id, ".pdf")))
===============================================================================
