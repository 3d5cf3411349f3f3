------------------------------ MODULE CodeCipher ------------------------------
(***************************************************************************)
(* app/services/code_cipher.py: what is printed in the QR code of a sheet, *)
(* and which of all the strings a URL may carry are taken for it.          *)
(*                                                                         *)
(* Base64 writes three bytes of 8 bits as four symbols of 6.  It keeps its *)
(* shape on bytes of 4 bits and symbols of 3, of which few enough exist to *)
(* enumerate.  AES-GCM is ideal: what deciphers is exactly what this       *)
(* server sealed.                                                          *)
(***************************************************************************)
EXTENDS Integers, Sequences, SequencesExt

CONSTANTS
    ByteBits,       \* 8, or 4
    SymbolBits,     \* 6, or 3
    NonceBytes,     \* NONCE_BYTES
    Sealed,         \* nonce and ciphertext, as encode drew them -> identifier
    Pad,            \* the character =
    Alias,          \* + and /, of the standard alphabet -> symbol
    InvalidCode     \* the exception

Symbols == 0..(2^SymbolBits - 1)

ASSUME WidthAssumption  == <<ByteBits, SymbolBits>> \in {<<8, 6>>, <<4, 3>>}
ASSUME MarksAssumption  == Pad \notin Symbols /\ \A b \in DOMAIN Sealed : Sealed[b] # InvalidCode
ASSUME AliasAssumption  == \A c \in DOMAIN Alias : c \notin Symbols
ASSUME NonceAssumption  == NonceBytes \in Nat \ {0}
ASSUME SealedAssumption ==
    \A b \in DOMAIN Sealed : b \in Seq(0..(2^ByteBits - 1)) /\ Len(b) > NonceBytes

\* The bits of a list of numbers, most significant first, and the list of n
\* numbers that bits make, with zeros where they run out.
Bits(numbers, width) ==
    [b \in 1..(width * Len(numbers)) |->
        (numbers[(b - 1) \div width + 1] \div 2^(width - 1 - ((b - 1) % width))) % 2]

BitAt(bits, b) == IF b <= Len(bits) THEN bits[b] ELSE 0

Shift(sum, bit) == 2 * sum + bit

Numbers(bits, width, n) ==
    [k \in 1..n |->
        FoldLeft(Shift, 0, [j \in 1..width |-> BitAt(bits, (k - 1) * width + j)])]

\* _b64url_encode: no padding; the last symbol is filled up with zeros.
B64Encode(blob) ==
    Numbers(Bits(blob, ByteBits), SymbolBits, (4 * Len(blob) + 2) \div 3)

\* urlsafe_b64decode only translates - and _: those it replaces still read.
SymbolOf(c) == IF c \in DOMAIN Alias THEN Alias[c] ELSE c

(***************************************************************************)
(* binascii, not strict, as urlsafe_b64decode calls it: a character that   *)
(* is no symbol is skipped, and so is a = that does not complete a group;  *)
(* one that does ends the input.                                           *)
(***************************************************************************)
Read(s, c) ==
    LET group == Len(s.kept) % 4
    IN  IF s.ended \/ (c = Pad /\ group < 2) THEN s
        ELSE IF c = Pad
             THEN [s EXCEPT !.pads = @ + 1, !.ended = group + s.pads + 1 >= 4]
        ELSE IF SymbolOf(c) \in Symbols
             THEN [s EXCEPT !.kept = Append(@, SymbolOf(c)), !.pads = 0]
        ELSE s

Scan(text) == FoldLeft(Read, [kept |-> <<>>, pads |-> 0, ended |-> FALSE], text)

\* _b64url_decode: padded to a multiple of four first, counting every character.
Scanned(text) == Scan(text \o [i \in 1..((-Len(text)) % 4) |-> Pad])

IsBase64(text) == Scanned(text).ended \/ Len(Scanned(text).kept) % 4 = 0

B64Decode(text) ==
    LET kept == Scanned(text).kept
    IN  Numbers(Bits(kept, SymbolBits), ByteBits, (3 * Len(kept)) \div 4)
-----------------------------------------------------------------------------
(***************************************************************************)
(* encode: what may be printed on a sheet.  Every call draws a nonce of    *)
(* its own, so a sheet has as many codes as calls were made for it.        *)
(***************************************************************************)
Encode(identifier) == {B64Encode(b) : b \in {b \in DOMAIN Sealed : Sealed[b] = identifier}}

Deciphers(blob) ==
    IF Len(blob) > NonceBytes /\ blob \in DOMAIN Sealed THEN Sealed[blob] ELSE InvalidCode

\* Mutant: whatever decodes is deciphered.
DecodeLoosely(text) ==
    IF IsBase64(text) THEN Deciphers(B64Decode(text)) ELSE InvalidCode

\* decode: base64, in the one form encode writes, longer than a nonce, and
\* sealed by this server.
Decode(text) ==
    IF IsBase64(text) /\ B64Encode(B64Decode(text)) = text
    THEN Deciphers(B64Decode(text))
    ELSE InvalidCode
===============================================================================
