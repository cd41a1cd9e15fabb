------------------------------ MODULE ByteText ------------------------------
(***************************************************************************)
(* What stage 1, the minifier and the UTF-8 check have to find in a        *)
(* sequence of bytes, said character by character.  This is the reference  *)
(* for the kernels, which work on blocks (BlockScanner) or on one byte     *)
(* after the other (FallbackScanner).                                      *)
(***************************************************************************)
EXTENDS StructuralIndex

Byte      == 0..255
Space     == 32
Quote     == 34
Backslash == 92
WhitespaceBytes == {9, 10, 13, Space}
OperatorBytes   == {91, 93, 123, 125, 44, 58}

-----------------------------------------------------------------------------
(* UTF-8, by table 3-7 of the Unicode standard. *)

IsContinuation(b) == b \in 128..191

WellFormedCharacter(c) ==
    LET second == CASE c[1] = 224 -> 160..191
                    [] c[1] = 237 -> 128..159
                    [] c[1] = 240 -> 144..191
                    [] c[1] = 244 -> 128..143
                    [] OTHER      -> 128..191
        length == CASE c[1] \in 0..127   -> 1
                    [] c[1] \in 194..223 -> 2
                    [] c[1] \in 224..239 -> 3
                    [] c[1] \in 240..244 -> 4
                    [] OTHER             -> 0
    IN  /\ Len(c) = length
        /\ length > 1 => c[2] \in second
        /\ \A k \in 3..length : IsContinuation(c[k])

ValidUtf8(text) ==
    LET valid[i \in 0..Len(text)] ==
          \/ i = Len(text)
          \/ \E n \in 1..Min({4, Len(text) - i}) :
               /\ WellFormedCharacter(SubSeq(text, i + 1, i + n))
               /\ valid[i + n]
    IN  valid[0]

-----------------------------------------------------------------------------
(* Strings, tokens and whitespace. *)

(* A backslash escapes the byte behind it, in a string or not. *)
EscapedBytes(text) ==
    LET escaped[i \in 0..Len(text)] ==
          i > 0 /\ At(text, i-1) = Backslash /\ ~escaped[i-1]
    IN  {i \in 0..Len(text) : escaped[i]}

(* The classes StructuralIndex knows. *)
Classes(text) ==
    LET escaped == EscapedBytes(text)
        Class(b, i) == CASE b = Quote /\ i \notin escaped -> "q"
                         [] b = 91  -> "["
                         [] b = 93  -> "]"
                         [] b = 123 -> "{"
                         [] b = 125 -> "}"
                         [] b = 44  -> ","
                         [] b = 58  -> ":"
                         [] b \in WhitespaceBytes -> Blank
                         [] b >= 192 -> "u"
                         [] OTHER -> "d"
    IN  [k \in DOMAIN text |-> Class(text[k], k - 1)]

(* The contents of strings, without the quotes. *)
StringContents(text) ==
    LET c == Classes(text)
    IN  {i \in 0..Len(text)-1 : StringTail(c, i) /\ At(c, i) # "q"}

ControlInString(text) ==
    \E i \in StringContents(text) : At(text, i) < Space

(* A quote right behind an atom or a number: no JSON text has one.          *)
GluedQuotes(text) ==
    LET c == Classes(text)
    IN  {i \in 1..Len(text)-1 : At(c, i) = "q" /\ ~StringTail(c, i)
                                  /\ FollowsScalar(c, i)}

(* Control characters outside strings that are no whitespace. *)
ForeignBytes(text) ==
    LET c == Classes(text)
    IN  {i \in 0..Len(text)-1 : /\ ~StringTail(c, i)
                                /\ At(text, i) < Space
                                /\ At(text, i) \notin WhitespaceBytes}

(* Where stage 2 finds that the text is no JSON, whatever stage 1 makes of  *)
(* it.                                                                      *)
Oddities(text) == GluedQuotes(text) \cup ForeignBytes(text)

Minified(text) ==
    LET c == Classes(text)
        Kept(i) == At(c, i) = Blank => StringTail(c, i)
        upto[i \in 0..Len(text)] ==
          IF i = 0 THEN <<>>
          ELSE upto[i-1] \o (IF Kept(i-1) THEN <<At(text, i-1)>> ELSE <<>>)
    IN  upto[Len(text)]
=============================================================================
