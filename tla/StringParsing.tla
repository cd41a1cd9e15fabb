---------------------------- MODULE StringParsing ---------------------------
(***************************************************************************)
(* stringparsing.h: the unescaping of one string, window by window, from   *)
(* behind its opening quote to the closing one.  Bytes are numbers.        *)
(***************************************************************************)
EXTENDS Integers, SequencesExt

CONSTANTS Widths,   \* the BYTES_PROCESSED of the kernels
          Policies, \* "strict", "replacement" (allow_replacement) or "wobbly"
          Padding   \* how many bytes may be read behind the closing quote

(* An escaped surrogate pair takes twelve bytes. *)
ASSUME StringAssumption ==
    /\ Padding \in Nat /\ Padding >= 12
    /\ Widths \subseteq 1..Padding
    /\ Policies \subseteq {"strict", "replacement", "wobbly"}

VARIABLES text,     \* what begins behind an opening quote, to beyond the closing one
          width, policy,
          src,      \* where the next window begins
          dst,      \* what is written for good
          result    \* "none", the end position ("end"), or null ("error")
string_vars == <<text, width, policy, src, dst, result>>

Quote == 34
Backslash == 92
LetterU == 117
substitution_code_point == 65533

escape_map == [c \in {34, 47, 92, 98, 102, 110, 114, 116} |->
    CASE c = 98 -> 8 [] c = 102 -> 12 [] c = 110 -> 10 [] c = 114 -> 13 [] c = 116 -> 9
      [] OTHER -> c]

digit_to_val == [c \in (48..57) \cup (65..70) \cup (97..102) |->
    IF c <= 57 THEN c - 48 ELSE IF c <= 70 THEN c - 55 ELSE c - 87]

(* Beyond every code point if a digit is none, as the filled upper bits are *)
NotHex == 2147483647
IsHex(at) == \A k \in at..at + 3 : text[k] \in DOMAIN digit_to_val
Digits(a, b, c, d) == 4096 * a + 256 * b + 16 * c + d
hex_to_u32_nocheck(at) ==
    IF IsHex(at)
    THEN Digits(digit_to_val[text[at]], digit_to_val[text[at + 1]],
                digit_to_val[text[at + 2]], digit_to_val[text[at + 3]])
    ELSE NotHex

Lead(mark, cp, unit) == mark + cp \div unit
Rest(cp, unit)       == 128 + ((cp \div unit) % 64)
codepoint_to_utf8(cp) ==
    IF cp <= 127 THEN <<cp>>
    ELSE IF cp <= 2047 THEN <<Lead(192, cp, 64), Rest(cp, 1)>>
    ELSE IF cp <= 65535 THEN <<Lead(224, cp, 4096), Rest(cp, 64), Rest(cp, 1)>>
    ELSE IF cp <= 1114111
    THEN <<Lead(240, cp, 262144), Rest(cp, 4096), Rest(cp, 64), Rest(cp, 1)>>
    ELSE <<>>

High(cp) == cp \in 55296..56319
Low(cp)  == cp \in 56320..57343

Pair(high, low) == 1024 * (high - 55296) + (low - 56320) + 65536

(* What the escape at p comes to: a code point, or none, and how much of    *)
(* the text it takes.  The second escape is looked at behind a high         *)
(* surrogate only, and taken if it is a low one.                            *)
Second(p) ==
    IF SubSeq(text, p + 6, p + 7) = <<Backslash, LetterU>>
    THEN hex_to_u32_nocheck(p + 8) ELSE NotHex
Lone(cp) ==
    CASE policy = "strict" -> {} [] policy = "replacement" -> {substitution_code_point}
      [] OTHER -> {cp}

(* Slip: the escape is stepped over only where its surrogate was good. *)
handle_unicode_codepoint_Stay(p) ==
    LET cp == hex_to_u32_nocheck(p + 2)
    IN  IF High(cp) /\ Low(Second(p))
        THEN [code |-> {Pair(cp, Second(p))}, length |-> 12]
        ELSE [code |-> IF High(cp) \/ Low(cp) THEN Lone(cp) ELSE {cp},
              length |-> IF High(cp) \/ Low(cp) THEN 0 ELSE 6]
(* Slip: whatever escape follows a high surrogate is paired with it. *)
handle_unicode_codepoint_Any(p) ==
    LET cp == hex_to_u32_nocheck(p + 2)
    IN  IF High(cp) /\ Second(p) < 65536
        THEN [code |-> {Pair(cp, 56320 + (Second(p) % 1024))}, length |-> 12]
        ELSE [code |-> IF High(cp) \/ Low(cp) THEN Lone(cp) ELSE {cp}, length |-> 6]
handle_unicode_codepoint(p) ==
    LET cp == hex_to_u32_nocheck(p + 2)
    IN  IF High(cp) /\ Low(Second(p))
        THEN [code |-> {Pair(cp, Second(p))}, length |-> 12]
        ELSE [code |-> IF High(cp) \/ Low(cp) THEN Lone(cp) ELSE {cp}, length |-> 6]
-----------------------------------------------------------------------------
(* copy_and_find(): where in the window the first quote and backslash are,  *)
(* behind it if there is none                                               *)
Window == SubSeq(text, src, src + width - 1)
First(c) == Min({width + 1} \cup {k \in 1..width : Window[k] = c})
has_quote_first == First(Quote) < First(Backslash)
has_backslash   == First(Backslash) < First(Quote)
Before(k) == dst \o SubSeq(Window, 1, k - 1)
Escape    == src + First(Backslash) - 1
EscapeChar == text[Escape + 1]

Begin ==
    /\ width \in Widths /\ policy \in Policies
    /\ src = 1 /\ dst = <<>> /\ result = "none"

(* "There must be an unescaped quote terminating the string": stage 1 has   *)
(* found it.  A backslash escapes what follows, unless it is escaped.       *)
Escaped(t) ==
    LET escaped[i \in 1..Len(t)] == i > 1 /\ t[i-1] = Backslash /\ ~escaped[i-1]
    IN  {i \in 1..Len(t) : escaped[i]}
Quotes(t) == {i \in 1..Len(t) : t[i] = Quote /\ i \notin Escaped(t)}
Texts == {t \in Seq(0..255) : \E q \in Quotes(t) : q + Padding <= Len(t)}
StringInit == text \in Texts /\ Begin

Step == result = "none" /\ UNCHANGED <<text, width, policy>>
Refuse == result' = "error" /\ UNCHANGED <<src, dst>>

EndOfString ==
    /\ Step /\ has_quote_first
    /\ dst' = Before(First(Quote))
    /\ result' = "end"
    /\ UNCHANGED src

Unescape ==
    /\ Step /\ has_backslash /\ EscapeChar # LetterU
    /\ EscapeChar \in DOMAIN escape_map
    /\ dst' = Append(Before(First(Backslash)), escape_map[EscapeChar])
    /\ src' = Escape + 2
    /\ UNCHANGED result

BogusEscape ==
    /\ Step /\ has_backslash /\ EscapeChar # LetterU
    /\ EscapeChar \notin DOMAIN escape_map
    /\ Refuse

Unicode ==
    /\ Step /\ has_backslash /\ EscapeChar = LetterU
    /\ \E point \in {handle_unicode_codepoint(Escape)} :
         \E code \in point.code :
           /\ codepoint_to_utf8(code) # <<>>
           /\ dst' = Before(First(Backslash)) \o codepoint_to_utf8(code)
           /\ src' = Escape + point.length
    /\ UNCHANGED result

BogusUnicode ==
    /\ Step /\ has_backslash /\ EscapeChar = LetterU
    /\ \A code \in handle_unicode_codepoint(Escape).code : codepoint_to_utf8(code) = <<>>
    /\ Refuse

NextWindow ==
    /\ Step /\ ~has_quote_first /\ ~has_backslash
    /\ dst' = dst \o Window
    /\ src' = src + width
    /\ UNCHANGED result

StringNext == \/ EndOfString \/ Unescape \/ BogusEscape
              \/ Unicode \/ BogusUnicode \/ NextWindow
StringSpec == StringInit /\ [][StringNext]_string_vars

(* The buffer for strings is sized by the text.  Nothing written for a      *)
(* string is longer than what was read of it, whatever is replaced, so that *)
(* the buffer and the padding behind it always take the next window.        *)
OutputBehindInput == Len(dst) < src + (IF result = "end" THEN width ELSE 0)
=============================================================================
