--------------------------- MODULE FallbackScanner ---------------------------
(***************************************************************************)
(* The fallback kernel: the same three tasks, one byte after the other.    *)
(* Stage 1 (structural_scanner) checks UTF-8 in strings only, and never    *)
(* stops at an error.  It may read up to three bytes behind the text.      *)
(***************************************************************************)
EXTENDS ByteText

CONSTANTS Pending,    \* no answer yet
          AsciiChunk  \* the bytes validate_utf8 looks at together: 16

VARIABLES text, behind, task, answer,
          idx,              \* the position, of the minifier and the check too
          tail,             \* the indexes written
          in_string,        \* within validate_string
          unclosed_string,
          error,
          quote, nonescape, \* of the minifier
          out

inputVars  == <<text, behind, task>>
indexVars  == <<tail, in_string, unclosed_string, error>>
minifyVars == <<quote, nonescape, out>>
vars == <<inputVars, answer, idx, indexVars, minifyVars>>

Streaming == {"streaming_partial", "streaming_final"}
Stage1Tasks == {"regular"} \cup Streaming

Init == /\ answer = Pending
        /\ idx = 0
        /\ tail = <<>>
        /\ in_string = FALSE
        /\ unclosed_string = FALSE
        /\ error = "SUCCESS"
        /\ quote = FALSE
        /\ nonescape = TRUE
        /\ out = <<>>

len == Len(text)
Buf(i) == IF i < len THEN At(text, i) ELSE behind

-----------------------------------------------------------------------------
(* validate_utf8_character *)

Result(i, err) == [idx |-> i, error |-> err]

(* A character of n bytes, 2 to 4.  The tests compare idx+n-1 with len, so  *)
(* that its last byte may be the one behind the text.  A stream leaves out  *)
(* a character that its end cuts, in some of the cases only.                *)
Character(n) ==
    LET b    == Buf(idx)
        b1   == Buf(idx + 1)
        over == idx + n - 1 > len
        cut  == idx + Min({n - 1, 2}) > len /\ task \in Streaming
        bad  == \/ n = 2 /\ b <= 193
                \/ b = 224 /\ b1 <= 159
                \/ b = 237 /\ b1 >= 160
                \/ b = 240 /\ b1 <= 143
                \/ b = 244 /\ b1 >= 144
                \/ b >= 245
    IN  IF over \/ \E k \in 1..n-1 : ~IsContinuation(Buf(idx + k))
        THEN IF cut THEN Result(len, error) ELSE Result(idx + 1, "UTF8_ERROR")
        ELSE Result(idx + n, IF bad THEN "UTF8_ERROR" ELSE error)

validate_utf8_character ==
    LET b == Buf(idx)
    IN  IF b < 192 THEN Result(idx + 1, "UTF8_ERROR")
        ELSE Character(CASE b \in 192..223 -> 2
                         [] b \in 224..239 -> 3
                         [] b \in 240..255 -> 4)

-----------------------------------------------------------------------------
(* scan() *)
Scans == task \in Stage1Tasks /\ answer = Pending

add_structural == tail' = Append(tail, idx)

StringStart == /\ Scans /\ ~in_string /\ idx < len
               /\ Buf(idx) = Quote
               /\ add_structural
               /\ in_string' = TRUE
               /\ idx' = idx + 1
               /\ UNCHANGED <<inputVars, answer, unclosed_string, error,
                              minifyVars>>

(* validate_string: an escape takes the next byte with it, whatever it is.  *)
StringEscape == /\ Scans /\ in_string /\ idx < len
                /\ Buf(idx) = Backslash
                /\ idx' = idx + 2
                /\ UNCHANGED <<inputVars, answer, indexVars, minifyVars>>

StringCharacter == /\ Scans /\ in_string /\ idx < len
                   /\ Buf(idx) >= 128
                   /\ idx' = validate_utf8_character.idx
                   /\ error' = validate_utf8_character.error
                   /\ UNCHANGED <<inputVars, answer, tail, in_string,
                                  unclosed_string, minifyVars>>

StringByte == /\ Scans /\ in_string /\ idx < len
              /\ Buf(idx) < 128 /\ Buf(idx) \notin {Quote, Backslash}
              /\ error' = IF Buf(idx) < Space THEN "UNESCAPED_CHARS" ELSE error
              /\ idx' = idx + 1
              /\ UNCHANGED <<inputVars, answer, tail, in_string,
                             unclosed_string, minifyVars>>

StringEnd == /\ Scans /\ in_string
             /\ idx < len => Buf(idx) = Quote
             /\ in_string' = FALSE
             /\ unclosed_string' = (unclosed_string \/ idx >= len)
             /\ idx' = idx + 1
             /\ UNCHANGED <<inputVars, answer, tail, error, minifyVars>>

Operator == /\ Scans /\ ~in_string /\ idx < len
            /\ Buf(idx) \in OperatorBytes
            /\ add_structural
            /\ idx' = idx + 1
            /\ UNCHANGED <<inputVars, answer, in_string, unclosed_string, error,
                           minifyVars>>

Whitespace == /\ Scans /\ ~in_string /\ idx < len
              /\ Buf(idx) \in WhitespaceBytes
              /\ idx' = idx + 1
              /\ UNCHANGED <<inputVars, answer, indexVars, minifyVars>>

(* Anything else, up to the next operator or whitespace: quotes do not end  *)
(* it, nor is it checked to be UTF-8.                                       *)
Primitive == /\ Scans /\ ~in_string /\ idx < len
             /\ Buf(idx) \notin OperatorBytes \cup WhitespaceBytes \cup {Quote}
             /\ add_structural
             /\ idx' = Min({i \in idx+1..len :
                      i < len => Buf(i) \in OperatorBytes \cup WhitespaceBytes})
             /\ UNCHANGED <<inputVars, answer, in_string, unclosed_string, error,
                            minifyVars>>

(* The end of scan(). *)
FinishScan ==
    LET n        == Len(tail)
        padded   == tail \o <<len, len, 0>>
        kept     == IF unclosed_string THEN n - 1 ELSE n
        complete == FindNextDocumentIndex(Classes(text), padded, kept)
        final    == [padded EXCEPT ![complete + 2] = padded[complete + 1],
                                   ![complete + 1] = len]
        Leave(err, m, i) == [err |-> err, n |-> m, idx |-> i]
    IN  IF n = 0 THEN Leave("EMPTY", 0, padded)
        ELSE CASE task = "regular" ->
                    Leave(IF unclosed_string THEN "UNCLOSED_STRING" ELSE error,
                          n, padded)
               [] task = "streaming_final" ->
                    Leave(IF complete = 0 THEN "EMPTY" ELSE error, complete, final)
               [] task = "streaming_partial" ->
                    IF complete > 0 THEN Leave(error, complete, padded)
                    ELSE IF kept = 0 \/ padded[1] = 0
                    THEN Leave("CAPACITY", kept, padded)
                    ELSE Leave("EMPTY", 0, padded)

ScanEnd == /\ Scans /\ ~in_string /\ idx >= len
           /\ answer' = FinishScan
           /\ UNCHANGED <<inputVars, idx, indexVars, minifyVars>>

-----------------------------------------------------------------------------
(* minify, by a table of three bits per byte: whether it is a quote, whether*)
(* it is anything but a backslash, and whether it is anything but blank.    *)

MinifyByte == /\ task = "minify" /\ answer = Pending /\ idx < len
              /\ LET c == Buf(idx)
                 IN  /\ quote' = ((c = Quote /\ nonescape) # quote)
                     /\ out' = IF c \notin WhitespaceBytes \/ quote'
                               THEN Append(out, c) ELSE out
                     /\ nonescape' = (~nonescape \/ c # Backslash)
              /\ idx' = idx + 1
              /\ UNCHANGED <<inputVars, answer, indexVars>>

MinifyEnd == /\ task = "minify" /\ answer = Pending /\ idx = len
             /\ answer' = [err |-> IF quote THEN "UNCLOSED_STRING" ELSE "SUCCESS",
                           out |-> out]
             /\ UNCHANGED <<inputVars, idx, indexVars, minifyVars>>

-----------------------------------------------------------------------------
(* validate_utf8 *)
Validates == task = "validate" /\ answer = Pending

CharacterLength(first) == CASE first \in 192..223 -> 2
                            [] first \in 224..239 -> 3
                            [] first \in 240..247 -> 4
                            [] OTHER -> 0

CodePoint(n) ==
    LET Low(k) == Buf(idx + k) % 64
    IN  CASE n = 2 -> (Buf(idx) % 32) * 64 + Low(1)
          [] n = 3 -> (Buf(idx) % 16) * 4096 + Low(1) * 64 + Low(2)
          [] n = 4 -> (Buf(idx) % 8) * 262144 + Low(1) * 4096 + Low(2) * 64
                        + Low(3)

InRange(n, code_point) ==
    CASE n = 2 -> code_point >= 128 /\ code_point <= 2047
      [] n = 3 -> /\ code_point >= 2048 /\ code_point <= 65535
                  /\ code_point <= 55295 \/ code_point >= 57344
      [] n = 4 -> code_point >= 65536 /\ code_point <= 1114111

AsciiAhead == /\ idx + AsciiChunk <= len
              /\ \A k \in 0..AsciiChunk-1 : Buf(idx + k) < 128

ValidateAscii == /\ Validates /\ idx < len
                 /\ Buf(idx) < 128
                 /\ idx' = idx + (IF AsciiAhead THEN AsciiChunk ELSE 1)
                 /\ UNCHANGED <<inputVars, answer, indexVars, minifyVars>>

ValidateCharacter ==
    /\ Validates /\ idx < len
    /\ Buf(idx) >= 128
    /\ LET n == CharacterLength(Buf(idx))
       IN  IF /\ n > 0
              /\ idx + n <= len
              /\ \A k \in 1..n-1 : IsContinuation(Buf(idx + k))
              /\ InRange(n, CodePoint(n))
           THEN idx' = idx + n /\ UNCHANGED answer
           ELSE answer' = [valid |-> FALSE] /\ UNCHANGED idx
    /\ UNCHANGED <<inputVars, indexVars, minifyVars>>

ValidateEnd == /\ Validates /\ idx >= len
               /\ answer' = [valid |-> TRUE]
               /\ UNCHANGED <<inputVars, idx, indexVars, minifyVars>>

Next == \/ StringStart \/ StringEscape \/ StringCharacter \/ StringByte
        \/ StringEnd \/ Operator \/ Whitespace \/ Primitive \/ ScanEnd
        \/ MinifyByte \/ MinifyEnd
        \/ ValidateAscii \/ ValidateCharacter \/ ValidateEnd

Spec == Init /\ [][Next]_vars

=============================================================================
