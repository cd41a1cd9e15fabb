---------------------------- MODULE BlockScanner ----------------------------
(***************************************************************************)
(* The vector kernels: stage 1 (json_structural_indexer), the minifier     *)
(* (json_minifier) and the UTF-8 check (generic_validate_utf8), which read *)
(* the text in blocks of Width bytes, one or two at a time, and carry three*)
(* bits and the last bytes from one block to the next.                     *)
(*                                                                         *)
(* A 64-bit mask is the set of its bits; bit 0 is the first byte.          *)
(***************************************************************************)
EXTENDS Utf8Checker

CONSTANTS Pending,      \* no answer yet
          LikeOperators \* the control characters classified as operators

Classification == LikeOperators \subseteq (0..Space-1) \ WhitespaceBytes

(* An error code with the indexes, one with the minified text, or a verdict.*)
ErrorCodes == {"SUCCESS", "EMPTY", "CAPACITY", "UTF8_ERROR", "UNCLOSED_STRING",
               "UNESCAPED_CHARS", "UNEXPECTED_ERROR"}
Answers == [err : ErrorCodes, n : Int, idx : Seq(Int)]
             \cup [err : ErrorCodes, out : Seq(Byte)]
             \cup [valid : BOOLEAN]
NoAnswerYet == Pending \notin Answers

VARIABLES text, behind, task, answer,
          step_size,         \* STEP_SIZE
          len,               \* of the text that is read, once it is trimmed
          idx,               \* reader.idx
          scanner,           \* the carries of json_scanner and its strings
          checker,
          prev_structurals,  \* of the block before, not written yet
          unescaped_chars_error,
          tail,              \* the indexes written
          out,               \* the bytes the minifier wrote and keeps
          written            \* how far the minifier wrote into its output

inputVars  == <<text, behind, task, step_size>>
indexVars  == <<checker, prev_structurals, unescaped_chars_error, tail>>
minifyVars == <<out, written>>
vars == <<inputVars, answer, len, idx, scanner, indexVars, minifyVars>>

Streaming == {"streaming_partial", "streaming_final"}
Tasks     == {"regular", "minify", "validate"} \cup Streaming
Unread    == -1

(* STEP_SIZE is that of one block or two; the UTF-8 check reads one.        *)
Init == /\ text \in Seq(Byte)
        /\ task \in Tasks
        /\ step_size \in {Width, 2 * Width}
        /\ task = "validate" => step_size = Width
        /\ answer = Pending
        /\ len = Unread
        /\ idx = 0
        /\ scanner = [prev_in_string |-> {}, prev_escaped |-> {},
                      prev_scalar |-> {}]
        /\ checker = NewChecker
        /\ prev_structurals = {}
        /\ unescaped_chars_error = FALSE
        /\ tail = <<>>
        /\ out = <<>>
        /\ written = 0

-----------------------------------------------------------------------------
(* Masks. *)
EvenBits == {b \in Bits : b % 2 = 0}
ShiftLeft(m) == {b \in Bits : b - 1 \in m}
Mask(in, bytes) == {b \in Bits : in[b] \in bytes}
AllBits(p) == IF p THEN Bits ELSE {}
FirstBit(p) == IF p THEN {0} ELSE {}

(* A mask as a number: PowerOfTwo[b] is the value of bit b. *)
PowerOfTwo[b \in 0..Width] == IF b = 0 THEN 1 ELSE 2 * PowerOfTwo[b-1]
Number(m) ==
    LET low[b \in 0..Width] ==
          IF b = 0 THEN 0
          ELSE low[b-1] + (IF b-1 \in m THEN PowerOfTwo[b-1] ELSE 0)
    IN  low[Width]
BitsOf(n) == {b \in Bits : (n \div PowerOfTwo[b]) % 2 = 1}
prefix_xor(m) == {b \in Bits : Cardinality({c \in m : c <= b}) % 2 = 1}

(* Slip: no carry out of the block. *)
find_escaped_NoCarry(prev_escaped, backslash) ==
    LET backs == backslash \ prev_escaped
        follows_escape == ShiftLeft(backs) \cup prev_escaped
        odd_starts == (backs \ EvenBits) \ follows_escape
        sum == Number(odd_starts) + Number(backs)
        invert_mask == ShiftLeft(BitsOf(sum % PowerOfTwo[Width]))
    IN  [escaped |-> SymDiff(EvenBits, invert_mask) \cap follows_escape,
         overflow |-> {}]

(* find_escaped: the bytes behind an odd number of backslashes.  Adding the *)
(* starts of the runs that begin at an odd bit lets a carry run through     *)
(* them; the carry out of the block escapes the first byte of the next.     *)
find_escaped(prev_escaped, backslash) ==
    LET backs == backslash \ prev_escaped
        follows_escape == ShiftLeft(backs) \cup prev_escaped
        odd_starts == (backs \ EvenBits) \ follows_escape
        sum == Number(odd_starts) + Number(backs)
        invert_mask == ShiftLeft(BitsOf(sum % PowerOfTwo[Width]))
    IN  IF backslash = {}
        THEN [escaped |-> prev_escaped, overflow |-> {}]
        ELSE [escaped |-> SymDiff(EvenBits, invert_mask) \cap follows_escape,
              overflow |-> FirstBit(sum >= PowerOfTwo[Width])]

(* json_scanner::next, with the string scanner: what is in a block, and the *)
(* carries for the next.                                                    *)
ScannerNext(s, in) ==
    LET escapes == find_escaped(s.prev_escaped, Mask(in, {Backslash}))
        quote == Mask(in, {Quote}) \ escapes.escaped
        in_string == SymDiff(prefix_xor(quote), s.prev_in_string)
        whitespace == Mask(in, WhitespaceBytes)
        op == Mask(in, OperatorBytes \cup LikeOperators)
        scalar == Bits \ (op \cup whitespace)
        nonquote_scalar == scalar \ quote
        follows == ShiftLeft(nonquote_scalar) \cup s.prev_scalar
        string_tail == SymDiff(in_string, quote)
    IN  [structural_start |-> (op \cup (scalar \ follows)) \ string_tail,
         whitespace |-> whitespace \ in_string,
         in_string  |-> in_string,
         carry |-> [prev_in_string |-> AllBits(Width-1 \in in_string),
                    prev_escaped   |-> escapes.overflow,
                    prev_scalar    |-> FirstBit(Width-1 \in nonquote_scalar)]]

-----------------------------------------------------------------------------
(* buf_block_reader *)
lenminusstep == IF len < step_size THEN 0 ELSE len - step_size
has_full_block == idx < lenminusstep

(* The block at a position, filled up with spaces behind the text.          *)
Block(at) == [b \in Bits |-> IF at + b < len THEN At(text, at + b) ELSE Space]
SecondBlock == step_size = 2 * Width

-----------------------------------------------------------------------------
(* json_structural_indexer *)

(* The offsets of the bits of a mask, for a block at a position. *)
IndexesOf(m, at) ==
    LET upto[b \in 0..Width] ==
          IF b = 0 THEN <<>>
          ELSE upto[b-1] \o (IF b-1 \in m THEN <<at + b-1>> ELSE <<>>)
    IN  upto[Width]

(* next(): the indexes of the block before are written. *)
IndexBlock(st, in, block, at) ==
    [scanner    |-> block.carry,
     tail       |-> st.tail \o IndexesOf(st.structurals, at - Width),
     structurals |-> block.structural_start,
     unescaped  |-> st.unescaped
                    \/ Mask(in, 0..31) \cap block.in_string # {},
     checker    |-> check_next_input(st.checker, in)]

IndexerNext(st, at) ==
    IndexBlock(st, Block(at), ScannerNext(st.scanner, Block(at)), at)

(* Skip the last character if it is partial. *)
trim_partial_utf8(t) ==
    LET n == Len(t)
        Starts(k, lead) == n >= k /\ At(t, n - k) >= lead
    IN  IF Starts(1, 192) THEN n - 1
        ELSE IF Starts(2, 224) THEN n - 2
        ELSE IF Starts(3, 240) THEN n - 3
        ELSE n

NoIndexes(err) == [err |-> err, n |-> 0, idx |-> <<>>]

(* index(), up to the first block; the text is within the parser's capacity. *)
BeginIndex ==
    /\ task \in {"regular"} \cup Streaming
    /\ len = Unread
    /\ len' = IF task \in Streaming THEN trim_partial_utf8(text) ELSE Len(text)
    /\ answer' = IF text = <<>> THEN NoIndexes("EMPTY")
                 ELSE IF len' = 0 THEN NoIndexes("UTF8_ERROR")
                 ELSE Pending
    /\ UNCHANGED <<inputVars, idx, scanner, indexVars, minifyVars>>

(* step(): one block or two. *)
IndexBlocks ==
    LET Carried == [scanner |-> scanner, tail |-> tail,
                    structurals |-> prev_structurals,
                    unescaped |-> unescaped_chars_error, checker |-> checker]
    IN  \E first \in {IndexerNext(Carried, idx)} :
        \E st \in {IF SecondBlock THEN IndexerNext(first, idx + Width) ELSE first} :
          /\ scanner' = st.scanner
          /\ tail' = st.tail
          /\ prev_structurals' = st.structurals
          /\ unescaped_chars_error' = st.unescaped
          /\ checker' = st.checker
          /\ idx' = idx + step_size

IndexStep == /\ task \in {"regular"} \cup Streaming
             /\ answer = Pending
             /\ len # Unread
             /\ has_full_block
             /\ IndexBlocks
             /\ UNCHANGED <<inputVars, answer, len, minifyVars>>

(* finish(), with the indexes of the last block. *)
Finish(found, unclosed, unescaped, end) ==
    LET n        == Len(found)
        padded   == found \o <<len, len, 0>>
        kept     == IF unclosed THEN n - 1 ELSE n
        complete == FindNextDocumentIndex(Classes(text), padded, kept)
        final    == [padded EXCEPT ![complete + 2] = padded[complete + 1],
                                   ![complete + 1] = len]
        utf8     == IF end.error THEN "UTF8_ERROR" ELSE "SUCCESS"
        Leave(err, m, i) == [err |-> err, n |-> m, idx |-> i]
    IN  IF task = "regular" /\ unclosed THEN NoIndexes("UNCLOSED_STRING")
        ELSE IF unescaped THEN NoIndexes("UNESCAPED_CHARS")
        ELSE IF n = 0 THEN Leave("EMPTY", 0, padded)
        ELSE IF found[n] > len THEN Leave("UNEXPECTED_ERROR", n, padded)
        ELSE CASE task = "regular" -> Leave(utf8, n, padded)
               [] task = "streaming_final" ->
                    Leave(IF complete = 0 THEN "EMPTY" ELSE utf8, complete, final)
               [] task = "streaming_partial" ->
                    IF complete > 0 THEN Leave(utf8, complete, padded)
                    ELSE IF kept = 0 \/ padded[1] = 0
                    THEN Leave("CAPACITY", kept, padded)
                    ELSE Leave("EMPTY", 0, padded)

IndexLast == /\ task \in {"regular"} \cup Streaming
             /\ answer = Pending
             /\ len # Unread
             /\ ~has_full_block
             /\ IndexBlocks
             /\ answer' = Finish(tail' \o IndexesOf(prev_structurals', idx' - Width),
                                 scanner'.prev_in_string # {},
                                 unescaped_chars_error', check_eof(checker'))
             /\ UNCHANGED <<inputVars, len, minifyVars>>

-----------------------------------------------------------------------------
(* json_minifier *)

BeginMinify == /\ task \in {"minify", "validate"}
               /\ len = Unread
               /\ len' = Len(text)
               /\ UNCHANGED <<inputVars, answer, idx, scanner, indexVars,
                              minifyVars>>

(* compress(): the bytes of a block that stay. *)
Compress(in, whitespace) ==
    LET kept == IndexesOf(Bits \ whitespace, 0)
    IN  [k \in DOMAIN kept |-> in[kept[k]]]

(* step(): what one block or two leave, and how far they are written, since *)
(* compress() stores whole registers.                                       *)
Compressed(st, in, block) ==
    [out     |-> st.out \o Compress(in, block.whitespace),
     reach   |-> Len(st.out) + Width,
     scanner |-> block.carry]

MinifierNext(st, at) ==
    Compressed(st, Block(at), ScannerNext(st.scanner, Block(at)))

MinifyBlocks ==
    LET first == MinifierNext([out |-> <<>>, reach |-> 0, scanner |-> scanner], idx)
    IN  IF SecondBlock THEN MinifierNext(first, idx + Width) ELSE first

MinifyStep == /\ task = "minify"
              /\ answer = Pending
              /\ len # Unread
              /\ has_full_block
              /\ \E st \in {MinifyBlocks} :
                   /\ out' = out \o st.out
                   /\ written' = Max({written, Len(out) + st.reach})
                   /\ scanner' = st.scanner
              /\ idx' = idx + step_size
              /\ UNCHANGED <<inputVars, answer, len, indexVars>>

(* Slip: the last block is written where the text's output ends. *)
MinifyLast_Unguarded ==
              /\ task = "minify"
              /\ answer = Pending
              /\ len # Unread
              /\ ~has_full_block
              /\ \E st \in {MinifyBlocks} :
                   /\ out' = out \o SubSeq(st.out, 1, Min({Len(st.out), len - idx}))
                   /\ written' = Max({written, Len(out) + st.reach})
                   /\ scanner' = IF len = idx THEN scanner ELSE st.scanner
              /\ idx' = IF len = idx THEN idx ELSE idx + step_size
              /\ answer' = IF scanner'.prev_in_string # {}
                           THEN [err |-> "UNCLOSED_STRING", out |-> <<>>]
                           ELSE [err |-> "SUCCESS", out |-> out']
              /\ UNCHANGED <<inputVars, len, indexVars>>

(* The last block goes into a buffer of its own, since its padding may      *)
(* count as the contents of a string; no more is copied than was read.      *)
MinifyLast == /\ task = "minify"
              /\ answer = Pending
              /\ len # Unread
              /\ ~has_full_block
              /\ \E st \in {MinifyBlocks} :
                   LET to_write == Min({Len(st.out), len - idx})
                   IN  /\ out' = out \o SubSeq(st.out, 1, to_write)
                       /\ written' = Max({written, Len(out')})
                       /\ scanner' = IF len = idx THEN scanner ELSE st.scanner
              /\ idx' = IF len = idx THEN idx ELSE idx + step_size
              /\ answer' = IF scanner'.prev_in_string # {}
                           THEN [err |-> "UNCLOSED_STRING", out |-> <<>>]
                           ELSE [err |-> "SUCCESS", out |-> out']
              /\ UNCHANGED <<inputVars, len, indexVars>>

-----------------------------------------------------------------------------
(* generic_validate_utf8 *)

ValidateStep == /\ task = "validate"
                /\ answer = Pending
                /\ len # Unread
                /\ has_full_block
                /\ checker' = check_next_input(checker, Block(idx))
                /\ idx' = idx + step_size
                /\ UNCHANGED <<inputVars, answer, len, scanner, prev_structurals,
                               unescaped_chars_error, tail, minifyVars>>

ValidateLast == /\ task = "validate"
                /\ answer = Pending
                /\ len # Unread
                /\ ~has_full_block
                /\ checker' = check_next_input(checker, Block(idx))
                /\ idx' = idx + step_size
                /\ answer' = [valid |-> ~check_eof(checker').error]
                /\ UNCHANGED <<inputVars, len, scanner, prev_structurals,
                               unescaped_chars_error, tail, minifyVars>>

Next == \/ BeginIndex \/ IndexStep \/ IndexLast
        \/ BeginMinify \/ MinifyStep \/ MinifyLast
        \/ ValidateStep \/ ValidateLast

Spec == Init /\ [][Next]_vars

-----------------------------------------------------------------------------
Scans == task # "validate" /\ answer = Pending /\ len # Unread

(* At the start of a block the three carries say what the text before it    *)
(* says: whether its first byte is in a string, is escaped, or goes on with *)
(* an atom.                                                                 *)
CarriesDescribeText ==
    Scans =>
      LET c == Classes(text)
      IN  /\ scanner.prev_in_string = AllBits(StringTail(c, idx))
          /\ scanner.prev_escaped = FirstBit(idx \in EscapedBytes(text))
          /\ (idx = 0 \/ At(text, idx-1) \notin LikeOperators)
                => scanner.prev_scalar = FirstBit(FollowsScalar(c, idx))

(* The indexes written and those that wait for the next block are those of  *)
(* the text before the block, in order and none twice.                      *)
PrefixIndexed ==
    Scans /\ task # "minify" /\ ForeignBytes(text) = {} =>
      LET c == Classes(text)
      IN  tail \o IndexesOf(prev_structurals, idx - Width)
            = Structurals(Window(c, 0, idx))

(* The minifier's output has the size of its input, and is not written      *)
(* behind that, nor in front of what it still has to read.                  *)
OutputFits == task = "minify" => /\ written <= Len(text)
                                 /\ Len(out) <= idx

(* The answer of stage 1 to a whole document, with the order in which the   *)
(* errors are looked for; and to a window of a stream, where stage 1 is the *)
(* function that the model of streams uses.                                 *)
TheError(t) ==
    CASE UnclosedString(Classes(t)) -> "UNCLOSED_STRING"
      [] ~UnclosedString(Classes(t)) /\ ControlInString(t) -> "UNESCAPED_CHARS"
      [] OTHER -> IF Structurals(Classes(t)) = <<>> THEN "EMPTY"
                  ELSE IF ValidUtf8(t) THEN "SUCCESS" ELSE "UTF8_ERROR"

VectorStage1IsExact ==
    answer # Pending =>
      /\ task = "regular" => answer.err = TheError(text)
      /\ /\ task \in Streaming
         /\ text # <<>>
         /\ ~ControlInString(text)
         /\ ForeignBytes(text) = {}
         /\ len > 0 => ValidUtf8(SubSeq(text, 1, len))
         /\ Len(text) - len <= 1
         => LET r == Stage1(NewParser(0), Classes(text), 0, Len(text), task)
            IN  /\ answer.err = r.err
                /\ answer.err # "UTF8_ERROR" => /\ answer.n = r.parser.n
                                                /\ answer.idx = r.parser.idx
=============================================================================
