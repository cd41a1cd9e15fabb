----------------------------- MODULE Utf8Checker -----------------------------
(***************************************************************************)
(* utf8_checker: UTF-8 checked a block at a time with three small tables   *)
(* over the nibbles of neighbouring bytes.  An entry is a set of flags; an *)
(* error is a flag that all three tables give, except that two             *)
(* continuations in a row are right where a character needs them.          *)
(*                                                                         *)
(* A block is a function from 0..Width-1 to bytes.                         *)
(***************************************************************************)
EXTENDS ByteText

CONSTANT Width  \* bytes in a block, 64

(* A whole character fits into a block, and a block ends at an odd bit.     *)
ASSUME WidthAssumption == Width \in Nat /\ Width >= 4 /\ Width % 2 = 0

Bits == 0..Width-1

(* The byte n positions in front of position b of a block.                  *)
Before(in, prev_input, b, n) == IF b >= n THEN in[b - n]
                                          ELSE prev_input[Width + b - n]

Carry == {"TOO_SHORT", "TOO_LONG", "TWO_CONTS"}

byte_1_high(nibble) ==
    CASE nibble \in 0..7  -> {"TOO_LONG"}
      [] nibble \in 8..11 -> {"TWO_CONTS"}
      [] nibble = 12      -> {"TOO_SHORT", "OVERLONG_2"}
      [] nibble = 13      -> {"TOO_SHORT"}
      [] nibble = 14      -> {"TOO_SHORT", "OVERLONG_3", "SURROGATE"}
      [] nibble = 15      -> {"TOO_SHORT", "TOO_LARGE", "4_BYTE"}

(* "4_BYTE" is the bit that TOO_LARGE_1000 and OVERLONG_4 share. *)
byte_1_low(nibble) ==
    Carry \cup
    CASE nibble = 0       -> {"OVERLONG_3", "OVERLONG_2", "4_BYTE"}
      [] nibble = 1       -> {"OVERLONG_2"}
      [] nibble \in 2..3  -> {}
      [] nibble = 4       -> {"TOO_LARGE"}
      [] nibble = 13      -> {"TOO_LARGE", "4_BYTE", "SURROGATE"}
      [] nibble \in (5..15) \ {13} -> {"TOO_LARGE", "4_BYTE"}

byte_2_high(nibble) ==
    CASE nibble \in (0..7) \cup (12..15) -> {"TOO_SHORT"}
      [] nibble = 8  -> {"TOO_LONG", "OVERLONG_2", "TWO_CONTS", "OVERLONG_3",
                         "4_BYTE"}
      [] nibble = 9  -> {"TOO_LONG", "OVERLONG_2", "TWO_CONTS", "OVERLONG_3",
                         "TOO_LARGE"}
      [] nibble \in 10..11 -> {"TOO_LONG", "OVERLONG_2", "TWO_CONTS",
                               "SURROGATE", "TOO_LARGE"}

check_special_cases(byte, prev1) == byte_1_high(prev1 \div 16)
                                      \cap byte_1_low(prev1 % 16)
                                      \cap byte_2_high(byte \div 16)

(* Slip: the third byte of a character of four is forgotten. *)
must_be_2_3_continuation_Three(prev2, prev3) == prev2 >= 224

must_be_2_3_continuation(prev2, prev3) == prev2 >= 224 \/ prev3 >= 240

(* check_utf8_bytes for a whole block. *)
BlockHasError(in, prev_input) ==
    \E b \in Bits :
      check_special_cases(in[b], Before(in, prev_input, b, 1)) #
        IF must_be_2_3_continuation(Before(in, prev_input, b, 2),
                                    Before(in, prev_input, b, 3))
        THEN {"TWO_CONTS"}
        ELSE {}

(* A character that the block's end cuts. *)
is_incomplete(in) == \/ in[Width-1] >= 192
                     \/ in[Width-2] >= 224
                     \/ in[Width-3] >= 240

is_ascii(in) == \A b \in Bits : in[b] < 128

NewChecker == [error            |-> FALSE,
               prev_input_block |-> [b \in Bits |-> 0],
               prev_incomplete  |-> FALSE]

(* Slip: an ASCII block is not held against the block before. *)
check_next_input_Fast(c, in) ==
    IF is_ascii(in) THEN c
    ELSE [error            |-> c.error \/ BlockHasError(in, c.prev_input_block),
          prev_input_block |-> in,
          prev_incomplete  |-> is_incomplete(in)]

(* A block of ASCII takes the fast path, and leaves the older block.        *)
check_next_input(c, in) ==
    IF is_ascii(in) THEN [c EXCEPT !.error = @ \/ c.prev_incomplete]
    ELSE [error            |-> c.error \/ BlockHasError(in, c.prev_input_block),
          prev_input_block |-> in,
          prev_incomplete  |-> is_incomplete(in)]

check_eof(c) == [c EXCEPT !.error = @ \/ c.prev_incomplete]
=============================================================================
