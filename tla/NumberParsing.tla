---------------------------- MODULE NumberParsing ---------------------------
(***************************************************************************)
(* numberparsing.h: from the characters of a number to an integer of 64    *)
(* bits or the operands of a floating-point number, and the getters of     *)
(* On-Demand that call it, at the root by way of a small buffer.  The base *)
(* and the sizes are constants in the relation in which 10, 2^63 and the   *)
(* 19 digits of the code stand.  A floating-point number is the exact      *)
(* value it is computed from, as far as it is neither too large nor too    *)
(* small: how it is rounded is not modelled.                               *)
(***************************************************************************)
EXTENDS Integers, SequencesExt

CONSTANTS Base,            \* 10
          Half,            \* 2^63
          SafeDigits,      \* 19, the digits that always fit an unsigned integer
          Top,             \* 10^19, the least number of one digit more
          smallest_power,  \* -342
          largest_power    \* 308

Word == 2 * Half
INT64_MAX == Half - 1

ASSUME NumberAssumption ==
    /\ Base \in Nat /\ Half \in Nat /\ SafeDigits \in Nat /\ Top \in Nat
    /\ Base >= 2 /\ Half >= 1
    /\ Half <= Top /\ Top <= Word /\ Word <= 2 * Top
    /\ 2 * Top - Word <= Half

ASSUME PowerAssumption ==
    /\ Base <= 10 /\ Top = Base^SafeDigits
    /\ smallest_power \in Int /\ largest_power \in Nat

Numerals == SubSeq(<<"0", "1", "2", "3", "4", "5", "6", "7", "8", "9">>, 1, Base)
Numeral  == ToSet(Numerals)
DigitOf  == [c \in Numeral |-> CHOOSE d \in 0..Base-1 : Numerals[d + 1] = c]
Ends     == {",", " "}    \* structural or whitespace

DigitsEnd(src, p) == SelectInSubSeq(src, p, Len(src), LAMBDA c : c \notin Numeral)

(* parse_digit() over some digits *)
parse_digits(src, from, to, i) ==
    FoldLeft(LAMBDA n, c : (Base * n + DigitOf[c]) % Word, i, SubSeq(src, from, to))

Sign(src, p) == IF src[p] = "-" THEN 1 ELSE 0
Signed(n) == ((n + Half) % Word) - Half    \* as an int64_t
-----------------------------------------------------------------------------
(* Exact values, and what the conversions make of them *)

Digitwise(src, from, to) ==
    FoldLeft(LAMBDA n, c : Base * n + DigitOf[c], 0, SubSeq(src, from, to))

Length(m) == CHOOSE n \in 0..20 : m < Base^n /\ (n = 0 \/ m >= Base^(n-1))
Zeros(m)  == CHOOSE n \in 0..20 : m % Base^n = 0 /\ m % Base^(n+1) # 0

Zero     == [finite |-> TRUE, mantissa |-> 0, power |-> 0]
Infinite == [finite |-> FALSE, mantissa |-> 1, power |-> 0]
Nearest(m, power) ==
    IF m = 0 \/ Length(m) + power < smallest_power + SafeDigits THEN Zero
    ELSE IF Length(m) + power > largest_power + 1 THEN Infinite
    ELSE [finite |-> TRUE, mantissa |-> m \div Base^Zeros(m), power |-> power + Zeros(m)]

Ok(type, v) == [error |-> "SUCCESS", type |-> type, value |-> v]
Error(why)  == [error |-> why, type |-> "none", value |-> 0]

Double(negative, v) ==
    IF v.finite THEN Ok("double", [negative |-> negative, magnitude |-> v])
                ELSE Error("NUMBER_ERROR")

(* from_chars(): the value of the longest number at src. *)
parse_float_fallback(src, p) ==
    LET start == p + Sign(src, p)
        point == DigitsEnd(src, start)
        stop  == IF src[point] = "." THEN DigitsEnd(src, point + 1) ELSE point
        m     == IF stop = point THEN Digitwise(src, start, point - 1)
                 ELSE Digitwise(SubSeq(src, start, point - 1) \o SubSeq(src, point + 1, stop - 1),
                                1, stop - 1 - start)
        e     == IF src[stop] = "e" THEN stop + 1 ELSE stop
        from  == IF src[e] \in {"+", "-"} THEN e + 1 ELSE e
        power == IF e = stop THEN 0
                 ELSE Digitwise(src, from, DigitsEnd(src, from) - 1)
    IN  Double(src[p] = "-",
               Nearest(m, (IF src[e] = "-" THEN -power ELSE power)
                            - (IF stop = point THEN 0 ELSE stop - point - 1)))

(* compute_float_64(), and the fallback if that gives up *)
Computed(src, p, negative, i, power) ==
    IF Nearest(i, power).finite THEN Double(negative, Nearest(i, power))
                                ELSE parse_float_fallback(src, p)
-----------------------------------------------------------------------------
(* parse_number(), which the DOM and get_number() use *)

significant_digits(src, start, digit_count) ==
    digit_count - (SelectInSubSeq(src, start, Len(src), LAMBDA c : c \notin {"0", "."}) - start)

(* Where the exponent ends and what it is, if it has digits. *)
parse_exponent(src, p) ==
    LET start == IF src[p] \in {"-", "+"} THEN p + 1 ELSE p
        end == DigitsEnd(src, start)
        first == SelectInSubSeq(src, start, Len(src), LAMBDA c : c # "0")
        number == IF end > start + SafeDigits - 1 /\ end > first + SafeDigits - 1
                  THEN Top \div Base - 1
                  ELSE Digitwise(src, start, end - 1)
    IN  [ok |-> end > start, end |-> end,
         exponent |-> IF src[p] = "-" THEN -number ELSE number]

write_float(src, negative, i, start, digit_count, exponent) ==
    CASE digit_count > SafeDigits /\ significant_digits(src, start, digit_count) > SafeDigits ->
           parse_float_fallback(src, 1)
      [] exponent < smallest_power \/ (exponent > largest_power /\ i = 0) ->
           Double(negative, Zero)
      [] exponent > largest_power -> Error("NUMBER_ERROR")
      [] OTHER -> Computed(src, 1, negative, i, exponent)

(* The check of an integer of SafeDigits + 1 digits, from its first digit   *)
(* and what is left of it.                                                  *)
(* Slip: what is left alone decides. *)
Overflown_Unled(first, i) == i <= INT64_MAX
Overflown(first, i) == first # 1 \/ i <= INT64_MAX

Integer(n) == IF n > INT64_MAX THEN Ok("unsigned", n) ELSE Ok("signed", n)

parse_number(src) ==
    LET negative == src[1] = "-"
        start == 1 + Sign(src, 1)
        point == DigitsEnd(src, start)
        whole == parse_digits(src, start, point - 1, 0)
        decimal == src[point] = "."
        end == IF decimal THEN DigitsEnd(src, point + 1) ELSE point
        i == IF decimal THEN parse_digits(src, point + 1, end - 1, whole) ELSE whole
        digit_count == end - start
        scientific == src[end] = "e"
        exp == IF scientific THEN parse_exponent(src, end + 1)
               ELSE [ok |-> TRUE, end |-> end, exponent |-> 0]
        fraction == IF decimal THEN end - point - 1 ELSE 0
        longest == IF negative THEN SafeDigits ELSE SafeDigits + 1
        too_big == \/ digit_count > longest
                   \/ digit_count = longest /\ negative /\ i > INT64_MAX + 1
                   \/ digit_count = longest /\ ~negative /\ Overflown(DigitOf[src[1]], i)
    IN  IF \/ point = start \/ (src[start] = "0" /\ point > start + 1)
           \/ decimal /\ end = point + 1
           \/ ~exp.ok
           \/ src[exp.end] \notin Ends
        THEN Error("NUMBER_ERROR")
        ELSE IF decimal \/ scientific
        THEN write_float(src, negative, i, start, digit_count, exp.exponent - fraction)
        ELSE IF too_big THEN Error("NUMBER_ERROR")
        ELSE IF negative THEN Ok("signed", Signed(Word - i)) ELSE Integer(i)
-----------------------------------------------------------------------------
(* The getters of On-Demand.  In a string the number ends with the quote.   *)

Finisher(c, quoted) ==
    IF quoted THEN IF c = "q" THEN "SUCCESS" ELSE "NUMBER_ERROR"
    ELSE CASE c \in Ends -> "SUCCESS"
           [] c \in {".", "e"} -> "INCORRECT_TYPE"
           [] OTHER -> "NUMBER_ERROR"

(* The refusals that unsigned and signed integers have in common *)
Digitless(src, start, end, longest, quoted) ==
    IF end = start \/ end - start > longest THEN "INCORRECT_TYPE"
    ELSE IF src[start] = "0" /\ end > start + 1 THEN "NUMBER_ERROR"
    ELSE Finisher(src[end], quoted)

Unsigned(src, start, quoted) ==
    LET end == DigitsEnd(src, start)
        i == parse_digits(src, start, end - 1, 0)
        why == Digitless(src, start, end, SafeDigits + 1, quoted)
    IN  IF why # "SUCCESS" THEN Error(why)
        ELSE IF end - start = SafeDigits + 1 /\ Overflown(DigitOf[src[start]], i)
        THEN Error("INCORRECT_TYPE")
        ELSE Ok("unsigned", i)
parse_unsigned(src)           == Unsigned(src, 1, FALSE)
parse_unsigned_in_string(src) == Unsigned(src, 2, TRUE)

SignedInteger(src, p, quoted) ==
    LET start == p + Sign(src, p)
        end == DigitsEnd(src, start)
        i == parse_digits(src, start, end - 1, 0)
        why == Digitless(src, start, end, SafeDigits, quoted)
    IN  IF why # "SUCCESS" THEN Error(why)
        ELSE IF i > INT64_MAX + Sign(src, p) THEN Error("INCORRECT_TYPE")
        ELSE Ok("signed", IF Sign(src, p) = 1 THEN Signed(Word - i) ELSE i)
parse_integer(src)           == SignedInteger(src, 1, FALSE)
parse_integer_in_string(src) == SignedInteger(src, 2, TRUE)

(* Whether the digits up to p may have overflown i.  Of a number below one  *)
(* the zeros behind the point are counted, which is what the code does.     *)
MayOverflow(src, start, point, p) ==
    IF src[point] # "." THEN p - start > SafeDigits
    ELSE /\ p - start - 1 > SafeDigits
         /\ src[start] = "0" =>
              SelectInSubSeq(src, start + 2, Len(src), LAMBDA c : c # "0") - start > SafeDigits

FloatingPoint(src, at, quoted) ==
    LET start == at + Sign(src, at)
        point == DigitsEnd(src, start)
        decimal == src[point] = "."
        p == IF decimal THEN DigitsEnd(src, point + 1) ELSE point
        whole == parse_digits(src, start, point - 1, 0)
        i == IF decimal THEN parse_digits(src, point + 1, p - 1, whole) ELSE whole
        scientific == src[p] = "e"
        from == IF scientific /\ src[p + 1] \in {"-", "+"} THEN p + 2 ELSE p + 1
        end == IF scientific THEN DigitsEnd(src, from) ELSE p
        exp == IF scientific THEN parse_digits(src, from, end - 1, 0) ELSE 0
        exponent == Signed((IF scientific /\ src[p + 1] = "-" THEN -exp ELSE exp)
                             - (IF decimal THEN p - point - 1 ELSE 0))
    IN  IF point = start THEN Error("INCORRECT_TYPE")
        ELSE IF \/ src[start] = "0" /\ point > start + 1
                \/ decimal /\ p = point + 1
                \/ scientific /\ (end = from \/ end - from > SafeDigits)
                \/ src[end] \notin IF quoted THEN {"q"} ELSE Ends
        THEN Error("NUMBER_ERROR")
        ELSE IF \/ MayOverflow(src, start, point, p)
                \/ exponent < smallest_power \/ exponent > largest_power
        THEN parse_float_fallback(src, at)
        ELSE Computed(src, at, Sign(src, at) = 1, i, exponent)
parse_double(src)           == FloatingPoint(src, 1, FALSE)
parse_double_in_string(src) == FloatingPoint(src, 2, TRUE)

is_integer(src) ==
    LET start == 1 + Sign(src, 1)
        end == DigitsEnd(src, start)
    IN  IF end = start THEN Error("NUMBER_ERROR") ELSE Ok("bool", src[end] \in Ends)

(* Slip: the first of the big integers is taken for a signed one. *)
IsBig_After(src, start, end) ==
    end - start > SafeDigits
      \/ (end - start = SafeDigits /\ Digitwise(src, start, end - 1) > Half)
(* Compared digit by digit with 9223372036854775808 *)
IsBig(src, start, end) ==
    end - start > SafeDigits
      \/ (end - start = SafeDigits /\ Digitwise(src, start, end - 1) >= Half)

get_number_type(src) ==
    LET start == 1 + Sign(src, 1)
        end == DigitsEnd(src, start)
    IN  IF end = start THEN Error("NUMBER_ERROR")
        ELSE Ok("type", IF src[end] \notin Ends THEN "double"
                        ELSE IF start = 1 /\ IsBig(src, start, end) THEN "unsigned"
                        ELSE "signed")
-----------------------------------------------------------------------------
(* copy_to_buffer(): what a getter at the root reads in place of the        *)
(* document, which is the number with the blanks behind it.                 *)
Buffer == SafeDigits + 2
Fits(src) == Buffer >= Len(src)
copy_to_buffer(src) ==
    SubSeq(src, 1, IF Len(src) > Buffer - 1 THEN Buffer - 1 ELSE Len(src)) \o <<" ">>

Root(src, parsed, too_long) == IF Fits(src) THEN parsed ELSE too_long

get_root_uint64(src) == Root(src, parse_unsigned(copy_to_buffer(src)), Error("NUMBER_ERROR"))
get_root_int64(src)  == Root(src, parse_integer(copy_to_buffer(src)), Error("NUMBER_ERROR"))
is_root_integer(src) == Root(src, is_integer(copy_to_buffer(src)), Ok("bool", FALSE))
get_root_uint64_in_string(src) == Root(src, parse_unsigned_in_string(copy_to_buffer(src)), Error("NUMBER_ERROR"))
get_root_int64_in_string(src)  == Root(src, parse_integer_in_string(copy_to_buffer(src)), Error("NUMBER_ERROR"))
=============================================================================
