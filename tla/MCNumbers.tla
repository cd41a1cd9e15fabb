------------------------------ MODULE MCNumbers -----------------------------
(***************************************************************************)
(* The getters of NumberParsing asked for texts that are put together from *)
(* their parts, so that what a text means is known without parsing it.     *)
(***************************************************************************)
EXTENDS NumberParsing

VARIABLES numeral, getter, answer
number_vars == <<numeral, getter, answer>>

Smallest == -4    \* for the cfg

Spell(n) == [k \in 1..Len(n) |-> Numerals[n[k] + 1]]
Numbers(digits, lengths) == UNION {[1..n -> digits] : n \in lengths}

(* The exponents with what they stand for, the malformed ones without *)
Exponents ==
    {[spelt |-> <<>>, powers |-> {0}], [spelt |-> <<"e", "0">>, powers |-> {0}],
     [spelt |-> <<"e", "+", "2">>, powers |-> {2}], [spelt |-> <<"e", "3">>, powers |-> {3}],
     [spelt |-> <<"e", "-", "1">>, powers |-> {-1}], [spelt |-> <<"e", "-", "4">>, powers |-> {-4}],
     [spelt |-> <<"e", "1", "3">>, powers |-> {Base + 3}],
     [spelt |-> <<"e", "-", "1", "3">>, powers |-> {-Base - 3}],
     [spelt |-> <<"e", "6", "6", "6">>, powers |-> {Top - 1}],
     [spelt |-> <<"e", "0", "0", "0", "1">>, powers |-> {1}],
     [spelt |-> <<"e", "-", "1", "0", "0", "0">>, powers |-> {-Top}],
     [spelt |-> <<"e">>, powers |-> {}], [spelt |-> <<"e", "-">>, powers |-> {}]}
Plain == [spelt |-> <<>>, powers |-> {0}]

Text(negative, whole, point, fraction, exponent, end, quoted) ==
    [negative |-> negative, whole |-> whole, point |-> point, fraction |-> fraction,
     exponent |-> exponent, end |-> end, quoted |-> quoted]

(* All integers up to one digit more than ever fits, with what may follow *)
Integers_ ==
    {Text(negative, n, FALSE, <<>>, Plain, end, quoted) :
        negative \in BOOLEAN, quoted \in BOOLEAN, end \in {",", "x", "q"},
        n \in {<<>>} \cup Numbers(0..Base-1, 1..SafeDigits+1) \cup Numbers({0, 1, 5}, {SafeDigits + 2})}
Decimals ==
    {Text(negative, n, TRUE, f, e, end, FALSE) :
        negative \in BOOLEAN, end \in {" ", "x"}, e \in Exponents,
        n \in {<<>>, <<0>>, <<0, 0>>, <<6>>, <<6, 1>>, <<1, 0, 0, 0>>},
        f \in {<<>>} \cup Numbers({0, 6}, 1..SafeDigits+1) \cup Numbers({0, 1}, {SafeDigits + 2})}
Scientific ==
    {Text(FALSE, n, FALSE, <<>>, e, end, end = "q") :
        end \in {" ", "q"}, e \in Exponents, n \in Numbers({0, 6}, 0..SafeDigits+2)}

Written(t) == (IF t.quoted THEN <<"q">> ELSE <<>>) \o (IF t.negative THEN <<"-">> ELSE <<>>)
                \o Spell(t.whole) \o (IF t.point THEN <<".">> ELSE <<>>) \o Spell(t.fraction)
                \o t.exponent.spelt \o <<t.end>>
-----------------------------------------------------------------------------
Ask(name, asked) ==
    /\ getter = "none"
    /\ getter' = name
    /\ answer' = asked
    /\ UNCHANGED numeral
AskNumber   == ~numeral.quoted /\ Ask("number", parse_number(Written(numeral)))
AskUnsigned == ~numeral.quoted /\ Ask("unsigned", parse_unsigned(Written(numeral)))
AskInteger  == ~numeral.quoted /\ Ask("integer", parse_integer(Written(numeral)))
AskDouble   == ~numeral.quoted /\ Ask("double", parse_double(Written(numeral)))
AskWhether  == ~numeral.quoted /\ Ask("is_integer", is_integer(Written(numeral)))
AskType     == ~numeral.quoted /\ Ask("type", get_number_type(Written(numeral)))
AskQuotedUnsigned == numeral.quoted /\ Ask("unsigned", parse_unsigned_in_string(Written(numeral)))
AskQuotedInteger  == numeral.quoted /\ Ask("integer", parse_integer_in_string(Written(numeral)))
AskQuotedDouble   == numeral.quoted /\ Ask("double", parse_double_in_string(Written(numeral)))

Unasked == getter = "none" /\ answer = Error("none")
NumbersInit == /\ numeral \in Integers_ \/ numeral \in Decimals \/ numeral \in Scientific
               /\ Unasked
NumbersNext == \/ AskNumber \/ AskUnsigned \/ AskInteger \/ AskDouble
               \/ AskQuotedUnsigned \/ AskQuotedInteger \/ AskQuotedDouble
               \/ AskWhether \/ AskType
NumbersSpec == NumbersInit /\ [][NumbersNext]_number_vars
-----------------------------------------------------------------------------
(* What the grammar of RFC 8259 and exact arithmetic say of the parts *)

Number(t) ==
    /\ t.whole # <<>> /\ (t.whole[1] = 0 => Len(t.whole) = 1)
    /\ t.point => t.fraction # <<>>
    /\ t.exponent.powers # {}
    /\ IF t.quoted THEN t.end = "q" ELSE t.end \in Ends
Whole(t) == ~t.point /\ t.exponent.spelt = <<>>
Mantissa(t) == FoldLeft(LAMBDA n, d : Base * n + d, 0, t.whole \o t.fraction)
Integral(t) == IF t.negative THEN -Mantissa(t) ELSE Mantissa(t)
Real(t) == Double(t.negative,
                  Nearest(Mantissa(t), (CHOOSE p \in t.exponent.powers : TRUE) - Len(t.fraction)))

IsUnsigned(t) == Number(t) /\ Whole(t) /\ ~t.negative /\ Integral(t) < Word
IsSigned(t)   == Number(t) /\ Whole(t) /\ Integral(t) \in -Half..INT64_MAX
TypeOf(t) == IF ~Whole(t) THEN "double" ELSE IF IsSigned(t) THEN "signed" ELSE "unsigned"

(* The value, or for a number of another type the error that says so, but   *)
(* for one in a string any error                                           *)
Wanted(right, value, t) ==
    IF right THEN answer = value
    ELSE /\ answer.error # "SUCCESS"
         /\ Number(t) /\ ~t.quoted => answer.error = "INCORRECT_TYPE"

(* The numbers below one of which parse_double() counts the wrong zeros,    *)
(* and those with an exponent too long for it.                             *)
Significant(t) == Len(t.fraction) + 1 - SelectInSeq(t.fraction, LAMBDA d : d # 0)
Miscounted(t) == t.whole = <<0>> /\ Significant(t) > SafeDigits
LongExponent(t) == Len(SelectSeq(t.exponent.spelt, LAMBDA c : c \in Numeral)) > SafeDigits

NumberIsExact(t) ==
    answer = IF ~Number(t) THEN Error("NUMBER_ERROR")
             ELSE IF ~Whole(t) THEN Real(t)
             ELSE IF IsSigned(t) THEN Ok("signed", Integral(t))
             ELSE IF IsUnsigned(t) THEN Ok("unsigned", Integral(t))
             ELSE Error("NUMBER_ERROR")

(* Every getter gives the exact value of the text, of the whole text, or    *)
(* refuses it; a number of another type or width is refused as such.  The   *)
(* integers are parsed with arithmetic that wraps and the overflow decided  *)
(* from what is left of it, numberparsing.h:604.  Of the two cases in which *)
(* parse_double() fails to, numbers_double shows the first.                 *)
NumbersAreExact ==
    CASE getter = "number"   -> NumberIsExact(numeral)
      [] getter = "unsigned" -> Wanted(IsUnsigned(numeral), Ok("unsigned", Integral(numeral)), numeral)
      [] getter = "integer"  -> Wanted(IsSigned(numeral), Ok("signed", Integral(numeral)), numeral)
      [] getter = "double" /\ ~Miscounted(numeral) /\ ~LongExponent(numeral) ->
           IF Number(numeral) THEN answer = Real(numeral) ELSE answer.error # "SUCCESS"
      [] OTHER -> TRUE

(* is_integer() and get_number_type(), which look at the characters with    *)
(* code of their own, say of a number what parse_number() makes of it; the  *)
(* type of an integer that no type holds is left open.                      *)
TypesAreExact ==
    Number(numeral) =>
      /\ getter = "is_integer" => answer = Ok("bool", Whole(numeral))
      /\ getter = "type" /\ (Whole(numeral) => IsSigned(numeral) \/ IsUnsigned(numeral)) =>
           answer = Ok("type", TypeOf(numeral))

(* parse_double() reads every number as the value nearest to it:            *)
(* doc/basics.md:1614.                                                      *)
DoubleIsExact ==
    getter = "double" /\ Number(numeral) /\ ~LongExponent(numeral) => answer = Real(numeral)
-----------------------------------------------------------------------------
(* The getters at the root, whose number ends with the document *)

RootTexts == {Text(negative, n, FALSE, <<>>, Plain, IF quoted THEN "q" ELSE " ", quoted) :
                negative \in BOOLEAN, quoted \in BOOLEAN, n \in Numbers({0, 1, 6}, 1..SafeDigits+2)}
Document  == IF numeral.quoted THEN Written(numeral) ELSE Front(Written(numeral))
RootInit  == numeral \in RootTexts /\ Unasked
RootUnsigned == ~numeral.quoted /\ Ask("unsigned", get_root_uint64(Document))
RootInteger  == ~numeral.quoted /\ Ask("integer", get_root_int64(Document))
RootWhether  == ~numeral.quoted /\ Ask("is_integer", is_root_integer(Document))
RootQuotedUnsigned == numeral.quoted /\ Ask("unsigned", get_root_uint64_in_string(Document))
RootQuotedInteger  == numeral.quoted /\ Ask("integer", get_root_int64_in_string(Document))
RootNext == \/ RootUnsigned \/ RootInteger \/ RootWhether
            \/ RootQuotedUnsigned \/ RootQuotedInteger
RootSpec == RootInit /\ [][RootNext]_number_vars

(* What a getter at the root answers is the number of the whole text: the   *)
(* buffer leaves out nothing but whitespace, json_iterator-inl.h:365.       *)
OnlyBlanksTruncated ==
    getter \in {"unsigned", "integer"} /\ answer.error = "SUCCESS" => answer.value = Integral(numeral)
=============================================================================
