------------------------------ MODULE MCStrings -----------------------------
(***************************************************************************)
(* StringParsing on strings put together from characters and escapes of    *)
(* which it is known what they stand for.                                  *)
(***************************************************************************)
EXTENDS StringParsing

VARIABLE pieces

Hex(d) == <<92, 117>> \o d
Raw(bytes, point) == [bytes |-> bytes, unit |-> point, good |-> TRUE]
Bogus(bytes) == [bytes |-> bytes, unit |-> 0, good |-> FALSE]

(* Characters and escapes; the UTF-16 code unit or the code point of each *)
Pieces ==
    {Raw(<<97>>, 97), Raw(<<195, 169>>, 233),                          \* a, e with acute
     Raw(<<92, 110>>, 10), Raw(<<92, 34>>, 34), Raw(<<92, 92>>, 92),   \* \n \" \\
     Raw(Hex(<<48, 48, 52, 49>>), 65),                                 \* 0041
     Raw(Hex(<<48, 55, 70, 70>>), 2047), Raw(Hex(<<48, 56, 48, 48>>), 2048),
     Raw(Hex(<<68, 56, 48, 48>>), 55296), Raw(Hex(<<100, 98, 102, 102>>), 56319),
     Raw(Hex(<<68, 67, 48, 48>>), 56320), Raw(Hex(<<68, 70, 70, 70>>), 57343),
     Raw(Hex(<<69, 48, 48, 48>>), 57344), Raw(Hex(<<70, 70, 70, 70>>), 65535),
     Bogus(<<92, 120>>), Bogus(<<92, 85>>),                            \* \x \U
     Bogus(Hex(<<68, 56, 103, 48>>)), Bogus(Hex(<<68, 67, 48, 32>>))}
Cut == Bogus(Hex(<<68, 56>>))    \* the string ends in the middle of it

BehindQuote == <<34, 44, 34, 92, 117, 68, 67, 48, 48, 34>> \o [k \in 1..10 |-> 32]
Bytes(p) == FlattenSeq([k \in 1..Len(p) |-> p[k].bytes]) \o BehindQuote

Strings == UNION {[1..n -> Pieces] : n \in 0..3}
           \cup {Append(p, Cut) : p \in UNION {[1..n -> Pieces] : n \in 0..1}}

ASSUME StringsAreTexts == \A p \in Strings : Bytes(p) \in Texts

StringsInit == pieces \in Strings /\ text = Bytes(pieces) /\ Begin
StringsNext == \/ EndOfString /\ UNCHANGED pieces
               \/ Unescape /\ UNCHANGED pieces
               \/ BogusEscape /\ UNCHANGED pieces
               \/ Unicode /\ UNCHANGED pieces
               \/ BogusUnicode /\ UNCHANGED pieces
               \/ NextWindow /\ UNCHANGED pieces
-----------------------------------------------------------------------------
(* What the pieces stand for, by the rules of UTF-16 and UTF-8 *)

HighAt(k) == k \in 1..Len(pieces) /\ High(pieces[k].unit)
LowAt(k)  == k \in 1..Len(pieces) /\ Low(pieces[k].unit)
Paired(k) == HighAt(k) /\ LowAt(k + 1)

Point(k) ==
    CASE Paired(k) -> <<65536 + 1024 * (pieces[k].unit - 55296) + (pieces[k + 1].unit - 56320)>>
      [] Paired(k - 1) -> <<>>
      [] (HighAt(k) \/ LowAt(k)) /\ policy = "replacement" -> <<65533>>
      [] OTHER -> <<pieces[k].unit>>

Limits == <<128, 2048, 65536, 1114112>>
Leads  == <<0, 192, 224, 240>>
Utf8(c) ==
    LET n == CHOOSE n \in 1..4 : c < Limits[n] /\ (n > 1 => c >= Limits[n - 1])
    IN  [k \in 1..n |-> IF k = 1 THEN Leads[n] + c \div 64^(n - 1)
                                 ELSE 128 + ((c \div 64^(n - k)) % 64)]

WellFormed ==
    /\ \A k \in 1..Len(pieces) : pieces[k].good
    /\ policy = "strict" =>
         \A k \in 1..Len(pieces) : (HighAt(k) => Paired(k)) /\ (LowAt(k) => Paired(k - 1))
Decoded == FlattenSeq([k \in 1..Len(pieces) |->
             FlattenSeq([j \in 1..Len(Point(k)) |-> Utf8(Point(k)[j])])])

(* Every string comes out as the UTF-8 of its code points, surrogates       *)
(* paired, and the lone ones refused, replaced or kept as the policy says;  *)
(* and one with a bogus escape does not come out.  It makes no difference   *)
(* where the windows end, or what lies behind the closing quote.            *)
DecodesStrings ==
    /\ result = "end" => WellFormed /\ dst = Decoded
    /\ result = "error" => ~WellFormed
=============================================================================
