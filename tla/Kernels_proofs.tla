--------------------------- MODULE Kernels_proofs ---------------------------
(***************************************************************************)
(* Proofs about both kernels, for every text and every byte behind it:     *)
(* FallbackInv, the invariant of FallbackScanner, one step of the kernel   *)
(* at a time; and that the invariants of the two give them the answers     *)
(* that KernelContract promises.                                           *)
(***************************************************************************)
EXTENDS Kernels, BlockScanner_proofs

-----------------------------------------------------------------------------
(* The promise of all kernels speaks of the text with its own copy of the   *)
(* definitions of ByteText and StructuralIndex.                             *)
LEMMA PromiseReads ==
  /\ \A t, i : Promise!At(t, i) = At(t, i)
  /\ \A t : Promise!Classes(t) = Classes(t)
  /\ \A w : Promise!UnclosedString(w) = UnclosedString(w)
  /\ \A w : Promise!Structurals(w) = Structurals(w)
  /\ \A t : Promise!StringContents(t) = StringContents(t)
  /\ \A t : Promise!ControlInString(t) = ControlInString(t)
  /\ \A t : Promise!EscapedBytes(t) = EscapedBytes(t)
  /\ \A t : Promise!ForeignBytes(t) = ForeignBytes(t)
  /\ \A t : Promise!Oddities(t) = Oddities(t)
  /\ Promise!Space = Space /\ Promise!Backslash = Backslash
<1>1. \A t, i : Promise!At(t, i) = At(t, i)
  BY Zenon DEF Promise!At, At
<1>2. Promise!Space = Space /\ Promise!Backslash = Backslash
  BY Zenon DEF Promise!Space, Space, Promise!Backslash, Backslash
<1>3. \A w, i : Promise!StringTail(w, i) = StringTail(w, i)
  BY Zenon DEF Promise!StringTail, StringTail, Promise!QuotesBefore, QuotesBefore, Promise!At, At,
               Promise!Cardinality, Cardinality
<1>4. \A w : Promise!UnclosedString(w) = UnclosedString(w)
  BY <1>3, Zenon DEF Promise!UnclosedString, UnclosedString
<1>5. \A c : Promise!Scalar(c) = Scalar(c)
  BY Zenon DEF Promise!Scalar, Scalar, Promise!Operators, Operators, Promise!Blank, Blank
<1>6. \A w, i : Promise!FollowsScalar(w, i) = FollowsScalar(w, i)
  BY Zenon DEF Promise!FollowsScalar, FollowsScalar, Promise!At, At, Promise!Scalar, Scalar,
               Promise!Operators, Operators, Promise!Blank, Blank
<1>7. \A w : Promise!Structurals(w) = Structurals(w)
  BY Zenon DEF Promise!Structurals, Structurals, Promise!StructuralStart, StructuralStart,
               Promise!StringTail, StringTail, Promise!QuotesBefore, QuotesBefore,
               Promise!FollowsScalar, FollowsScalar, Promise!Scalar, Scalar,
               Promise!Operators, Operators, Promise!Blank, Blank, Promise!At, At,
               Promise!Cardinality, Cardinality
<1>8. \A t : Promise!Classes(t) = Classes(t)
  BY Zenon DEF Promise!Classes, Classes, Promise!EscapedBytes, EscapedBytes, Promise!At, At,
               Promise!Backslash, Backslash, Promise!Quote, Quote, Promise!Space, Space,
               Promise!WhitespaceBytes, WhitespaceBytes, Promise!Blank, Blank
<1>9. \A t : Promise!StringContents(t) = StringContents(t)
  <2> SUFFICES ASSUME NEW t
               PROVE  Promise!StringContents(t) = StringContents(t)
    BY Zenon
  <2> DEFINE p == Promise!Classes(t)  c == Classes(t)
  <2>1. p = c
    BY <1>8, Zenon
  <2>2. {i \in 0..Len(t)-1 : Promise!StringTail(p, i) /\ Promise!At(p, i) # "q"}
          = {i \in 0..Len(t)-1 : StringTail(c, i) /\ At(c, i) # "q"}
    <3> HIDE DEF p, c
    <3>1. QED
      BY <2>1, <1>1, <1>3
  <2>3. QED
    BY <2>2, Zenon DEF Promise!StringContents, StringContents
<1>10. \A t : Promise!ControlInString(t) = ControlInString(t)
  BY <1>9, Zenon DEF Promise!ControlInString, ControlInString, Promise!At, At, Promise!Space, Space
<1>11. \A t : Promise!ForeignBytes(t) = ForeignBytes(t) /\ Promise!GluedQuotes(t) = GluedQuotes(t)
  <2> SUFFICES ASSUME NEW t
               PROVE  Promise!ForeignBytes(t) = ForeignBytes(t)
                      /\ Promise!GluedQuotes(t) = GluedQuotes(t)
    BY Zenon
  <2> DEFINE p == Promise!Classes(t)  c == Classes(t)
  <2>1. p = c
    BY <1>8, Zenon
  <2>2. Promise!WhitespaceBytes = WhitespaceBytes
    BY Zenon DEF Promise!WhitespaceBytes, WhitespaceBytes, Promise!Space, Space
  <2>3. {i \in 0..Len(t)-1 : /\ ~Promise!StringTail(p, i)
                             /\ Promise!At(t, i) < Promise!Space
                             /\ Promise!At(t, i) \notin Promise!WhitespaceBytes}
         = {i \in 0..Len(t)-1 : /\ ~StringTail(c, i)
                                /\ At(t, i) < Space
                                /\ At(t, i) \notin WhitespaceBytes}
    <3> HIDE DEF p, c
    <3>1. QED
      BY <2>1, <2>2, <1>1, <1>2, <1>3
  <2>4. {i \in 1..Len(t)-1 : /\ Promise!At(p, i) = "q"
                             /\ ~Promise!StringTail(p, i)
                             /\ Promise!FollowsScalar(p, i)}
         = {i \in 1..Len(t)-1 : At(c, i) = "q" /\ ~StringTail(c, i) /\ FollowsScalar(c, i)}
    <3> HIDE DEF p, c
    <3>1. QED
      BY <2>1, <1>1, <1>3, <1>6
  <2>5. QED
    BY <2>3, <2>4, Zenon DEF Promise!ForeignBytes, ForeignBytes, Promise!GluedQuotes, GluedQuotes
<1>12. \A t : Promise!Oddities(t) = Oddities(t)
  BY <1>11, Zenon DEF Promise!Oddities, Oddities
<1>13. \A t : Promise!EscapedBytes(t) = EscapedBytes(t)
  BY Zenon DEF Promise!EscapedBytes, EscapedBytes, Promise!At, At, Promise!Backslash, Backslash
<1>14. QED
  BY <1>1, <1>2, <1>4, <1>7, <1>8, <1>9, <1>10, <1>11, <1>12, <1>13, Zenon

LEMMA PromiseComputes ==
  /\ \A t : Promise!Minified(t) = Minified(t)
  /\ \A t : Promise!ValidUtf8(t) = ValidUtf8(t)
  /\ \A t, i, n : Promise!Window(t, i, n) = Window(t, i, n)
  /\ \A s : Promise!Min(s) = Min(s)
  /\ \A s, t : Promise!IsPrefix(s, t) = IsPrefix(s, t)
  /\ \A o : Promise!NewParser(o) = NewParser(o)
  /\ \A o, t, i, n, mode : Promise!Stage1(o, t, i, n, mode) = Stage1(o, t, i, n, mode)
<1>1. \A t : Promise!Minified(t) = Minified(t)
  BY Zenon DEF Promise!Minified, Minified, Promise!Classes, Classes,
               Promise!EscapedBytes, EscapedBytes, Promise!At, At,
               Promise!Backslash, Backslash, Promise!Quote, Quote, Promise!Space, Space,
               Promise!WhitespaceBytes, WhitespaceBytes, Promise!Blank, Blank,
               Promise!StringTail, StringTail, Promise!QuotesBefore, QuotesBefore,
               Promise!Cardinality, Cardinality
<1>2. \A t : Promise!ValidUtf8(t) = ValidUtf8(t)
  BY Zenon DEF Promise!ValidUtf8, ValidUtf8, Promise!WellFormedCharacter, WellFormedCharacter,
               Promise!IsContinuation, IsContinuation, Promise!Min, Min
<1>3. /\ \A t, i, n : Promise!Window(t, i, n) = Window(t, i, n)
      /\ \A s : Promise!Min(s) = Min(s)
      /\ \A s, t : Promise!IsPrefix(s, t) = IsPrefix(s, t)
      /\ \A o : Promise!NewParser(o) = NewParser(o)
  BY Zenon DEF Promise!Window, Window, Promise!Min, Min, Promise!IsPrefix, IsPrefix,
               Promise!NewParser, NewParser, Promise!Indexed, Indexed
<1>4. \A t, i, n : Promise!Trimmed(t, i, n) = Trimmed(t, i, n)
  BY Zenon DEF Promise!Trimmed, Trimmed, Promise!At, At
<1>5. \A t, s, n : Promise!FindNextDocumentIndex(t, s, n) = FindNextDocumentIndex(t, s, n)
  <2> SUFFICES ASSUME NEW t, NEW s, NEW n
               PROVE  Promise!FindNextDocumentIndex(t, s, n) = FindNextDocumentIndex(t, s, n)
    BY Zenon
  <2> DEFINE Token(k) == At(t, s[k + 1])
             Boundary(k) == /\ Token(k) \notin {"}", "]", ":", ","}
                            /\ Token(k - 1) \notin {"{", "[", ":", ","}
             Pairs == {0} \cup {k \in 1..n-1 : Boundary(k)}
             Count(m, c) == Cardinality({k \in m..n-1 : Token(k) = c})
             CountP(m, c) == Promise!Cardinality({k \in m..n-1 : Token(k) = c})
             Search(m) == IF \/ n = 0
                             \/ Count(m, "[") = Count(m, "]") /\ Count(m, "{") = Count(m, "}")
                          THEN n ELSE m
             SearchP(m) == IF \/ n = 0
                              \/ CountP(m, "[") = CountP(m, "]")
                                   /\ CountP(m, "{") = CountP(m, "}")
                           THEN n ELSE m
  <2>1. \A m, c : CountP(m, c) = Count(m, c)
    BY Zenon DEF Promise!Cardinality, Cardinality
  <2>2. Promise!Max(Pairs) = Max(Pairs)
    BY Zenon DEF Promise!Max, Max
  <2>3. FindNextDocumentIndex(t, s, n) = Search(Max(Pairs))
    BY Zenon DEF FindNextDocumentIndex
  <2>4. Promise!FindNextDocumentIndex(t, s, n) = SearchP(Promise!Max(Pairs))
    BY Zenon DEF Promise!FindNextDocumentIndex, Promise!At, At
  <2> HIDE DEF Pairs, Count, CountP
  <2>5. \A m : SearchP(m) = Search(m)
    BY <2>1, Zenon
  <2> HIDE DEF Search, SearchP
  <2>6. QED
    BY <2>2, <2>3, <2>4, <2>5
<1>6. \A o, t, i, n, mode, f :
         Promise!FinishWindow(o, t, i, n, mode, f) = FinishWindow(o, t, i, n, mode, f)
  <2> SUFFICES ASSUME NEW o, NEW t, NEW i, NEW n, NEW mode, NEW f
               PROVE  Promise!FinishWindow(o, t, i, n, mode, f) = FinishWindow(o, t, i, n, mode, f)
    BY Zenon
  <2> DEFINE Padded(trim) == f \o <<trim, trim, 0>>
             Kept(u) == IF u THEN Len(f) - 1 ELSE Len(f)
             Leave(err, s, m) == [err |-> err, parser |-> Indexed(i, n, s, m)]
             Left(trim, u, m) ==
               LET padded == Padded(trim)
                   final == [padded EXCEPT ![m + 2] = padded[m + 1], ![m + 1] = trim]
               IN  CASE trim = 0 ->
                          [err |-> "UTF8_ERROR", parser |-> [o EXCEPT !.buf = i, !.len = n]]
                     [] trim > 0 /\ f = <<>> -> Leave("EMPTY", padded, 0)
                     [] f # <<>> /\ mode = "streaming_final" ->
                          Leave(IF m = 0 THEN "EMPTY" ELSE "SUCCESS", final, m)
                     [] f # <<>> /\ mode = "streaming_partial" ->
                          IF m > 0 THEN Leave("SUCCESS", padded, m)
                          ELSE IF Kept(u) = 0 \/ padded[1] = 0
                          THEN Leave("CAPACITY", padded, Kept(u))
                          ELSE Leave("EMPTY", padded, 0)
             r == Trimmed(t, i, n)
             w == Window(t, i, r)
             q == Promise!Trimmed(t, i, n)
             v == Promise!Window(t, i, q)
             m == FindNextDocumentIndex(w, Padded(r), Kept(UnclosedString(w)))
             k == Promise!FindNextDocumentIndex(v, Padded(q), Kept(Promise!UnclosedString(v)))
  <2>1. FinishWindow(o, t, i, n, mode, f) = Left(r, UnclosedString(w), m)
    BY Zenon DEF FinishWindow
  <2>2. Promise!FinishWindow(o, t, i, n, mode, f) = Left(q, Promise!UnclosedString(v), k)
    BY Zenon DEF Promise!FinishWindow, Promise!Indexed, Indexed
  <2>3. q = r
    BY <1>4, Zenon
  <2> HIDE DEF q, r, Left
  <2>4. v = w
    BY <2>3, <1>3, Zenon
  <2> HIDE DEF v, w
  <2>5. Promise!UnclosedString(v) = UnclosedString(w)
    BY <2>4, PromiseReads, Zenon
  <2> HIDE DEF Kept, Padded
  <2>6. k = m
    BY <2>3, <2>4, <2>5, <1>5, Zenon
  <2> HIDE DEF k, m
  <2>7. QED
    BY <2>1, <2>2, <2>3, <2>5, <2>6
<1>7. QED
  BY <1>1, <1>2, <1>3, <1>4, <1>6, PromiseReads, Zenon DEF Promise!Stage1, Stage1

(* A text in UTF-8 ends with a whole character.                             *)
LEMMA ValidIsWhole ==
  ASSUME NEW t \in Seq(Byte), ValidUtf8(t)
  PROVE  trim_partial_utf8(t) = Len(t)
<1> DEFINE n == Len(t)
           B == Line(t, n)
<1>0. n \in Nat /\ n \in 0..n
  OBVIOUS
<1>1. ~Cut(B, n)
  BY ValidIsGood, Zenon DEF Good
<1>2. B[n-1] < 192 /\ B[n-2] < 224 /\ B[n-3] < 240
  <2>1. B \in [Int -> Byte]
    BY <1>0, LineOfText
  <2> HIDE DEF B
  <2>2. B[n-1] \in Int /\ B[n-2] \in Int /\ B[n-3] \in Int
    <3>1. n-1 \in Int /\ n-2 \in Int /\ n-3 \in Int
      BY <1>0
    <3>2. \A j \in Int : B[j] \in Byte
      BY <2>1
    <3>3. B[n-1] \in Byte /\ B[n-2] \in Byte /\ B[n-3] \in Byte
      BY <3>1, <3>2, Zenon
    <3>4. \A x \in Byte : x \in Int
      BY DEF Byte
    <3>5. QED
      BY <3>3, <3>4, Zenon
  <2>3. ~(B[n-1] >= 192) /\ ~(B[n-2] >= 224) /\ ~(B[n-3] >= 240)
    BY <1>1, Zenon DEF Cut
  <2>4. QED
    BY <2>2, <2>3
<1>3. \A k \in 1..3 : n >= k => B[n-k] = At(t, n-k)
  <2>1. \A k \in 1..3 : n >= k => n-k \in 0..n-1
    BY <1>0
  <2>2. \A i \in 0..n-1 : B[i] = At(t, i)
    BY <1>0, LineOfText
  <2> HIDE DEF B
  <2>3. QED
    BY <2>1, <2>2
<1>4. (n >= 1 => B[n-1] = At(t, n-1)) /\ (n >= 2 => B[n-2] = At(t, n-2))
      /\ (n >= 3 => B[n-3] = At(t, n-3))
  <2> HIDE DEF B
  <2>1. QED
    BY <1>3
<1> HIDE DEF B
<1>5. ~(n >= 1 /\ At(t, n-1) >= 192) /\ ~(n >= 2 /\ At(t, n-2) >= 224)
      /\ ~(n >= 3 /\ At(t, n-3) >= 240)
  <2>1. /\ n >= 1 => At(t, n-1) < 192
        /\ n >= 2 => At(t, n-2) < 224
        /\ n >= 3 => At(t, n-3) < 240
    BY <1>2, <1>4
  <2>2. \A i \in 0..n-1 : At(t, i) \in Int
    <3>1. ASSUME NEW i \in 0..n-1
          PROVE  At(t, i) \in Byte
      BY ClassOfByte, Zenon
    <3>2. \A x \in Byte : x \in Int
      BY DEF Byte
    <3>3. QED
      BY <3>1, <3>2, Zenon
  <2>3. (n >= 1 => n-1 \in 0..n-1) /\ (n >= 2 => n-2 \in 0..n-1) /\ (n >= 3 => n-3 \in 0..n-1)
    BY <1>0
  <2>4. /\ n >= 1 => At(t, n-1) \in Int
        /\ n >= 2 => At(t, n-2) \in Int
        /\ n >= 3 => At(t, n-3) \in Int
    BY <2>2, <2>3
  <2>5. QED
    BY <2>1, <2>4
<1>6. QED
  BY <1>5, <1>0, Zenon DEF trim_partial_utf8

(* Spaces behind a text do not mend it, nor do they spoil it.               *)
LEMMA SpacesBehind ==
  ASSUME NEW t \in Seq(Byte), NEW k \in Nat
  PROVE  ValidUtf8(t \o [j \in 1..k |-> Space]) <=> ValidUtf8(t)
<1> DEFINE n == Len(t)
           s == [j \in 1..k |-> Space]
           u == t \o s
<1>0. n \in Nat /\ n \in 0..n /\ n+k \in Nat /\ n <= n+k
  OBVIOUS
<1>1. s \in Seq(Byte) /\ Len(s) = k
  <2>1. Space \in Byte
    BY DEF Space, Byte
  <2> HIDE DEF Space
  <2>2. s \in [1..k -> Byte] /\ DOMAIN s = 1..k
    BY <2>1
  <2> HIDE DEF s
  <2>3. s \in Seq(Byte)
    BY <2>2
  <2>4. QED
    BY <2>2, <2>3
<1>2. /\ u \in Seq(Byte) /\ Len(u) = n+k
      /\ \A i \in 1..n : u[i] = t[i]
      /\ \A i \in 1..k : u[n+i] = Space
  <2>1. \A i \in 1..k : s[i] = Space
    OBVIOUS
  <2> HIDE DEF s
  <2>2. /\ u \in Seq(Byte) /\ Len(u) = Len(t) + Len(s)
        /\ \A i \in 1..Len(t)+Len(s) : u[i] = IF i <= Len(t) THEN t[i] ELSE s[i-Len(t)]
    BY <1>1, ConcatProperties, Zenon
  <2> HIDE DEF u
  <2>3. \A i \in 1..k : n+i \in 1..n+k /\ ~(n+i <= n) /\ (n+i)-n = i
    BY <1>0
  <2>4. \A i \in 1..n : i \in 1..n+k /\ i <= n
    BY <1>0
  <2>5. QED
    BY <1>1, <2>1, <2>2, <2>3, <2>4, Zenon
<1> HIDE DEF u
<1>3. \A i \in Int : Line(u, n+k)[i] = Line(t, n)[i]
  <2> SUFFICES ASSUME NEW i \in Int
               PROVE  Line(u, n+k)[i] = Line(t, n)[i]
    OBVIOUS
  <2>1. CASE i < 0
    BY <2>1 DEF Line
  <2>2. CASE i >= 0 /\ i < n
    <3>1. i + 1 \in 1..n /\ i < n+k
      BY <2>2, <1>0
    <3>2. u[i+1] = t[i+1]
      BY <3>1, <1>2
    <3>3. QED
      BY <2>2, <3>1, <3>2 DEF Line, ByteAt, At
  <2>3. CASE i >= n /\ i < n+k
    <3>1. (i+1) - n \in 1..k /\ n + ((i+1) - n) = i+1 /\ ~(i < n) /\ ~(i < 0)
      BY <2>3, <1>0
    <3>2. u[i+1] = Space
      BY <3>1, <1>2, Zenon
    <3>3. QED
      BY <2>3, <3>1, <3>2 DEF Line, ByteAt, At
  <2>4. CASE i >= n+k
    <3>1. ~(i < n+k) /\ ~(i < n) /\ ~(i < 0)
      BY <2>4, <1>0
    <3>2. QED
      BY <3>1 DEF Line, ByteAt
  <2>5. QED
    BY <2>1, <2>2, <2>3, <2>4, <1>0
<1>4. Line(u, n+k) = Line(t, n)
  <2>1. Line(u, n+k) = [i \in Int |-> Line(u, n+k)[i]] /\ Line(t, n) = [i \in Int |-> Line(t, n)[i]]
    BY Zenon DEF Line
  <2>2. QED
    BY <2>1, <1>3, Zenon
<1>5. ValidUtf8(u) <=> Good(Line(t, n), 0, n+k)
  BY <1>2, <1>4, ValidIsGood
<1>6. Good(Line(t, n), 0, n+k) <=> Good(Line(t, n), 0, n)
  BY <1>0, GoodBeyond
<1>7. QED
  BY <1>5, <1>6, ValidIsGood DEF u

(* The least of the places where stage 2 finds that a text is no JSON.      *)
LEMMA FirstOddity ==
  ASSUME NEW t \in Seq(Byte), Oddities(t) # {}
  PROVE  /\ Min(Oddities(t)) \in Oddities(t)
         /\ Min(Oddities(t)) \in 0..Len(t)-1
         /\ \A j \in Oddities(t) : Min(Oddities(t)) <= j
<1>0. Len(t) \in Nat
  OBVIOUS
<1>1. \A j \in Oddities(t) : j \in 0..Len(t)-1
  BY <1>0 DEF Oddities, GluedQuotes, ForeignBytes
<1>2. Oddities(t) \in SUBSET Nat
  <2>1. \A j \in 0..Len(t)-1 : j \in Nat
    BY <1>0
  <2>2. QED
    BY <1>1, <2>1, Zenon
<1>3. \E x \in Oddities(t) : \A y \in Oddities(t) : x <= y
  BY <1>2, Smallest, Zenon
<1>4. Min(Oddities(t)) \in Oddities(t) /\ \A j \in Oddities(t) : Min(Oddities(t)) <= j
  BY <1>3, Zenon DEF Min
<1>5. QED
  BY <1>1, <1>4, Zenon

LEMMA WholeClasses ==
  ASSUME NEW t \in Seq(Byte)
  PROVE  Window(Classes(t), 0, Len(t)) = Classes(t)
<1> DEFINE c == Classes(t)
           n == Len(t)
           S == {c[k] : k \in 1..n}
<1>1. n \in Nat /\ c = [k \in 1..n |-> c[k]]
  BY DEF Classes
<1> HIDE DEF c
<1>2. c \in [1..n -> S]
  BY <1>1
<1> HIDE DEF S
<1>3. c \in Seq(S) /\ Len(c) = n
  BY <1>1, <1>2, SeqByIndex
<1>4. SubSeq(c, 1, Len(c)) = c
  BY <1>3, SubSeqFull
<1>5. 0 + 1 = 1 /\ 0 + n = n
  BY <1>1
<1>6. QED
  BY <1>3, <1>4, <1>5, Zenon DEF Window, c

(* What may fail is for all kernels what it is for the text's own terms.    *)
EscapedIn(t) == StringContents(t) \cap EscapedBytes(t)
CharacterEscaped(t) == \E i \in EscapedIn(t) : At(t, i) >= 128
MustFail(t) == \/ UnclosedString(Classes(t))
               \/ Structurals(Classes(t)) = <<>>
               \/ \E i \in StringContents(t) \ EscapedIn(t) : At(t, i) < Space
MayFail(t) == \/ MustFail(t) \/ ControlInString(t)
              \/ ~ValidUtf8(t) \/ CharacterEscaped(t)

LEMMA PromiseFails ==
  /\ \A t : Promise!EscapedCharacter(t) = CharacterEscaped(t)
  /\ \A t : Promise!MustFail(t) = MustFail(t)
  /\ \A t : Promise!MayFail(t) = MayFail(t)
<1>1. \A t : Promise!Escaped(t) = EscapedIn(t)
  BY PromiseReads, Zenon DEF Promise!Escaped, EscapedIn
<1>2. \A t : Promise!EscapedCharacter(t) = CharacterEscaped(t)
  BY <1>1, PromiseReads, Zenon DEF Promise!EscapedCharacter, CharacterEscaped
<1>3. \A t : Promise!MustFail(t) = MustFail(t)
  BY <1>1, PromiseReads, Zenon DEF Promise!MustFail, MustFail
<1>4. \A t : Promise!MayFail(t) = MayFail(t)
  BY <1>2, <1>3, PromiseReads, PromiseComputes, Zenon DEF Promise!MayFail, MayFail
<1>5. QED
  BY <1>2, <1>3, <1>4

(* The exact answer is one that is promised.                                *)
LEMMA ExactDocument ==
  ASSUME NEW t \in Seq(Byte), Classification, NEW a, a.err = TheError(t),
         a.err = "SUCCESS" =>
           \E s : Lists(s, Starts(t, Len(t), Len(t))) /\ a.idx = s \o <<Len(t), Len(t), 0>>
  PROVE  Promise!WholeDocument(t, a)
<1> DEFINE n == Len(t)
           c == Classes(t)
           Must == MustFail(t)
           May == MayFail(t)
<1>0. n \in Nat /\ n \in 0..n /\ 0 <= n
  OBVIOUS
<1>1. Promise!MustFail(t) = Must
  BY PromiseFails
<1>2. Promise!MayFail(t) = May
  BY PromiseFails
<1>3. Must => TheError(t) # "SUCCESS"
  <2>1. CASE UnclosedString(c)
    BY <2>1, Zenon DEF TheError
  <2>2. CASE ~UnclosedString(c) /\ ControlInString(t)
    BY <2>2, Zenon DEF TheError
  <2>3. CASE ~UnclosedString(c) /\ ~ControlInString(t)
    <3>1. ~(\E i \in StringContents(t) \ EscapedIn(t) : At(t, i) < Space)
      BY <2>3, Zenon DEF ControlInString
    <3>2. TheError(t) = IF Structurals(c) = <<>> THEN "EMPTY"
                        ELSE IF ValidUtf8(t) THEN "SUCCESS" ELSE "UTF8_ERROR"
      BY <2>3, Zenon DEF TheError
    <3>3. Must => Structurals(c) = <<>>
      BY <2>3, <3>1, Zenon DEF MustFail
    <3> HIDE DEF Must
    <3>4. QED
      BY <3>2, <3>3
  <2>4. QED
    BY <2>1, <2>2, <2>3
<1>4. ~May => TheError(t) = "SUCCESS"
  <2> SUFFICES ASSUME ~May
               PROVE  TheError(t) = "SUCCESS"
    OBVIOUS
  <2>1. ~UnclosedString(c) /\ ~ControlInString(t) /\ Structurals(c) # <<>> /\ ValidUtf8(t)
    BY Zenon DEF MayFail, MustFail
  <2>2. QED
    BY <2>1, Zenon DEF TheError
<1>5. Oddities(t) = {} => \A j \in ForeignBytes(t) : n <= j
  BY DEF Oddities
<1>6. ~May /\ Oddities(t) = {} => a.idx = Promise!WithSentinels(Promise!Structurals(c), n)
  <2> SUFFICES ASSUME ~May, Oddities(t) = {}
               PROVE  a.idx = Promise!WithSentinels(Promise!Structurals(c), n)
    BY Zenon
  <2>1. a.err = "SUCCESS"
    BY <1>4
  <2>2. PICK s : Lists(s, Starts(t, n, n)) /\ a.idx = s \o <<n, n, 0>>
    BY <2>1, Zenon
  <2>3. s = Structurals(Window(c, 0, n))
    BY <2>2, <1>0, <1>5, IndexesOfWindow, Zenon
  <2>4. s = Structurals(c)
    BY <2>3, WholeClasses
  <2>5. QED
    BY <2>2, <2>4, PromiseReads, Zenon DEF Promise!WithSentinels
<1>7. a.err = "SUCCESS" /\ Oddities(t) # {} =>
        IsPrefix(Structurals(Window(c, 0, Min(Oddities(t)))), a.idx)
  <2> SUFFICES ASSUME a.err = "SUCCESS", Oddities(t) # {}
               PROVE  IsPrefix(Structurals(Window(c, 0, Min(Oddities(t)))), a.idx)
    OBVIOUS
  <2> DEFINE i == Min(Oddities(t))
             r == Structurals(Window(c, 0, i))
             more == <<n, n, 0>>
  <2>1. PICK s : Lists(s, Starts(t, n, n)) /\ a.idx = s \o more
    BY Zenon
  <2>2. i \in 0..n-1 /\ \A j \in Oddities(t) : i <= j
    BY FirstOddity, Zenon
  <2> HIDE DEF i
  <2>3. i \in 0..n /\ i \in Nat /\ \A j \in ForeignBytes(t) : i <= j
    BY <2>2, <1>0 DEF Oddities
  <2>4. Lists(r, Starts(t, n, i))
    BY <2>3, <1>0, WindowLists
  <2>5. Below(Starts(t, n, i), Starts(t, n, n), i)
    <3>1. \A j \in Int : j \in 0..i-1 <=> j \in 0..n-1 /\ j < i
      BY <2>2, <1>0
    <3>2. QED
      BY <3>1, <1>0 DEF Starts, Below
  <2>6. Starts(t, n, n) \in SUBSET Nat /\ more \in Seq(Nat)
    BY <1>0 DEF Starts
  <2> HIDE DEF r, more
  <2>8. IsPrefix(r, s \o more)
    <3>1. Begins(r, s)
      BY <2>1, <2>3, <2>4, <2>5, <2>6, ListsBegin, Zenon
    <3>2. s \in Seq(Nat) /\ r \in Seq(Nat)
      BY <2>1, <2>4, Zenon DEF Lists
    <3>3. QED
      BY <3>1, <3>2, <2>6, ListsPrefix, Zenon
  <2>9. QED
    BY <2>1, <2>8 DEF r, i
<1>8. /\ Promise!Oddities(t) = Oddities(t) /\ Promise!Classes(t) = c
      /\ \A s : Promise!Structurals(s) = Structurals(s)
      /\ \A s, x, y : Promise!Window(s, x, y) = Window(s, x, y)
      /\ \A s : Promise!Min(s) = Min(s)
      /\ \A s, u : Promise!IsPrefix(s, u) = IsPrefix(s, u)
  BY PromiseReads, PromiseComputes, Zenon
<1> HIDE DEF Must, May, c, n
<1>9. Promise!WholeDocument(t, a) <=>
        /\ Must /\ Oddities(t) = {} => a.err # "SUCCESS"
        /\ ~May /\ Oddities(t) = {} =>
             /\ a.err = "SUCCESS"
             /\ a.idx = Promise!WithSentinels(Promise!Structurals(c), n)
        /\ a.err = "SUCCESS" /\ Oddities(t) # {} =>
             IsPrefix(Structurals(Window(c, 0, Min(Oddities(t)))), a.idx)
  BY <1>1, <1>2, <1>8, Zenon DEF Promise!WholeDocument, n
<1>10. QED
  BY <1>3, <1>4, <1>6, <1>7, <1>9, Zenon

-----------------------------------------------------------------------------
(* A window in UTF-8 with spaces behind it is clean: nothing of it is cut   *)
(* off.                                                                     *)
LEMMA WindowInUtf8 ==
  ASSUME text \in Seq(Byte), behind = Space, Promise!WindowOfStream(text)
  PROVE  ValidUtf8(text) /\ trim_partial_utf8(text) = Len(text)
<1>1. PICK n \in 0..3 : Promise!ValidUtf8(text \o [k \in 1..n |-> behind])
  <2> DEFINE M == IF task = "streaming_partial" THEN 0..3 ELSE {0}
  <2>1. \E n \in M : Promise!ValidUtf8(text \o [k \in 1..n |-> behind])
    BY Zenon DEF Promise!WindowOfStream
  <2>2. \A n \in M : n \in 0..3
    OBVIOUS
  <2> HIDE DEF M
  <2>3. QED
    BY <2>1, <2>2, Zenon
<1>2. n \in Nat /\ ValidUtf8(text \o [k \in 1..n |-> Space])
  <2>1. Promise!ValidUtf8(text \o [k \in 1..n |-> Space])
    BY <1>1, Zenon
  <2>2. ValidUtf8(text \o [k \in 1..n |-> Space])
    BY <2>1, PromiseComputes, Zenon
  <2>3. QED
    BY <2>2, <1>1
<1>3. ValidUtf8(text)
  BY <1>2, SpacesBehind
<1>4. QED
  BY <1>3, ValidIsWhole

LEMMA VectorFulfils ==
  ASSUME VectorInv, answer # Pending, behind = Space, Classification
  PROVE  Promise!Fulfils(text, answer)
<1>1. /\ text \in Seq(Byte) /\ task \in Tasks /\ Answered
      /\ len = IF task \in Streaming THEN trim_partial_utf8(text) ELSE Len(text)
  BY Zenon DEF VectorInv, KernelInv, Asked, Begun, Fresh
<1>2. Tasks = {"regular", "minify", "validate", "streaming_partial", "streaming_final"}
      /\ Streaming = {"streaming_partial", "streaming_final"}
      /\ Promise!Streaming = Streaming
  BY DEF Tasks, Streaming, Promise!Streaming
<1>3. CASE task = "regular"
  <2>1. len = Len(text)
    BY <1>1, <1>2, <1>3
  <2>2. /\ answer.err = TheError(text)
        /\ answer.err = "SUCCESS" =>
             \E s : Lists(s, Starts(text, Len(text), Len(text)))
                      /\ answer.idx = s \o <<Len(text), Len(text), 0>>
    BY <1>1, <1>3, <2>1, Zenon DEF Answered, DocumentAnswer
  <2>3. Promise!WholeDocument(text, answer)
    BY <2>2, <1>1, ExactDocument, Zenon
  <2>4. task \notin Promise!Streaming /\ task # "minify" /\ task # "validate"
    BY <1>2, <1>3
  <2>5. QED
    BY <2>3, <2>4, <1>3, Zenon DEF Promise!Fulfils
<1>4. CASE task \in Streaming
  <2>1. task # "regular" /\ task # "minify" /\ task # "validate" /\ task \in Promise!Streaming
    BY <1>2, <1>4
  <2>2. SUFFICES Promise!Batch(text, task, answer)
    BY <2>1, Zenon DEF Promise!Fulfils
  <2> DEFINE p == Promise!Window1(text, task)
             r == Stage1(NewParser(0), Classes(text), 0, Len(text), task)
  <2>3. p = r
    BY PromiseReads, PromiseComputes, Zenon DEF Promise!Window1
  <2>4. SUFFICES ASSUME Promise!WindowOfStream(text), ~ControlInString(text),
                        Oddities(text) = {}, text # <<>>
                 PROVE  answer.err = r.err /\ answer.n = r.parser.n /\ answer.idx = r.parser.idx
    BY <2>3, PromiseReads, Zenon DEF Promise!Batch
  <2>5. ValidUtf8(text) /\ len = Len(text)
    BY <2>4, <1>1, <1>4, WindowInUtf8
  <2>6. len > 0 /\ Len(text) - len <= 1 /\ SubSeq(text, 1, len) = text
    <3>1. Len(text) \in Nat /\ Len(text) # 0
      BY <1>1, <2>4
    <3>2. SubSeq(text, 1, Len(text)) = text
      BY <1>1, SubSeqFull
    <3>3. len > 0 /\ Len(text) - len <= 1
      BY <3>1, <2>5
    <3>4. QED
      BY <3>2, <3>3, <2>5
  <2>7. ForeignBytes(text) = {}
    BY <2>4, Zenon DEF Oddities
  <2>8. CleanWindow
    BY <2>4, <2>5, <2>6, <2>7, <1>4, Zenon DEF CleanWindow
  <2>9. QED
    BY <2>6, <2>8, <1>1, Zenon DEF Answered, StreamAnswer
<1>5. CASE task = "minify"
  <2>1. task # "regular" /\ task \notin Promise!Streaming /\ task # "validate"
    BY <1>2, <1>5
  <2>2. Promise!Minifies(text, answer)
    <3>1. MinifyAnswer
      BY <1>1 DEF Answered
    <3>2. QED
      BY <3>1, <1>5, PromiseReads, PromiseComputes, Zenon DEF MinifyAnswer, Promise!Minifies
  <2>3. QED
    BY <2>1, <2>2, <1>5, Zenon DEF Promise!Fulfils
<1>6. CASE task = "validate"
  <2>1. task # "regular" /\ task \notin Promise!Streaming /\ task # "minify"
    BY <1>2, <1>6
  <2>2. answer.valid = Promise!ValidUtf8(text)
    BY <1>1, <1>6, PromiseComputes, Zenon DEF Answered, ValidateAnswer
  <2>3. QED
    BY <2>1, <2>2, <1>6, Zenon DEF Promise!Fulfils
<1>7. QED
  BY <1>1, <1>2, <1>3, <1>4, <1>5, <1>6

-----------------------------------------------------------------------------
(* The fallback kernel.  It has its own copy of the definitions, too.       *)
LEMMA FallbackReads ==
  /\ Fallback!len = Len(text)
  /\ \A i : Fallback!Buf(i) = IF i < Len(text) THEN At(text, i) ELSE behind
  /\ Fallback!Quote = Quote /\ Fallback!Backslash = Backslash
  /\ Fallback!WhitespaceBytes = WhitespaceBytes
  /\ Fallback!OperatorBytes = OperatorBytes
  /\ Fallback!Streaming = Streaming
  /\ \A b : Fallback!IsContinuation(b) <=> b \in 128..191
  BY Zenon DEF Fallback!len, Fallback!Buf, Fallback!At, At, Fallback!Quote, Quote,
               Fallback!Backslash, Backslash, Fallback!WhitespaceBytes, WhitespaceBytes,
               Fallback!Space, Space, Fallback!OperatorBytes, OperatorBytes,
               Fallback!Streaming, Streaming, Fallback!IsContinuation

(* The minifier byte by byte: quote says whether the next byte is in a      *)
(* string, nonescape that it is not escaped, and out has what is kept of    *)
(* the bytes before.                                                        *)
FallbackMinified ==
    task = "minify" =>
      /\ idx <= Len(text)
      /\ out \in Seq(Byte) /\ Len(out) <= idx
      /\ quote \in BOOLEAN /\ nonescape \in BOOLEAN
      /\ quote <=> StrAt(text, Len(text), idx)
      /\ nonescape <=> ~EscAt(text, Len(text), idx)
      /\ Picks(out, text, Len(text), KeptIn(text, Len(text), 0, idx))
      /\ answer # Pending => MinifyAnswer

LEMMA FallbackMinifyByte ==
  ASSUME text \in Seq(Byte), idx \in Nat, FallbackMinified, Fallback!MinifyByte
  PROVE  FallbackMinified' /\ idx' \in Nat
<1> DEFINE n == Len(text)
           c == At(text, idx)
           kept == c \notin WhitespaceBytes \/ quote'
           one == IF kept THEN <<c>> ELSE <<>>
<1>0. n \in Nat /\ n \in 0..n /\ idx < n /\ idx \in 0..n-1 /\ idx + 1 \in Nat
      /\ task = "minify" /\ answer = Pending
  BY FallbackReads DEF Fallback!MinifyByte
<1>1. /\ out \in Seq(Byte) /\ Len(out) <= idx
      /\ quote \in BOOLEAN /\ nonescape \in BOOLEAN
      /\ quote <=> StrAt(text, n, idx)
      /\ nonescape <=> ~EscAt(text, n, idx)
      /\ Picks(out, text, n, KeptIn(text, n, 0, idx))
  BY <1>0 DEF FallbackMinified
<1>2. /\ quote' = ((c = Quote /\ nonescape) # quote)
      /\ out' = IF kept THEN Append(out, c) ELSE out
      /\ nonescape' = (~nonescape \/ c # Backslash)
      /\ idx' = idx + 1
      /\ UNCHANGED <<text, task, answer>>
  <2>1. Fallback!Buf(idx) = c
    BY <1>0, FallbackReads
  <2>2. QED
    BY <2>1, FallbackReads, Zenon DEF Fallback!MinifyByte, Fallback!inputVars
<1>3. c \in Byte /\ ByteAt(text, n, idx) = c
  <2>1. c \in Byte
    BY <1>0, ClassOfByte
  <2>2. QED
    BY <2>1, <1>0 DEF ByteAt
<1>4. /\ EscAt(text, n, idx+1) <=> c = Backslash /\ ~EscAt(text, n, idx)
      /\ StrAt(text, n, idx+1) <=> ~(StrAt(text, n, idx) <=> (c = Quote /\ ~EscAt(text, n, idx)))
  <2>1. /\ EscAt(text, n, idx+1) <=> ByteAt(text, n, idx) = Backslash /\ ~EscAt(text, n, idx)
        /\ StrAt(text, n, idx+1) <=> ~(StrAt(text, n, idx) <=> QuoteAt(text, n, idx))
    BY <1>0, OffsetRules, Zenon
  <2>2. QED
    BY <2>1, <1>3, Zenon DEF QuoteAt
<1>5. /\ quote' \in BOOLEAN /\ nonescape' \in BOOLEAN
      /\ quote' <=> StrAt(text, n, idx+1)
      /\ nonescape' <=> ~EscAt(text, n, idx+1)
  <2>1. (~nonescape \/ c # Backslash) \in BOOLEAN /\ ((c = Quote /\ nonescape) # quote) \in BOOLEAN
    BY Zenon
  <2>2. quote' \in BOOLEAN /\ nonescape' \in BOOLEAN
    BY <2>1, <1>2, Zenon
  <2>3. nonescape' <=> ~EscAt(text, n, idx+1)
    BY <1>1, <1>2, <1>4, Zenon
  <2>4. quote' <=> ~((c = Quote /\ nonescape) <=> quote)
    BY <1>1, <1>2, Zenon
  <2>5. QED
    BY <2>2, <2>3, <2>4, <1>1, <1>4, Zenon
<1>6. KeptIn(text, n, idx, idx+1) = IF kept THEN {idx} ELSE {}
  <2>1. idx..(idx+1)-1 = {idx}
    BY <1>0
  <2>2. KeptIn(text, n, idx, idx+1)
          = {x \in {idx} : ByteAt(text, n, x) \in WhitespaceBytes => StrAt(text, n, x+1)}
    BY <2>1, Zenon DEF KeptIn
  <2>3. kept <=> (ByteAt(text, n, idx) \in WhitespaceBytes => StrAt(text, n, idx+1))
    BY <1>3, <1>5, Zenon
  <2> HIDE DEF kept
  <2>4. QED
    BY <2>2, <2>3, Zenon
<1>7. Picks(one, text, n, KeptIn(text, n, idx, idx+1))
  <2>1. Picks(<<c>>, text, n, {idx}) /\ Picks(<<>>, text, n, {})
    <3>1. Picks(<<ByteAt(text, n, idx)>>, text, n, {idx})
      BY <1>0, PicksOne
    <3>2. QED
      BY <3>1, <1>3, PicksNone
  <2> HIDE DEF kept
  <2>2. QED
    BY <2>1, <1>6
<1>8. out \o one = IF kept THEN Append(out, c) ELSE out
  <2> HIDE DEF kept
  <2>1. out \o <<c>> = Append(out, c) /\ out \o <<>> = out
    BY <1>1, <1>3
  <2>2. QED
    BY <2>1, Zenon
<1>9. out' \in Seq(Byte) /\ Len(out') <= idx + 1
  <2>1. Append(out, c) \in Seq(Byte) /\ Len(Append(out, c)) = Len(out) + 1 /\ Len(out) \in Nat
    BY <1>1, <1>3
  <2> HIDE DEF kept, c
  <2>2. QED
    BY <2>1, <1>0, <1>1, <1>2
<1>10. Picks(out', text, n, KeptIn(text, n, 0, idx+1))
  <2> DEFINE j == idx + 1
  <2>0. 0 \in Nat /\ j \in Nat /\ 0 <= idx /\ idx <= j
    BY <1>0
  <2> HIDE DEF j
  <2>1. /\ KeptIn(text, n, 0, idx) \in SUBSET Nat /\ KeptIn(text, n, idx, j) \in SUBSET Nat
        /\ \A x \in KeptIn(text, n, 0, idx), y \in KeptIn(text, n, idx, j) : x < y
        /\ KeptIn(text, n, 0, idx) \cup KeptIn(text, n, idx, j) = KeptIn(text, n, 0, j)
    BY <2>0, KeptInJoins
  <2> USE DEF j
  <2> HIDE DEF one
  <2>2. Picks(out \o one, text, n, KeptIn(text, n, 0, idx) \cup KeptIn(text, n, idx, idx+1))
    BY <2>1, <1>1, <1>7, PicksConcat
  <2>3. QED
    BY <2>1, <2>2, <1>2, <1>8, Zenon
<1>11. idx + 1 <= n
  BY <1>0
<1>12. QED
  BY <1>0, <1>2, <1>5, <1>9, <1>10, <1>11, Zenon DEF FallbackMinified

LEMMA FallbackMinifyEnd ==
  ASSUME text \in Seq(Byte), idx \in Nat, FallbackMinified, Fallback!MinifyEnd
  PROVE  FallbackMinified' /\ idx' \in Nat
<1> DEFINE n == Len(text)
<1>0. n \in Nat /\ n \in 0..n /\ idx = n /\ task = "minify" /\ answer = Pending
  BY FallbackReads DEF Fallback!MinifyEnd
<1>1. /\ answer' = [err |-> IF quote THEN "UNCLOSED_STRING" ELSE "SUCCESS", out |-> out]
      /\ UNCHANGED <<text, task, idx, quote, nonescape, out>>
  BY Zenon DEF Fallback!MinifyEnd, Fallback!inputVars, Fallback!minifyVars
<1>2. /\ quote \in BOOLEAN /\ quote <=> StrAt(text, n, n)
      /\ Picks(out, text, n, KeptIn(text, n, 0, n))
  BY <1>0 DEF FallbackMinified
<1>3. quote <=> UnclosedString(Classes(text))
  <2>1. Len(Classes(text)) = n
    BY ClassesAreASequence
  <2>2. n <= n
    BY <1>0
  <2>3. QED
    BY <2>1, <2>2, <1>2, Zenon DEF StrAt, UnclosedString
<1>4. out = Minified(text)
  <2>1. KeptIn(text, n, 0, n) \in SUBSET Nat
    BY <1>0, KeptInJoins
  <2>2. Picks(Minified(text), text, n, KeptIn(text, n, 0, n))
    BY MinifiedPicks
  <2>3. QED
    BY <2>1, <2>2, <1>2, PicksUnique
<1>5. MinifyAnswer'
  <2>1. answer'.err = (IF quote THEN "UNCLOSED_STRING" ELSE "SUCCESS") /\ answer'.out = out
    BY <1>1
  <2>2. QED
    BY <2>1, <1>1, <1>3, <1>4, Zenon DEF MinifyAnswer
<1>6. QED
  BY <1>0, <1>1, <1>5, Zenon DEF FallbackMinified

(* ASCII in front of a place that no character of several bytes runs into.  *)
LEMMA AsciiRun ==
  ASSUME NEW B \in [Int -> Byte], NEW i \in Nat, NEW m \in Nat, i <= m,
         \A j \in i..m-1 : B[j] < 128, ~Cut(B, i)
  PROVE  ~Cut(B, m) /\ \A j \in i..m-1 : ~Misplaced(B, j)
<1> DEFINE T == {j \in i..m : Cut(B, j)}
<1>1. T = {}
  <2>1. SUFFICES ASSUME T # {}
                 PROVE  FALSE
    OBVIOUS
  <2>2. T \in SUBSET Nat
    OBVIOUS
  <2>3. PICK j \in T : \A y \in T : j <= y
    <3> HIDE DEF T
    <3>1. QED
      BY <2>1, <2>2, Smallest
  <2>4. j \in i..m /\ Cut(B, j)
    BY <2>3
  <2>5. j # i
    BY <2>4
  <2>6. j-1 \in i..m-1 /\ j-1 \in i..m /\ (j-1)+1 = j /\ ~(j <= j-1) /\ j-1 \in Int
    BY <2>4, <2>5
  <2>7. j-1 \notin T
    <3> HIDE DEF T
    <3>1. QED
      BY <2>3, <2>6
  <2>8. ~Cut(B, j-1)
    BY <2>6, <2>7
  <2>9. Cut(B, (j-1)+1) => Cut(B, j-1)
    BY <2>6, AsciiPlace
  <2>10. QED
    BY <2>4, <2>6, <2>8, <2>9
<1>2. \A j \in i..m : ~Cut(B, j)
  BY <1>1
<1> HIDE DEF T
<1>3. ASSUME NEW j \in i..m-1
      PROVE  ~Misplaced(B, j)
  <2>1. j \in Int /\ j \in i..m /\ B[j] < 128
    OBVIOUS
  <2>2. Misplaced(B, j) <=> Cut(B, j)
    BY <2>1, AsciiPlace
  <2>3. QED
    BY <2>1, <2>2, <1>2
<1>4. m \in i..m
  OBVIOUS
<1>5. QED
  BY <1>2, <1>3, <1>4

(* The second bytes, as bounds.                                             *)
LEMMA Seconds ==
  ASSUME NEW b \in Int, NEW x \in 128..191
  PROVE  /\ b = 224 => (x \in SecondRange(b) <=> 160 <= x)
         /\ b = 237 => (x \in SecondRange(b) <=> x <= 159)
         /\ b = 240 => (x \in SecondRange(b) <=> 144 <= x)
         /\ b = 244 => (x \in SecondRange(b) <=> x <= 143)
         /\ 194 <= b /\ b <= 243 /\ b \notin {224, 237, 240} => x \in SecondRange(b)
<1>1. CASE b = 224
  <2>1. SecondRange(b) = 160..191
    BY <1>1 DEF SecondRange
  <2>2. QED
    BY <2>1, <1>1
<1>2. CASE b = 237
  <2>1. SecondRange(b) = 128..159
    BY <1>2 DEF SecondRange
  <2>2. QED
    BY <2>1, <1>2
<1>3. CASE b = 240
  <2>1. SecondRange(b) = 144..191
    BY <1>3 DEF SecondRange
  <2>2. QED
    BY <2>1, <1>3
<1>4. CASE b = 244
  <2>1. SecondRange(b) = 128..143
    BY <1>4 DEF SecondRange
  <2>2. QED
    BY <2>1, <1>4
<1>5. CASE 194 <= b /\ b <= 243 /\ b \notin {224, 237, 240}
  <2>1. SecondRange(b) = 128..191
    BY <1>5 DEF SecondRange
  <2>2. QED
    BY <2>1, <1>5
<1>6. CASE b \notin {224, 237, 240, 244} /\ ~(194 <= b /\ b <= 243)
  BY <1>6
<1>7. QED
  BY <1>1, <1>2, <1>3, <1>4, <1>5, <1>6

(* The code points of the characters of two, three and four bytes.          *)
PointOfTwo(b, x) == (b % 32) * 64 + (x % 64)
PointOfThree(b, x, y) == (b % 16) * 4096 + (x % 64) * 64 + (y % 64)
PointOfFour(b, x, y, z) == (b % 8) * 262144 + (x % 64) * 4096 + (y % 64) * 64 + (z % 64)

LEMMA CodePointOfTwo ==
  ASSUME NEW b \in 192..223, NEW x \in 128..191
  PROVE  Fallback!InRange(2, PointOfTwo(b, x)) <=> b \in 194..223 /\ x \in SecondRange(b)
<1> DEFINE p == PointOfTwo(b, x)
<1>1. b % 32 = b - 192 /\ x % 64 = x - 128
  OBVIOUS
<1>2. p = (b - 192) * 64 + (x - 128)
  BY <1>1 DEF PointOfTwo
<1>3. Fallback!InRange(2, p) <=> p >= 128 /\ p <= 2047
  BY DEF Fallback!InRange
<1> HIDE DEF p
<1>4. p >= 128 /\ p <= 2047 <=> 194 <= b
  BY <1>2
<1>5. 194 <= b => x \in SecondRange(b)
  BY Seconds
<1>6. 194 <= b <=> b \in 194..223
  OBVIOUS
<1>7. Fallback!InRange(2, p) <=> b \in 194..223 /\ x \in SecondRange(b)
  BY <1>3, <1>4, <1>5, <1>6
<1>8. QED
  BY <1>7, Zenon DEF p

LEMMA CodePointOfThree ==
  ASSUME NEW b \in 224..239, NEW x \in 128..191, NEW y \in 128..191
  PROVE  Fallback!InRange(3, PointOfThree(b, x, y)) <=> x \in SecondRange(b)
<1> DEFINE p == PointOfThree(b, x, y)
<1>1. b % 16 = b - 224 /\ x % 64 = x - 128 /\ y % 64 = y - 128
  OBVIOUS
<1>2. p = (b - 224) * 4096 + (x - 128) * 64 + (y - 128)
  BY <1>1 DEF PointOfThree
<1>3. Fallback!InRange(3, p) <=> /\ p >= 2048 /\ p <= 65535
                                 /\ p <= 55295 \/ p >= 57344
  BY DEF Fallback!InRange
<1> HIDE DEF p
<1>4. /\ p <= 65535
      /\ p >= 2048 <=> ~(b = 224 /\ x < 160)
      /\ p <= 55295 \/ p >= 57344 <=> ~(b = 237 /\ 160 <= x)
  BY <1>2
<1>5. x \in SecondRange(b) <=> ~(b = 224 /\ x < 160) /\ ~(b = 237 /\ 160 <= x)
  <2>1. b \in Int /\ b \notin {240, 244} /\ 194 <= b /\ b <= 243 /\ x \in Int
    OBVIOUS
  <2>2. CASE b = 224
    BY <2>1, <2>2, Seconds
  <2>3. CASE b = 237
    BY <2>1, <2>3, Seconds
  <2>4. CASE b \notin {224, 237}
    BY <2>1, <2>4, Seconds
  <2>5. QED
    BY <2>2, <2>3, <2>4
<1>6. Fallback!InRange(3, p) <=> x \in SecondRange(b)
  BY <1>3, <1>4, <1>5
<1>7. QED
  BY <1>6, Zenon DEF p

LEMMA CodePointOfFour ==
  ASSUME NEW b \in 240..247, NEW x \in 128..191, NEW y \in 128..191, NEW z \in 128..191
  PROVE  Fallback!InRange(4, PointOfFour(b, x, y, z)) <=> b \in 240..244 /\ x \in SecondRange(b)
<1> DEFINE p == PointOfFour(b, x, y, z)
<1>1. b % 8 = b - 240 /\ x % 64 = x - 128 /\ y % 64 = y - 128 /\ z % 64 = z - 128
  OBVIOUS
<1>2. p = (b - 240) * 262144 + (x - 128) * 4096 + (y - 128) * 64 + (z - 128)
  BY <1>1 DEF PointOfFour
<1>3. Fallback!InRange(4, p) <=> p >= 65536 /\ p <= 1114111
  BY DEF Fallback!InRange
<1> HIDE DEF p
<1>4. /\ p >= 65536 <=> ~(b = 240 /\ x < 144)
      /\ p <= 1114111 <=> b <= 244 /\ ~(b = 244 /\ 144 <= x)
  BY <1>2
<1>5. b <= 244 => (x \in SecondRange(b) <=> ~(b = 240 /\ x < 144) /\ ~(b = 244 /\ 144 <= x))
  <2>1. b \in Int /\ 240 <= b /\ x \in Int
    OBVIOUS
  <2>2. CASE b = 240
    BY <2>1, <2>2, Seconds
  <2>3. CASE b = 244
    BY <2>1, <2>3, Seconds
  <2>4. CASE b > 244
    BY <2>4
  <2>5. CASE b \notin {240, 244} /\ b <= 244
    <3>1. 194 <= b /\ b <= 243 /\ b \notin {224, 237, 240}
      BY <2>1, <2>5
    <3>2. x \in SecondRange(b)
      BY <2>1, <3>1, Seconds
    <3>3. QED
      BY <3>2, <2>5
  <2>6. QED
    BY <2>1, <2>2, <2>3, <2>4, <2>5
<1>6. b <= 244 <=> b \in 240..244
  OBVIOUS
<1>7. Fallback!InRange(4, p) <=> b \in 240..244 /\ x \in SecondRange(b)
  BY <1>3, <1>4, <1>5, <1>6
<1>8. QED
  BY <1>7, Zenon DEF p

LEMMA SecondsAreContinuations ==
  ASSUME NEW b \in Byte
  PROVE  SecondRange(b) \subseteq 128..191 \/ b < 192
<1>1. b \in Int /\ b <= 255
  BY DEF Byte
<1>2. CASE b < 194
  <2>1. CASE b \in {192, 193}
    <3>1. SecondRange(b) = {}
      BY <2>1 DEF SecondRange
    <3>2. QED
      BY <3>1
  <2>2. QED
    BY <2>1, <1>1, <1>2
<1>3. CASE 194 <= b /\ b <= 244
  <2>1. SecondRange(b) \in {160..191, 128..159, 144..191, 128..143, 128..191}
    BY <1>1, <1>3 DEF SecondRange
  <2>2. QED
    BY <2>1
<1>4. CASE 245 <= b
  <2>1. SecondRange(b) = {}
    BY <1>1, <1>4 DEF SecondRange
  <2>2. QED
    BY <2>1
<1>5. QED
  BY <1>1, <1>2, <1>3, <1>4

(* A character of k bytes that the fallback's check takes at its position.  *)
Taken(k) == /\ idx + k <= Len(text)
            /\ \A j \in 1..k-1 : Fallback!IsContinuation(Fallback!Buf(idx + j))
            /\ Fallback!InRange(k, Fallback!CodePoint(k))

LEMMA TakenFits ==
  ASSUME text \in Seq(Byte), idx \in Nat, idx < Len(text),
         NEW B, B = Line(text, Len(text)), B[idx] >= 128
  PROVE  /\ B[idx] \in 192..223 => (Taken(2) <=> idx + 2 <= Len(text) /\ Fits(B, idx, 2))
         /\ B[idx] \in 224..239 => (Taken(3) <=> idx + 3 <= Len(text) /\ Fits(B, idx, 3))
         /\ B[idx] \in 240..247 => (Taken(4) <=> idx + 4 <= Len(text) /\ Fits(B, idx, 4))
         /\ \A k \in 1..4 : Fits(B, idx, k) => \/ k = 2 /\ B[idx] \in 192..223
                                               \/ k = 3 /\ B[idx] \in 224..239
                                               \/ k = 4 /\ B[idx] \in 240..247
<1> DEFINE n == Len(text)
           b == B[idx]
           x == B[idx+1]
           y == B[idx+2]
           z == B[idx+3]
<1>0. n \in Nat /\ n \in 0..n
  OBVIOUS
<1>1. B \in [Int -> Byte] /\ \A i \in 0..n-1 : Fallback!Buf(i) = B[i]
  <2>1. Line(text, n) \in [Int -> Byte] /\ \A i \in 0..n-1 : Line(text, n)[i] = At(text, i)
    BY <1>0, LineOfText
  <2>2. \A i \in 0..n-1 : Fallback!Buf(i) = At(text, i)
    BY <1>0, FallbackReads
  <2>3. QED
    BY <2>1, <2>2
<1>2. b \in Byte /\ x \in Byte /\ y \in Byte /\ z \in Byte
  BY <1>1
<1>3. /\ Fallback!Buf(idx) = b
      /\ idx + 2 <= n => Fallback!Buf(idx+1) = x
      /\ idx + 3 <= n => Fallback!Buf(idx+1) = x /\ Fallback!Buf(idx+2) = y
      /\ idx + 4 <= n => /\ Fallback!Buf(idx+1) = x /\ Fallback!Buf(idx+2) = y
                         /\ Fallback!Buf(idx+3) = z
  BY <1>0, <1>1
<1>4. \A v : Fallback!IsContinuation(v) <=> v \in 128..191
  BY FallbackReads
<1>5. b < 192 \/ SecondRange(b) \subseteq 128..191
  BY <1>2, SecondsAreContinuations, Zenon
<1>14. b >= 128
  OBVIOUS
<1> HIDE DEF n, b, x, y, z
<1>6. b \in Int /\ b <= 255 /\ b >= 128
  BY <1>2, <1>14 DEF Byte
<1>7. ASSUME b \in 192..223, idx + 2 <= n
      PROVE  Taken(2) <=> Fits(B, idx, 2)
  <2> DEFINE X == x \in 128..191
             S == x \in SecondRange(b)
             I == Fallback!InRange(2, PointOfTwo(b, x))
             R == b \in 194..223
  <2>1. Fallback!Buf(idx) = b /\ Fallback!Buf(idx+1) = x
    BY <1>3, <1>7
  <2>2. Fallback!CodePoint(2) = PointOfTwo(b, x)
    BY <2>1 DEF Fallback!CodePoint, PointOfTwo
  <2>3. X => (I <=> R /\ S)
    BY <1>7, CodePointOfTwo, Zenon
  <2>4. (\A j \in 1..2-1 : Fallback!IsContinuation(Fallback!Buf(idx + j))) <=> X
    <3>1. \A j : j \in 1..2-1 <=> j = 1
      OBVIOUS
    <3>2. QED
      BY <3>1, <2>1, <1>4, Zenon
  <2>5. Taken(2) <=> X /\ I
    BY <2>2, <2>4, <1>7, Zenon DEF Taken, n
  <2>6. Fits(B, idx, 2) <=> R /\ S
    BY DEF Fits, b, x
  <2>7. S => X
    <3>1. ~(b < 192)
      BY <1>7
    <3>2. QED
      BY <3>1, <1>5, Zenon
  <2> HIDE DEF X, S, I, R
  <2>8. QED
    BY <2>3, <2>5, <2>6, <2>7
<1>8. ASSUME b \in 224..239, idx + 3 <= n
      PROVE  Taken(3) <=> Fits(B, idx, 3)
  <2> DEFINE X == x \in 128..191
             Y == y \in 128..191
             S == x \in SecondRange(b)
             I == Fallback!InRange(3, PointOfThree(b, x, y))
             R == b \in 224..239
  <2>1. Fallback!Buf(idx) = b /\ Fallback!Buf(idx+1) = x /\ Fallback!Buf(idx+2) = y
    BY <1>3, <1>8
  <2>2. Fallback!CodePoint(3) = PointOfThree(b, x, y)
    BY <2>1 DEF Fallback!CodePoint, PointOfThree
  <2>3. X /\ Y => (I <=> S)
    BY <1>8, CodePointOfThree, Zenon
  <2>4. (\A j \in 1..3-1 : Fallback!IsContinuation(Fallback!Buf(idx + j))) <=> X /\ Y
    <3>1. \A j : j \in 1..3-1 <=> j = 1 \/ j = 2
      OBVIOUS
    <3>2. QED
      BY <3>1, <2>1, <1>4, Zenon
  <2>5. Taken(3) <=> X /\ Y /\ I
    BY <2>2, <2>4, <1>8, Zenon DEF Taken, n
  <2>6. Fits(B, idx, 3) <=> R /\ S /\ Y
    BY DEF Fits, b, x, y
  <2>7. S => X
    <3>1. ~(b < 192)
      BY <1>8
    <3>2. QED
      BY <3>1, <1>5, Zenon
  <2>8. R
    BY <1>8
  <2> HIDE DEF X, Y, S, I, R
  <2>9. QED
    BY <2>3, <2>5, <2>6, <2>7, <2>8
<1>9. ASSUME b \in 240..247, idx + 4 <= n
      PROVE  Taken(4) <=> Fits(B, idx, 4)
  <2> DEFINE X == x \in 128..191
             Y == y \in 128..191
             Z == z \in 128..191
             S == x \in SecondRange(b)
             I == Fallback!InRange(4, PointOfFour(b, x, y, z))
             R == b \in 240..244
  <2>1. /\ Fallback!Buf(idx) = b /\ Fallback!Buf(idx+1) = x /\ Fallback!Buf(idx+2) = y
        /\ Fallback!Buf(idx+3) = z
    BY <1>3, <1>9
  <2>2. Fallback!CodePoint(4) = PointOfFour(b, x, y, z)
    BY <2>1 DEF Fallback!CodePoint, PointOfFour
  <2>3. X /\ Y /\ Z => (I <=> R /\ S)
    BY <1>9, CodePointOfFour, Zenon
  <2>4. (\A j \in 1..4-1 : Fallback!IsContinuation(Fallback!Buf(idx + j))) <=> X /\ Y /\ Z
    <3>1. \A j : j \in 1..4-1 <=> j = 1 \/ j = 2 \/ j = 3
      OBVIOUS
    <3>2. QED
      BY <3>1, <2>1, <1>4, Zenon
  <2>5. Taken(4) <=> X /\ Y /\ Z /\ I
    BY <2>2, <2>4, <1>9, Zenon DEF Taken, n
  <2>6. Fits(B, idx, 4) <=> R /\ S /\ Y /\ Z
    BY DEF Fits, b, x, y, z
  <2>7. S => X
    <3>1. ~(b < 192)
      BY <1>9
    <3>2. QED
      BY <3>1, <1>5, Zenon
  <2> HIDE DEF X, Y, Z, S, I, R
  <2>8. QED
    BY <2>3, <2>5, <2>6, <2>7
<1>10. ASSUME NEW k \in 1..4, Fits(B, idx, k)
       PROVE  \/ k = 2 /\ b \in 192..223
              \/ k = 3 /\ b \in 224..239
              \/ k = 4 /\ b \in 240..247
  BY <1>10, <1>6 DEF Fits, b
<1>11. \A k \in {2, 3, 4} : Taken(k) => idx + k <= n
  BY DEF Taken, n
<1>12. /\ b \in 192..223 => (Taken(2) <=> idx + 2 <= n /\ Fits(B, idx, 2))
       /\ b \in 224..239 => (Taken(3) <=> idx + 3 <= n /\ Fits(B, idx, 3))
       /\ b \in 240..247 => (Taken(4) <=> idx + 4 <= n /\ Fits(B, idx, 4))
  <2>1. 2 \in {2, 3, 4} /\ 3 \in {2, 3, 4} /\ 4 \in {2, 3, 4}
    OBVIOUS
  <2>2. b \in 192..223 => (Taken(2) <=> idx + 2 <= n /\ Fits(B, idx, 2))
    BY <2>1, <1>7, <1>11, Zenon
  <2>3. b \in 224..239 => (Taken(3) <=> idx + 3 <= n /\ Fits(B, idx, 3))
    BY <2>1, <1>8, <1>11, Zenon
  <2>4. b \in 240..247 => (Taken(4) <=> idx + 4 <= n /\ Fits(B, idx, 4))
    BY <2>1, <1>9, <1>11, Zenon
  <2>5. QED
    BY <2>2, <2>3, <2>4, Zenon
<1>13. QED
  BY <1>10, <1>12, Zenon DEF n, b

(* The check of UTF-8 by code points: what it went over is made of whole    *)
(* characters.                                                              *)
FallbackValidated ==
    task = "validate" =>
      /\ idx <= Len(text)
      /\ answer = Pending => Good(Line(text, Len(text)), 0, idx)
      /\ answer # Pending => ValidateAnswer

LEMMA FallbackValidateAscii ==
  ASSUME text \in Seq(Byte), idx \in Nat, AsciiChunk \in Nat \ {0},
         FallbackValidated, Fallback!ValidateAscii
  PROVE  FallbackValidated' /\ idx' \in Nat
<1> DEFINE n == Len(text)
           B == Line(text, n)
           m == idx'
<1>0. n \in Nat /\ n \in 0..n /\ idx < n /\ task = "validate" /\ answer = Pending
  BY FallbackReads DEF Fallback!ValidateAscii, Fallback!Validates
<1>1. UNCHANGED <<text, task, answer>>
  BY Zenon DEF Fallback!ValidateAscii, Fallback!inputVars
<1>2. Good(B, 0, idx)
  BY <1>0 DEF FallbackValidated
<1>3. B \in [Int -> Byte] /\ \A j \in 0..n-1 : B[j] = Fallback!Buf(j)
  <2>1. B \in [Int -> Byte] /\ \A i \in 0..n-1 : B[i] = At(text, i)
    BY <1>0, LineOfText
  <2>2. \A i \in 0..n-1 : Fallback!Buf(i) = At(text, i)
    BY <1>0, FallbackReads
  <2> HIDE DEF B
  <2>3. QED
    BY <2>1, <2>2
<1>4. m \in Nat /\ idx <= m /\ m <= n /\ \A j \in idx..m-1 : B[j] < 128
  <2> HIDE DEF B
  <2>1. CASE Fallback!AsciiAhead
    <3>1. m = idx + AsciiChunk
      BY <2>1, Zenon DEF Fallback!ValidateAscii
    <3>2. idx + AsciiChunk <= n /\ \A k \in 0..AsciiChunk-1 : Fallback!Buf(idx + k) < 128
      BY <2>1, FallbackReads DEF Fallback!AsciiAhead
    <3>3. ASSUME NEW j \in idx..(idx + AsciiChunk)-1
          PROVE  B[j] < 128
      <4>1. j - idx \in 0..AsciiChunk-1 /\ idx + (j - idx) = j /\ j \in 0..n-1
        BY <3>2, <1>0
      <4>2. Fallback!Buf(idx + (j - idx)) < 128
        BY <4>1, <3>2, Zenon
      <4>3. QED
        BY <4>1, <4>2, <1>3
    <3>4. QED
      BY <3>1, <3>2, <3>3, <1>0
  <2>2. CASE ~Fallback!AsciiAhead
    <3>1. m = idx + 1 /\ Fallback!Buf(idx) < 128
      BY <2>2, Zenon DEF Fallback!ValidateAscii
    <3>2. idx \in 0..n-1 /\ B[idx] < 128
      BY <3>1, <1>0, <1>3
    <3>3. QED
      BY <3>1, <3>2, <1>0
  <2>3. QED
    BY <2>1, <2>2
<1> HIDE DEF B, n, m
<1>5. Good(B, 0, m)
  <2>1. ~Cut(B, idx) /\ \A j \in 0..idx-1 : ~Misplaced(B, j)
    BY <1>2, Zenon DEF Good
  <2>2. ~Cut(B, m) /\ \A j \in idx..m-1 : ~Misplaced(B, j)
    BY <2>1, <1>3, <1>4, AsciiRun
  <2>3. Good(B, idx, m)
    BY <2>2, Zenon DEF Good
  <2>4. 0 \in Int /\ idx \in Int /\ m \in Int /\ 0 <= idx
    BY <1>4
  <2>5. QED
    BY <2>1, <2>3, <2>4, <1>4, GoodSplits
<1>6. FallbackValidated'
  BY <1>0, <1>1, <1>4, <1>5, Zenon DEF FallbackValidated, B, n, m
<1>7. QED
  BY <1>4, <1>6 DEF m

LEMMA CharacterLengths ==
  ASSUME NEW b
  PROVE  \/ b \in 192..223 /\ Fallback!CharacterLength(b) = 2
         \/ b \in 224..239 /\ Fallback!CharacterLength(b) = 3
         \/ b \in 240..247 /\ Fallback!CharacterLength(b) = 4
         \/ b \notin 192..247 /\ Fallback!CharacterLength(b) = 0
<1> DEFINE Two == b \in 192..223
           Three == b \in 224..239
           Four == b \in 240..247
<1>1. ~(Two /\ Three) /\ ~(Two /\ Four) /\ ~(Three /\ Four)
  OBVIOUS
<1>2. b \in 192..247 => Two \/ Three \/ Four
  OBVIOUS
<1>3. Fallback!CharacterLength(b) = CASE Two -> 2 [] Three -> 3 [] Four -> 4 [] OTHER -> 0
  BY Zenon DEF Fallback!CharacterLength
<1> HIDE DEF Two, Three, Four
<1>4. \/ Two /\ Fallback!CharacterLength(b) = 2
      \/ Three /\ Fallback!CharacterLength(b) = 3
      \/ Four /\ Fallback!CharacterLength(b) = 4
      \/ ~Two /\ ~Three /\ ~Four /\ Fallback!CharacterLength(b) = 0
  BY <1>1, <1>3
<1>5. QED
  BY <1>2, <1>4, Zenon DEF Two, Three, Four

LEMMA FallbackValidateCharacter ==
  ASSUME text \in Seq(Byte), idx \in Nat, FallbackValidated, Fallback!ValidateCharacter,
         NoAnswerYet
  PROVE  FallbackValidated' /\ idx' \in Nat
<1> DEFINE n == Len(text)
           B == Line(text, n)
           b == B[idx]
           k == Fallback!CharacterLength(b)
<1>0. n \in Nat /\ n \in 0..n /\ idx < n /\ task = "validate" /\ answer = Pending
  BY FallbackReads DEF Fallback!ValidateCharacter, Fallback!Validates
<1>1. UNCHANGED <<text, task>>
  BY Zenon DEF Fallback!ValidateCharacter, Fallback!inputVars
<1>2. Good(B, 0, idx)
  BY <1>0 DEF FallbackValidated
<1>3. B \in [Int -> Byte] /\ Fallback!Buf(idx) = b
  <2>1. B \in [Int -> Byte] /\ \A i \in 0..n-1 : B[i] = At(text, i)
    BY <1>0, LineOfText
  <2>2. Fallback!Buf(idx) = At(text, idx)
    BY <1>0, FallbackReads
  <2>3. idx \in 0..n-1
    BY <1>0
  <2> HIDE DEF B
  <2>4. QED
    BY <2>1, <2>2, <2>3
<1>4. b \in Byte /\ b >= 128
  <2>1. Fallback!Buf(idx) >= 128
    BY Zenon DEF Fallback!ValidateCharacter
  <2> HIDE DEF B
  <2>2. QED
    BY <2>1, <1>3
<1>5. IF k > 0 /\ Taken(k) THEN idx' = idx + k /\ answer' = answer
                           ELSE answer' = [valid |-> FALSE] /\ idx' = idx
  <2> HIDE DEF b
  <2>1. Fallback!len = n
    BY FallbackReads
  <2>2. QED
    BY <1>3, <2>1, Zenon DEF Fallback!ValidateCharacter, Taken
<1>6. \A j \in 1..4 : Fits(B, idx, j) /\ idx + j <= n => k = j /\ k > 0 /\ Taken(k)
  <2>1. /\ b \in 192..223 => (Taken(2) <=> idx + 2 <= n /\ Fits(B, idx, 2))
        /\ b \in 224..239 => (Taken(3) <=> idx + 3 <= n /\ Fits(B, idx, 3))
        /\ b \in 240..247 => (Taken(4) <=> idx + 4 <= n /\ Fits(B, idx, 4))
        /\ \A j \in 1..4 : Fits(B, idx, j) => \/ j = 2 /\ b \in 192..223
                                              \/ j = 3 /\ b \in 224..239
                                              \/ j = 4 /\ b \in 240..247
    BY <1>0, <1>4, TakenFits
  <2>2. \/ b \in 192..223 /\ k = 2
        \/ b \in 224..239 /\ k = 3
        \/ b \in 240..247 /\ k = 4
        \/ b \notin 192..247 /\ k = 0
    BY CharacterLengths, Zenon
  <2>3. 2 > 0 /\ 3 > 0 /\ 4 > 0
    OBVIOUS
  <2> HIDE DEF k, b, B, n
  <2>4. ASSUME NEW j \in 1..4, Fits(B, idx, j), idx + j <= n
        PROVE  k = j /\ k > 0 /\ Taken(k)
    <3>1. CASE j = 2 /\ b \in 192..223
      <4>1. k = 2
        BY <2>2, <3>1
      <4>2. Taken(2)
        BY <2>1, <2>4, <3>1, Zenon
      <4>3. QED
        BY <4>1, <4>2, <3>1
    <3>2. CASE j = 3 /\ b \in 224..239
      <4>1. k = 3
        BY <2>2, <3>2
      <4>2. Taken(3)
        BY <2>1, <2>4, <3>2, Zenon
      <4>3. QED
        BY <4>1, <4>2, <3>2
    <3>3. CASE j = 4 /\ b \in 240..247
      <4>1. k = 4
        BY <2>2, <3>3
      <4>2. Taken(4)
        BY <2>1, <2>4, <3>3, Zenon
      <4>3. QED
        BY <4>1, <4>2, <3>3
    <3>4. \/ j = 2 /\ b \in 192..223
          \/ j = 3 /\ b \in 224..239
          \/ j = 4 /\ b \in 240..247
      BY <2>1, <2>4, Zenon
    <3>5. QED
      BY <3>1, <3>2, <3>3, <3>4
  <2>5. QED
    BY <2>4
<1>7. k > 0 /\ Taken(k) => k \in 1..4 /\ idx + k <= n /\ Fits(B, idx, k)
  <2>1. /\ b \in 192..223 => (Taken(2) <=> idx + 2 <= n /\ Fits(B, idx, 2))
        /\ b \in 224..239 => (Taken(3) <=> idx + 3 <= n /\ Fits(B, idx, 3))
        /\ b \in 240..247 => (Taken(4) <=> idx + 4 <= n /\ Fits(B, idx, 4))
    BY <1>0, <1>4, TakenFits
  <2>2. \/ b \in 192..223 /\ k = 2
        \/ b \in 224..239 /\ k = 3
        \/ b \in 240..247 /\ k = 4
        \/ b \notin 192..247 /\ k = 0
    BY CharacterLengths, Zenon
  <2>3. ~(0 > 0) /\ 2 \in 1..4 /\ 3 \in 1..4 /\ 4 \in 1..4
    OBVIOUS
  <2> HIDE DEF k, b, B, n
  <2>4. CASE b \in 192..223 /\ k = 2
    BY <2>1, <2>3, <2>4, Zenon
  <2>5. CASE b \in 224..239 /\ k = 3
    BY <2>1, <2>3, <2>5, Zenon
  <2>6. CASE b \in 240..247 /\ k = 4
    BY <2>1, <2>3, <2>6, Zenon
  <2>7. CASE k = 0
    BY <2>3, <2>7, Zenon
  <2>8. QED
    BY <2>2, <2>4, <2>5, <2>6, <2>7, Zenon
<1>8. 0 \in Int /\ idx \in Int /\ n \in Int /\ 0 <= idx /\ idx <= n
  BY <1>0
<1>9. ~Cut(B, idx) /\ \A j \in 0..idx-1 : ~Misplaced(B, j)
  BY <1>2, Zenon DEF Good
<1> HIDE DEF k, b, B
<1>10. CASE k > 0 /\ Taken(k)
  <2>1. k \in 1..4 /\ idx + k <= n /\ Fits(B, idx, k) /\ idx' = idx + k /\ answer' = answer
    BY <1>5, <1>7, <1>10
  <2>2. Good(B, idx, idx + k)
    BY <2>1, <1>3, <1>8, <1>9, FitsIsGood
  <2>3. idx + k \in Nat /\ idx + k \in Int /\ idx <= idx + k
    BY <2>1
  <2>4. Good(B, 0, idx + k)
    BY <2>2, <2>3, <1>8, <1>9, GoodSplits
  <2>5. QED
    BY <2>1, <2>3, <2>4, <1>0, <1>1, Zenon DEF FallbackValidated, B
<1>11. CASE ~(k > 0 /\ Taken(k))
  <2>1. answer' = [valid |-> FALSE] /\ idx' = idx
    BY <1>5, <1>11
  <2>2. ~Good(B, 0, n)
    <3>1. SUFFICES ASSUME Good(B, 0, n)
                   PROVE  FALSE
      OBVIOUS
    <3>2. Good(B, idx, n)
      BY <3>1, <1>8, GoodSplits
    <3>3. \E j \in 1..4 : idx + j <= n /\ Fits(B, idx, j)
      BY <3>2, <1>0, <1>3, <1>8, <1>9, GoodFits
    <3>4. QED
      BY <3>3, <1>6, <1>11, Zenon
  <2>3. ValidUtf8(text) = FALSE
    <3>1. ValidUtf8(text) <=> Good(B, 0, n)
      BY ValidIsGood DEF B
    <3>2. ValidUtf8(text) \in BOOLEAN
      <4>1. PICK V \in [0..n -> BOOLEAN] : ValidUtf8(text) = V[0]
        BY ValidRule
      <4>2. 0 \in 0..n
        BY <1>0
      <4>3. QED
        BY <4>1, <4>2
    <3>3. QED
      BY <3>1, <3>2, <2>2
  <2>4. ValidateAnswer'
    <3>1. answer'.valid = FALSE
      BY <2>1
    <3>2. QED
      BY <3>1, <2>3, <1>1, Zenon DEF ValidateAnswer
  <2>5. answer' # Pending
    <3>1. [valid |-> FALSE] \in [valid : BOOLEAN]
      OBVIOUS
    <3>2. QED
      BY <3>1, <2>1, Zenon DEF NoAnswerYet, Answers
  <2>6. QED
    BY <2>1, <2>4, <2>5, <1>0, <1>1, <1>8, Zenon DEF FallbackValidated
<1>12. QED
  BY <1>10, <1>11

LEMMA FallbackValidateEnd ==
  ASSUME text \in Seq(Byte), idx \in Nat, FallbackValidated, Fallback!ValidateEnd,
         NoAnswerYet
  PROVE  FallbackValidated' /\ idx' \in Nat
<1> DEFINE n == Len(text)
<1>0. n \in Nat /\ idx >= n /\ task = "validate" /\ answer = Pending
  BY FallbackReads DEF Fallback!ValidateEnd, Fallback!Validates
<1>1. UNCHANGED <<text, task, idx>> /\ answer' = [valid |-> TRUE]
  BY Zenon DEF Fallback!ValidateEnd, Fallback!inputVars
<1>2. idx <= n /\ Good(Line(text, n), 0, idx)
  BY <1>0 DEF FallbackValidated
<1>3. idx = n
  BY <1>0, <1>2
<1>4. ValidUtf8(text) = TRUE
  <2>1. ValidUtf8(text)
    BY <1>2, <1>3, ValidIsGood
  <2>2. ValidUtf8(text) \in BOOLEAN
    <3>1. PICK V \in [0..n -> BOOLEAN] : ValidUtf8(text) = V[0]
      BY ValidRule
    <3>2. 0 \in 0..n
      BY <1>0
    <3>3. QED
      BY <3>1, <3>2
  <2>3. QED
    BY <2>1, <2>2
<1>5. ValidateAnswer'
  <2>1. answer'.valid = TRUE
    BY <1>1
  <2>2. QED
    BY <2>1, <1>1, <1>4, Zenon DEF ValidateAnswer
<1>6. answer' # Pending
  <2>1. [valid |-> TRUE] \in [valid : BOOLEAN]
    OBVIOUS
  <2>2. QED
    BY <2>1, <1>1, Zenon DEF NoAnswerYet, Answers
<1>7. QED
  BY <1>1, <1>2, <1>5, <1>6, Zenon DEF FallbackValidated

(* Where the tokens of the text before i start.                             *)
TokensBefore(t, i) == {j \in 0..Len(t)-1 : j < i /\ StructuralStart(Classes(t), j)}

(* No byte before i tells stage 2 that the text is no JSON.                 *)
Plain(t, i) == \A o \in Oddities(t) : i <= o

LEMMA ByteFacts ==
  ASSUME NEW t \in Seq(Byte), NEW j \in 0..Len(t)-1
  PROVE  LET c == Classes(t)
             b == At(t, j)
             n == Len(t)
         IN  /\ b \in Byte /\ ByteAt(t, n, j) = b
             /\ StringTail(c, j) <=> StrAt(t, n, j)
             /\ At(c, j) = "q" <=> QuoteAt(t, n, j)
             /\ Scalar(At(c, j)) <=> b \notin OperatorBytes \cup WhitespaceBytes
             /\ StructuralStart(c, j) <=>
                  /\ ~StrAt(t, n, j)
                  /\ \/ b \in OperatorBytes
                     \/ b \notin OperatorBytes \cup WhitespaceBytes /\ ~FollowsScalar(c, j)
             /\ FollowsScalar(c, j+1) <=>
                  b \notin OperatorBytes \cup WhitespaceBytes /\ ~QuoteAt(t, n, j)
             /\ j \in Oddities(t) <=>
                  /\ ~StrAt(t, n, j)
                  /\ \/ QuoteAt(t, n, j) /\ FollowsScalar(c, j)
                     \/ b < Space /\ b \notin WhitespaceBytes
             /\ j \in StringContents(t) <=> StrAt(t, n, j) /\ ~QuoteAt(t, n, j)
<1> DEFINE c == Classes(t)
           b == At(t, j)
           n == Len(t)
<1>0. n \in Nat /\ j \in Nat /\ j < n /\ j <= n /\ j+1 > 0 /\ (j+1)-1 = j
  OBVIOUS
<1>1. /\ b \in Byte
      /\ At(c, j) = "q" <=> b = Quote /\ j \notin EscapedBytes(t)
      /\ At(c, j) \in Operators <=> b \in OperatorBytes
      /\ At(c, j) = Blank <=> b \in WhitespaceBytes
  BY ClassOfByte, Zenon
<1>2. ByteAt(t, n, j) = b
  BY <1>0, Zenon DEF ByteAt
<1>3. StringTail(c, j) <=> StrAt(t, n, j)
  BY <1>0, Zenon DEF StrAt
<1>4. At(c, j) = "q" <=> QuoteAt(t, n, j)
  BY <1>0, <1>1, <1>2, Zenon DEF QuoteAt, EscAt
<1>5. Scalar(At(c, j)) <=> b \notin OperatorBytes \cup WhitespaceBytes
  BY <1>1 DEF Scalar
<1>6. StructuralStart(c, j) <=>
        /\ ~StrAt(t, n, j)
        /\ \/ b \in OperatorBytes
           \/ b \notin OperatorBytes \cup WhitespaceBytes /\ ~FollowsScalar(c, j)
  BY <1>1, <1>3, <1>5, Zenon DEF StructuralStart
<1>7. FollowsScalar(c, j+1) <=>
        b \notin OperatorBytes \cup WhitespaceBytes /\ ~QuoteAt(t, n, j)
  BY <1>0, <1>4, <1>5 DEF FollowsScalar
<1>8. j \in ForeignBytes(t) <=> ~StrAt(t, n, j) /\ b < Space /\ b \notin WhitespaceBytes
  BY <1>3, Zenon DEF ForeignBytes
<1>9. j \in GluedQuotes(t) <=> ~StrAt(t, n, j) /\ QuoteAt(t, n, j) /\ FollowsScalar(c, j)
  <2>1. FollowsScalar(c, j) => j \in 1..n-1
    BY <1>0 DEF FollowsScalar
  <2>2. QED
    BY <2>1, <1>3, <1>4, Zenon DEF GluedQuotes
<1>10. j \in Oddities(t) <=>
         /\ ~StrAt(t, n, j)
         /\ \/ QuoteAt(t, n, j) /\ FollowsScalar(c, j)
            \/ b < Space /\ b \notin WhitespaceBytes
  BY <1>8, <1>9, Zenon DEF Oddities
<1>11. j \in StringContents(t) <=> StrAt(t, n, j) /\ ~QuoteAt(t, n, j)
  BY <1>3, <1>4, Zenon DEF StringContents
<1>12. QED
  BY <1>1, <1>2, <1>3, <1>4, <1>5, <1>6, <1>7, <1>10, <1>11, Zenon

LEMMA OdditiesInText ==
  ASSUME NEW t \in Seq(Byte), NEW o \in Oddities(t)
  PROVE  o \in 0..Len(t)-1
BY DEF Oddities, GluedQuotes, ForeignBytes

(* Without quotes between them, two places are both in a string or not.     *)
LEMMA Steady ==
  ASSUME NEW t \in Seq(Byte), NEW i \in Nat, NEW m \in Nat,
         \A j \in i..m-1 : j < Len(t) => ~QuoteAt(t, Len(t), j)
  PROVE  \A j \in i..m : StrAt(t, Len(t), j) <=> StrAt(t, Len(t), i)
<1> DEFINE n == Len(t)
           S(j) == StrAt(t, n, j)
           T == {j \in i..m : ~(S(j) <=> S(i))}
<1>0. n \in Nat /\ n \in 0..n
  OBVIOUS
<1>1. T = {}
  <2>1. SUFFICES ASSUME T # {}
                 PROVE  FALSE
    OBVIOUS
  <2>2. T \in SUBSET Nat
    OBVIOUS
  <2>3. PICK j \in T : \A y \in T : j <= y
    <3> HIDE DEF T
    <3>1. QED
      BY <2>1, <2>2, Smallest
  <2>4. j \in i..m /\ ~(S(j) <=> S(i))
    BY <2>3
  <2>5. j # i
    BY <2>4
  <2> DEFINE k == j - 1
  <2>6. k \in i..m-1 /\ k \in i..m /\ k+1 = j /\ ~(j <= k) /\ k \in Nat
    BY <2>4, <2>5
  <2> HIDE DEF k
  <2>7. S(k) <=> S(i)
    <3>1. k \notin T
      <4> HIDE DEF T
      <4>1. QED
        BY <2>3, <2>6
    <3>2. QED
      BY <3>1, <2>6, Zenon
  <2>8. ~QuoteAt(t, n, k)
    <3>1. k >= n => ByteAt(t, n, k) = Space
      BY <2>6, <1>0 DEF ByteAt
    <3>2. Space # Quote
      BY DEF Space, Quote
    <3>3. k < n => ~QuoteAt(t, n, k)
      BY <2>6, Zenon
    <3>4. k < n \/ k >= n
      BY <2>6, <1>0
    <3>5. QED
      BY <3>1, <3>2, <3>3, <3>4, Zenon DEF QuoteAt
  <2>9. StrAt(t, n, k+1) <=> ~(StrAt(t, n, k) <=> QuoteAt(t, n, k))
    BY <2>6, <1>0, OffsetRules, Zenon
  <2>10. QED
    BY <2>4, <2>6, <2>7, <2>8, <2>9, Zenon
<1>2. QED
  BY <1>1

LEMMA TokensStay ==
  ASSUME NEW t \in Seq(Byte), NEW i \in Nat, NEW m \in Nat, i <= m,
         \A j \in i..m-1 : j < Len(t) => ~StructuralStart(Classes(t), j)
  PROVE  TokensBefore(t, m) = TokensBefore(t, i)
<1>1. \A j \in 0..Len(t)-1 : j < m /\ ~(j < i) => j \in i..m-1 /\ j < Len(t)
  OBVIOUS
<1>2. \A j \in 0..Len(t)-1 : j < i => j < m
  OBVIOUS
<1>3. QED
  BY <1>1, <1>2, Zenon DEF TokensBefore

LEMMA TokenStarts ==
  ASSUME NEW t \in Seq(Byte), NEW i \in 0..Len(t)-1, StructuralStart(Classes(t), i),
         NEW l, Lists(l, TokensBefore(t, i))
  PROVE  Lists(Append(l, i), TokensBefore(t, i+1))
<1>1. TokensBefore(t, i) \in SUBSET Nat /\ i \in Nat
  BY DEF TokensBefore
<1>2. TokensBefore(t, i+1) = TokensBefore(t, i) \cup {i}
  <2>1. \A j \in 0..Len(t)-1 : j < i+1 <=> j < i \/ j = i
    OBVIOUS
  <2>2. QED
    BY <2>1, Zenon DEF TokensBefore
<1>3. Lists(<<i>>, {i})
  BY <1>1, ListsOne
<1>4. \A x \in TokensBefore(t, i), y \in {i} : x < y
  BY DEF TokensBefore
<1>5. {i} \in SUBSET Nat
  BY <1>1
<1>6. Lists(l \o <<i>>, TokensBefore(t, i) \cup {i})
  BY <1>1, <1>3, <1>4, <1>5, ListsConcat
<1>7. l \o <<i>> = Append(l, i)
  <2>1. l \in Seq(Nat)
    BY DEF Lists
  <2>2. QED
    BY <2>1, <1>1
<1>8. QED
  BY <1>2, <1>6, <1>7, Zenon

(* The indexes found list the tokens up to the first oddity, if any.        *)
ListedTo(t, i, l) ==
    /\ l \in Seq(Nat)
    /\ Plain(t, i) => Lists(l, TokensBefore(t, i))
    /\ \A o \in Oddities(t) :
         o < i /\ Plain(t, o) => \E r : Lists(r, TokensBefore(t, o)) /\ Begins(r, l)

LEMMA ListedOn ==
  ASSUME NEW t \in Seq(Byte), NEW i \in Nat, NEW m \in Nat, i <= m, NEW l, ListedTo(t, i, l),
         Plain(t, i) => \A j \in i..m-1 :
           j < Len(t) => ~StructuralStart(Classes(t), j) /\ j \notin Oddities(t)
  PROVE  ListedTo(t, m, l)
<1>0. \A o \in Oddities(t) : o \in 0..Len(t)-1 /\ o \in Nat /\ o < Len(t)
  BY OdditiesInText
<1>1. CASE Plain(t, i)
  <2>1. TokensBefore(t, m) = TokensBefore(t, i)
    BY <1>1, TokensStay
  <2>2. \A o \in Oddities(t) : ~(o < m)
    <3> SUFFICES ASSUME NEW o \in Oddities(t), o < m
                 PROVE  FALSE
      OBVIOUS
    <3>1. o \in i..m-1 /\ o < Len(t)
      BY <1>0, <1>1 DEF Plain
    <3>2. QED
      BY <3>1, <1>1, Zenon
  <2>3. QED
    BY <1>1, <2>1, <2>2, Zenon DEF ListedTo
<1>2. CASE ~Plain(t, i)
  <2>1. PICK q \in Oddities(t) : ~(i <= q)
    BY <1>2, Zenon DEF Plain
  <2>2. ~Plain(t, m)
    BY <2>1, <1>0 DEF Plain
  <2>3. \A o \in Oddities(t) : Plain(t, o) => o < i
    BY <2>1, <1>0 DEF Plain
  <2>4. QED
    BY <2>2, <2>3, Zenon DEF ListedTo
<1>3. QED
  BY <1>1, <1>2

LEMMA ListedNext ==
  ASSUME NEW t \in Seq(Byte), NEW i \in 0..Len(t)-1, NEW m \in Nat, i < m, NEW l,
         ListedTo(t, i, l),
         Plain(t, i) => StructuralStart(Classes(t), i),
         \A k \in i+1..m : Plain(t, k) =>
           \A j \in i+1..k-1 : j < Len(t) => ~StructuralStart(Classes(t), j)
  PROVE  ListedTo(t, m, Append(l, i))
<1> DEFINE a == Append(l, i)
<1>0. /\ \A o \in Oddities(t) : o \in 0..Len(t)-1 /\ o \in Nat /\ o < Len(t)
      /\ i \in Nat /\ i+1 \in Nat
  BY OdditiesInText
<1>1. l \in Seq(Nat) /\ a \in Seq(Nat) /\ Begins(l, a) /\ \A r \in Seq(Nat) : Begins(r, l) => Begins(r, a)
  <2>1. l \in Seq(Nat)
    BY DEF ListedTo
  <2>2. Begins(l, l)
    BY <2>1 DEF Begins
  <2>3. QED
    BY <2>1, <2>2, <1>0, BeginsLonger
<1> HIDE DEF a
<1>2. \A k \in i+1..m : Plain(t, k) => Plain(t, i)
  BY <1>0 DEF Plain
<1>3. \A k \in i+1..m : Plain(t, k) => Lists(a, TokensBefore(t, k))
  <2> SUFFICES ASSUME NEW k \in i+1..m, Plain(t, k)
               PROVE  Lists(a, TokensBefore(t, k))
    OBVIOUS
  <2>1. Plain(t, i)
    BY <1>2
  <2>2. Lists(a, TokensBefore(t, i+1))
    BY <2>1, TokenStarts DEF ListedTo, a
  <2> DEFINE h == i + 1
  <2>3. h \in Nat /\ k \in Nat /\ h <= k /\ \A j \in h..k-1 : j < Len(t) => ~StructuralStart(Classes(t), j)
    BY <1>0
  <2> HIDE DEF h
  <2>4. TokensBefore(t, k) = TokensBefore(t, h)
    BY <2>3, TokensStay
  <2>5. QED
    BY <2>2, <2>4 DEF h
<1>4. Plain(t, m) => Lists(a, TokensBefore(t, m))
  <2>1. m \in i+1..m
    BY <1>0
  <2>2. QED
    BY <2>1, <1>3, Zenon
<1>5. ASSUME NEW o \in Oddities(t), o < m, Plain(t, o)
      PROVE  \E r : Lists(r, TokensBefore(t, o)) /\ Begins(r, a)
  <2>1. CASE o < i
    <3>1. PICK r : Lists(r, TokensBefore(t, o)) /\ Begins(r, l)
      BY <2>1, <1>5, Zenon DEF ListedTo
    <3>2. r \in Seq(Nat)
      BY <3>1, Zenon DEF Lists
    <3>3. QED
      BY <3>1, <3>2, <1>1, Zenon
  <2>2. CASE o = i
    <3>1. Lists(l, TokensBefore(t, o))
      BY <2>2, <1>5, Zenon DEF ListedTo
    <3>2. QED
      BY <3>1, <1>1, Zenon
  <2>3. CASE i < o
    <3>1. o \in i+1..m
      BY <2>3, <1>0, <1>5
    <3>2. Lists(a, TokensBefore(t, o))
      BY <3>1, <1>3, <1>5, Zenon
    <3>3. Begins(a, a)
      BY <1>1 DEF Begins
    <3>4. QED
      BY <3>2, <3>3, Zenon
  <2>4. QED
    BY <2>1, <2>2, <2>3, <1>0
<1>6. QED
  BY <1>1, <1>4, <1>5, Zenon DEF ListedTo, a

(* What the scan of structural_scanner has found in front of i: in tells    *)
(* whether i is within a string, un that the text ended within one.         *)
Placed(t, i, in, un) ==
    LET n == Len(t)
    IN  /\ in \in BOOLEAN /\ un \in BOOLEAN
        /\ un => ~in /\ n < i
        /\ Plain(t, i) => (in \/ un <=> StrAt(t, n, i))
        /\ in => ~EscAt(t, n, i)
        /\ ~in /\ i < n /\ At(t, i) \notin OperatorBytes \cup WhitespaceBytes
             => ~FollowsScalar(Classes(t), i) /\ ~EscAt(t, n, i)

(* The bytes of a text t and behind it, as the fallback reads them; the     *)
(* first e bytes behind it may end its last character, in the cases that the*)
(* fallback knows of.                                                       *)
Ahead(t, x) == [i \in Int |-> IF i < 0 THEN 0 ELSE IF i < Len(t) THEN At(t, i) ELSE x]

Clean(t, x, e) == /\ Good(Ahead(t, x), 0, Len(t) + e)
                  /\ e # 0 => ~CutInTheMiddle(t)
                  /\ ~ControlInString(t) /\ ~CharacterEscaped(t)
                  /\ Oddities(t) = {}

UnescapedControls(t) == {j \in StringContents(t) \ EscapedIn(t) : At(t, j) < Space}

Errs(t, x, e, i, in, err) ==
    /\ err \in {"SUCCESS", "UNESCAPED_CHARS", "UTF8_ERROR"}
    /\ Oddities(t) = {} /\ (\E j \in UnescapedControls(t) : j < i) => err # "SUCCESS"
    /\ Clean(t, x, e) => /\ err = "SUCCESS"
                         /\ in /\ i < Len(t) => ~Cut(Ahead(t, x), i)

NoControls(t, i, m) == \A j \in i..m-1 : j < Len(t) => j \notin UnescapedControls(t)

LEMMA ErrsOn ==
  ASSUME NEW t \in Seq(Byte), NEW i \in Nat, NEW m \in Nat, i <= m, NEW in, NEW on, NEW err,
         NEW x, NEW e, Errs(t, x, e, i, in, err),
         Oddities(t) = {} => NoControls(t, i, m),
         Clean(t, x, e) /\ on /\ m < Len(t) => ~Cut(Ahead(t, x), m)
  PROVE  Errs(t, x, e, m, on, err)
<1>0. \A j \in UnescapedControls(t) : j \in Nat /\ j < Len(t)
  BY DEF UnescapedControls, StringContents
<1>1. ASSUME Oddities(t) = {}, NEW j \in UnescapedControls(t), j < m
      PROVE  j < i
  <2>1. j \notin i..m-1
    BY <1>0, <1>1, Zenon DEF NoControls
  <2>2. QED
    BY <2>1, <1>0, <1>1
<1>2. QED
  BY <1>1, Zenon DEF Errs

LEMMA ErrsRaised ==
  ASSUME NEW t, NEW x, NEW e, NEW m, NEW on, NEW err \in {"UNESCAPED_CHARS", "UTF8_ERROR"},
         ~Clean(t, x, e)
  PROVE  Errs(t, x, e, m, on, err)
BY DEF Errs

LEMMA AheadOfText ==
  ASSUME NEW t \in Seq(Byte), NEW x \in Byte
  PROVE  /\ Ahead(t, x) \in [Int -> Byte]
         /\ \A i \in 0..Len(t)-1 : Ahead(t, x)[i] = At(t, i)
         /\ \A i \in Int : i >= Len(t) => Ahead(t, x)[i] = x
         /\ \A i \in Int : i < 0 => Ahead(t, x)[i] = 0
<1> DEFINE n == Len(t)
           R(i) == IF i < 0 THEN 0 ELSE IF i < n THEN At(t, i) ELSE x
<1>1. n \in Nat /\ \A i \in Int : Ahead(t, x)[i] = R(i)
  BY DEF Ahead
<1>2. \A i \in Int : R(i) \in Byte
  <2>1. 0 \in Byte
    BY DEF Byte
  <2>2. \A i \in Int : ~(i < 0) /\ i < n => At(t, i) \in Byte
    BY <1>1 DEF At
  <2>3. QED
    BY <2>1, <2>2
<1>3. Ahead(t, x) \in [Int -> Byte]
  BY <1>2, Zenon DEF Ahead
<1>4. /\ \A i \in 0..n-1 : R(i) = At(t, i) /\ i \in Int
      /\ \A i \in Int : i >= n => R(i) = x
      /\ \A i \in Int : i < 0 => R(i) = 0
  BY <1>1
<1> HIDE DEF R
<1>5. QED
  BY <1>1, <1>3, <1>4, Zenon

LEMMA PlainBefore ==
  ASSUME NEW t \in Seq(Byte), NEW i \in Nat, NEW m \in Nat, i <= m, Plain(t, m)
  PROVE  Plain(t, i)
<1>1. \A o \in Oddities(t) : o \in Nat
  BY OdditiesInText
<1>2. QED
  BY <1>1 DEF Plain

LEMMA NoneIsPlain ==
  ASSUME NEW t, Oddities(t) = {}, NEW i
  PROVE  Plain(t, i)
BY DEF Plain

(* Within a string, up to its closing quote.                                *)
LEMMA WithinString ==
  ASSUME NEW t \in Seq(Byte), NEW i \in Nat, NEW m \in Nat, i <= m, NEW l,
         ListedTo(t, i, l), NEW un, Placed(t, i, TRUE, un),
         \A j \in i..m-1 : j < Len(t) => ~QuoteAt(t, Len(t), j),
         ~EscAt(t, Len(t), m)
  PROVE  ListedTo(t, m, l) /\ Placed(t, m, TRUE, un)
<1> DEFINE n == Len(t)
<1>0. ~un /\ un \in BOOLEAN /\ (Plain(t, i) => StrAt(t, n, i))
  BY Zenon DEF Placed
<1>1. \A j \in i..m : StrAt(t, n, j) <=> StrAt(t, n, i)
  BY Steady
<1>2. ListedTo(t, m, l)
  <2> SUFFICES ASSUME Plain(t, i), NEW j \in i..m-1, j < n
               PROVE  ~StructuralStart(Classes(t), j) /\ j \notin Oddities(t)
    BY ListedOn
  <2>1. j \in i..m /\ j \in 0..n-1
    OBVIOUS
  <2>2. StrAt(t, n, j)
    BY <2>1, <1>0, <1>1, Zenon
  <2>3. QED
    BY <2>1, <2>2, ByteFacts, Zenon
<1>3. Plain(t, m) => StrAt(t, n, m)
  <2>1. Plain(t, m) => Plain(t, i)
    BY PlainBefore
  <2>2. m \in i..m
    OBVIOUS
  <2>3. QED
    BY <2>1, <2>2, <1>0, <1>1, Zenon
<1>4. QED
  BY <1>0, <1>2, <1>3, Zenon DEF Placed

(* From one byte to the next outside of strings.                            *)
LEMMA BehindByte ==
  ASSUME NEW t \in Seq(Byte), NEW i \in 0..Len(t)-1, NEW in \in BOOLEAN,
         Plain(t, i+1) => (in <=> StrAt(t, Len(t), i+1)),
         At(t, i) \in OperatorBytes \cup WhitespaceBytes \cup {Quote},
         At(t, i) = Quote => QuoteAt(t, Len(t), i)
  PROVE  Placed(t, i+1, in, FALSE)
<1> DEFINE n == Len(t)
           b == At(t, i)
<1>0. n \in Nat /\ n \in 0..n /\ i \in Nat /\ i < n
  OBVIOUS
<1>1. b # Backslash
  BY DEF OperatorBytes, WhitespaceBytes, Quote, Backslash, Space
<1>2. ~EscAt(t, n, i+1)
  <2>1. EscAt(t, n, i+1) <=> ByteAt(t, n, i) = Backslash /\ ~EscAt(t, n, i)
    BY <1>0, OffsetRules, Zenon
  <2>2. ByteAt(t, n, i) = b
    BY <1>0, Zenon DEF ByteAt
  <2>3. QED
    BY <2>1, <2>2, <1>1, Zenon
<1>3. ~FollowsScalar(Classes(t), i+1)
  <2>1. FollowsScalar(Classes(t), i+1) <=>
          b \notin OperatorBytes \cup WhitespaceBytes /\ ~QuoteAt(t, n, i)
    BY ByteFacts, Zenon
  <2>2. QED
    BY <2>1
<1> DEFINE h == i + 1
<1>4. ~EscAt(t, n, h) /\ ~FollowsScalar(Classes(t), h) /\ (Plain(t, h) => (in <=> StrAt(t, n, h)))
  BY <1>2, <1>3
<1> HIDE DEF h
<1>5. Placed(t, h, in, FALSE)
  BY <1>4, Zenon DEF Placed
<1>6. QED
  BY <1>5, Zenon DEF h

ScannedTo(t, x, e, i, l, in, un, err) ==
    ListedTo(t, i, l) /\ Placed(t, i, in, un) /\ Errs(t, x, e, i, in, err)

LEMMA AsciiInClean ==
  ASSUME NEW t \in Seq(Byte), NEW x \in Byte, NEW e \in Nat, Clean(t, x, e),
         NEW i \in 0..Len(t)-1, At(t, i) < 128
  PROVE  ~Cut(Ahead(t, x), i+1)
<1> DEFINE n == Len(t)
           B == Ahead(t, x)
<1>0. n \in Nat /\ i \in Int /\ i \in 0..(n+e)-1
  OBVIOUS
<1>1. B \in [Int -> Byte] /\ B[i] = At(t, i)
  BY AheadOfText
<1>2. Good(B, 0, n+e)
  BY DEF Clean
<1> HIDE DEF B
<1>3. ~Misplaced(B, i)
  BY <1>0, <1>2, Zenon DEF Good
<1>4. ~Cut(B, i+1)
  BY <1>0, <1>1, <1>3, AsciiPlace
<1>5. QED
  BY <1>4 DEF B

LEMMA StringStarts ==
  ASSUME NEW t \in Seq(Byte), NEW i \in 0..Len(t)-1, At(t, i) = Quote,
         NEW x \in Byte, NEW e \in Nat,
         NEW l, NEW un, NEW err, ScannedTo(t, x, e, i, l, FALSE, un, err)
  PROVE  ScannedTo(t, x, e, i+1, Append(l, i), TRUE, un, err)
<1> DEFINE n == Len(t)
           h == i + 1
<1>0. n \in Nat /\ n \in 0..n /\ i \in Nat /\ i < n /\ ~(n < i) /\ h \in Nat /\ i <= h /\ i < h
      /\ i..h-1 = {i}
  OBVIOUS
<1>1. At(t, i) \notin OperatorBytes \cup WhitespaceBytes /\ At(t, i) < 128
      /\ ~(At(t, i) < Space)
  BY DEF OperatorBytes, WhitespaceBytes, Quote, Space
<1>2. ~un /\ un \in BOOLEAN /\ (Plain(t, i) => ~StrAt(t, n, i))
      /\ ~FollowsScalar(Classes(t), i) /\ ~EscAt(t, n, i)
  BY <1>0, <1>1, Zenon DEF ScannedTo, Placed
<1>3. QuoteAt(t, n, i)
  BY <1>0, <1>2, Zenon DEF QuoteAt, ByteAt
<1>4. Plain(t, i) => StructuralStart(Classes(t), i) /\ StrAt(t, n, i+1)
  <2>1. StrAt(t, n, i+1) <=> ~(StrAt(t, n, i) <=> QuoteAt(t, n, i))
    BY <1>0, OffsetRules, Zenon
  <2>2. QED
    BY <2>1, <1>1, <1>2, <1>3, ByteFacts, Zenon
<1>5. ListedTo(t, h, Append(l, i))
  <2>1. \A k \in i+1..h : \A j \in i+1..k-1 : FALSE
    OBVIOUS
  <2>2. ListedTo(t, i, l)
    BY Zenon DEF ScannedTo
  <2> HIDE DEF h
  <2>3. QED
    BY <2>1, <2>2, <1>0, <1>4, ListedNext, Zenon
<1>6. Placed(t, h, TRUE, un)
  <2>1. Plain(t, i+1) => Plain(t, i)
    BY <1>0, PlainBefore
  <2>2. Plain(t, i+1) => (TRUE <=> StrAt(t, n, i+1))
    BY <2>1, <1>4
  <2>3. Placed(t, i+1, TRUE, FALSE)
    BY <2>2, <1>3, BehindByte, Zenon
  <2>4. un = FALSE
    BY <1>2
  <2>5. QED
    BY <2>3, <2>4, Zenon
<1>7. Errs(t, x, e, h, TRUE, err)
  <2>1. i \notin UnescapedControls(t)
    BY <1>1, Zenon DEF UnescapedControls
  <2>2. Clean(t, x, e) => err = "SUCCESS" /\ ~Cut(Ahead(t, x), h)
    <3>1. Clean(t, x, e) => err = "SUCCESS"
      BY Zenon DEF Clean, ScannedTo, Errs
    <3>2. QED
      BY <3>1, <1>1, AsciiInClean
  <2>3. Errs(t, x, e, i, FALSE, err)
    BY Zenon DEF ScannedTo
  <2>4. NoControls(t, i, h)
    BY <2>1, <1>0 DEF NoControls
  <2> HIDE DEF h
  <2>5. QED
    BY <2>2, <2>3, <2>4, <1>0, ErrsOn, Zenon
<1>8. QED
  BY <1>5, <1>6, <1>7, Zenon DEF ScannedTo

LEMMA EscapeInString ==
  ASSUME NEW t \in Seq(Byte), NEW i \in 0..Len(t)-1, At(t, i) = Backslash,
         NEW x \in Byte, NEW e \in Nat,
         NEW l, NEW un, NEW err, ScannedTo(t, x, e, i, l, TRUE, un, err)
  PROVE  ScannedTo(t, x, e, i+2, l, TRUE, un, err)
<1> DEFINE n == Len(t)
           h == i + 1
           m == i + 2
           B == Ahead(t, x)
<1>0. /\ n \in Nat /\ n \in 0..n /\ i \in Nat /\ i < n /\ h \in Nat /\ m \in Nat /\ i <= m
      /\ h <= n /\ m = h+1 /\ i..m-1 = {i, h}
      /\ h < n => h \in 0..n-1
  OBVIOUS
<1>1. ListedTo(t, i, l) /\ Placed(t, i, TRUE, un) /\ Errs(t, x, e, i, TRUE, err) /\ ~EscAt(t, n, i)
      /\ (Plain(t, i) => StrAt(t, n, i))
  BY Zenon DEF ScannedTo, Placed
<1>2. ~QuoteAt(t, n, i) /\ EscAt(t, n, h) /\ ~QuoteAt(t, n, h)
  <2>1. ByteAt(t, n, i) = Backslash
    BY <1>0, Zenon DEF ByteAt
  <2>2. Backslash # Quote
    BY DEF Backslash, Quote
  <2>3. EscAt(t, n, h) <=> ByteAt(t, n, i) = Backslash /\ ~EscAt(t, n, i)
    BY <1>0, OffsetRules, Zenon
  <2>4. QED
    BY <2>1, <2>2, <2>3, <1>1, Zenon DEF QuoteAt
<1>3. ~EscAt(t, n, m)
  <2>1. EscAt(t, n, h+1) <=> ByteAt(t, n, h) = Backslash /\ ~EscAt(t, n, h)
    BY <1>0, OffsetRules, Zenon
  <2>2. QED
    BY <2>1, <1>0, <1>2
<1>4. ListedTo(t, m, l) /\ Placed(t, m, TRUE, un)
  <2>1. \A j \in i..m-1 : ~QuoteAt(t, n, j)
    BY <1>0, <1>2
  <2> HIDE DEF m
  <2>2. QED
    BY <2>1, <1>0, <1>1, <1>3, WithinString, Zenon
<1>5. NoControls(t, i, m)
  <2>1. ~(At(t, i) < Space)
    BY DEF Backslash, Space
  <2>2. i \notin UnescapedControls(t)
    BY <2>1, Zenon DEF UnescapedControls
  <2>3. h \in EscapedBytes(t)
    BY <1>2, Zenon DEF EscAt
  <2>4. h \notin UnescapedControls(t)
    BY <2>3, Zenon DEF UnescapedControls, EscapedIn
  <2>5. QED
    BY <2>2, <2>4, <1>0 DEF NoControls
<1>6. Clean(t, x, e) /\ m < n => ~Cut(B, m)
  <2> SUFFICES ASSUME Clean(t, x, e), m < n
               PROVE  ~Cut(B, m)
    OBVIOUS
  <2>0. h < n
    BY <1>0
  <2>1. B \in [Int -> Byte] /\ B[i] = At(t, i) /\ (h < n => B[h] = At(t, h))
    BY <1>0, AheadOfText, Zenon
  <2>2. ~Cut(B, i)
    BY <1>0, <1>1, Zenon DEF Errs
  <2>3. h < n => At(t, h) < 128
    <3> SUFFICES ASSUME h < n
                 PROVE  At(t, h) < 128
      OBVIOUS
    <3>1. Plain(t, i)
      BY NoneIsPlain, Zenon DEF Clean
    <3>2. StrAt(t, n, h)
      <4>1. StrAt(t, n, i+1) <=> ~(StrAt(t, n, i) <=> QuoteAt(t, n, i))
        BY <1>0, OffsetRules, Zenon
      <4>2. QED
        BY <4>1, <3>1, <1>1, <1>2
    <3>3. h \in StringContents(t) /\ At(t, h) \in Byte
      <4>1. h \in 0..n-1
        BY <1>0
      <4> HIDE DEF h
      <4>2. QED
        BY <4>1, <3>2, <1>2, ByteFacts, Zenon
    <3>4. h \in EscapedIn(t)
      BY <3>3, <1>2, Zenon DEF EscapedIn, EscAt
    <3>5. ~(At(t, h) >= 128)
      BY <3>4, Zenon DEF Clean, CharacterEscaped
    <3>6. \A b \in Byte : ~(b >= 128) => b < 128
      BY DEF Byte
    <3>7. QED
      BY <3>3, <3>5, <3>6, Zenon
  <2>4. B[h] < 128 /\ B[i] < 128
    <3>1. Backslash < 128
      BY DEF Backslash
    <3> HIDE DEF h, B, n
    <3>2. QED
      BY <3>1, <2>0, <2>1, <2>3
  <2> HIDE DEF B
  <2>5. ~Cut(B, i+1)
    BY <2>1, <2>2, <2>4, <1>0, AsciiPlace
  <2>6. h \in Int /\ ~Cut(B, h)
    BY <2>5, <1>0
  <2> HIDE DEF h, m
  <2>7. ~Cut(B, h+1)
    BY <2>1, <2>4, <2>6, AsciiPlace
  <2>8. QED
    BY <2>7, <1>0
<1>7. Errs(t, x, e, m, TRUE, err)
  <2>1. Clean(t, x, e) => err = "SUCCESS"
    BY <1>1, Zenon DEF Errs
  <2> HIDE DEF m
  <2>2. QED
    BY <2>1, <1>0, <1>1, <1>5, <1>6, ErrsOn, Zenon
<1>8. QED
  BY <1>4, <1>7, Zenon DEF ScannedTo

LEMMA ByteInString ==
  ASSUME NEW t \in Seq(Byte), NEW i \in 0..Len(t)-1, At(t, i) < 128,
         At(t, i) \notin {Quote, Backslash},
         NEW x \in Byte, NEW e \in Nat,
         NEW l, NEW un, NEW err, ScannedTo(t, x, e, i, l, TRUE, un, err)
  PROVE  ScannedTo(t, x, e, i+1, l, TRUE, un,
                   IF At(t, i) < Space THEN "UNESCAPED_CHARS" ELSE err)
<1> DEFINE n == Len(t)
           h == i + 1
           res == IF At(t, i) < Space THEN "UNESCAPED_CHARS" ELSE err
<1>0. /\ n \in Nat /\ n \in 0..n /\ i \in Nat /\ i < n /\ h \in Nat /\ i <= h /\ i..h-1 = {i}
  OBVIOUS
<1>1. ListedTo(t, i, l) /\ Placed(t, i, TRUE, un) /\ Errs(t, x, e, i, TRUE, err)
      /\ (Plain(t, i) => StrAt(t, n, i))
  BY Zenon DEF ScannedTo, Placed
<1>2. ByteAt(t, n, i) = At(t, i)
  BY <1>0, Zenon DEF ByteAt
<1>3. ~QuoteAt(t, n, i)
  BY <1>2 DEF QuoteAt
<1>4. ~EscAt(t, n, h)
  <2>1. EscAt(t, n, i+1) <=> ByteAt(t, n, i) = Backslash /\ ~EscAt(t, n, i)
    BY <1>0, OffsetRules, Zenon
  <2>2. QED
    BY <2>1, <1>2
<1>5. ListedTo(t, h, l) /\ Placed(t, h, TRUE, un)
  <2>1. \A j \in i..h-1 : ~QuoteAt(t, n, j)
    BY <1>0, <1>3
  <2> HIDE DEF h
  <2>2. QED
    BY <2>1, <1>0, <1>1, <1>4, WithinString, Zenon
<1>6. At(t, i) < Space => ~Clean(t, x, e)
  <2> SUFFICES ASSUME Clean(t, x, e)
               PROVE  ~(At(t, i) < Space)
    OBVIOUS
  <2>1. Plain(t, i)
    BY NoneIsPlain, Zenon DEF Clean
  <2>2. i \in StringContents(t)
    BY <2>1, <1>1, <1>3, ByteFacts, Zenon
  <2>3. QED
    BY <2>2, Zenon DEF Clean, ControlInString
<1>7. Errs(t, x, e, h, TRUE, res)
  <2>1. CASE At(t, i) < Space
    <3>1. res = "UNESCAPED_CHARS" /\ ~Clean(t, x, e)
      BY <2>1, <1>6
    <3> HIDE DEF res
    <3>2. QED
      BY <3>1, ErrsRaised, Zenon
  <2>2. CASE ~(At(t, i) < Space)
    <3>1. res = err
      BY <2>2
    <3>2. i \notin UnescapedControls(t)
      BY <2>2, Zenon DEF UnescapedControls
    <3>3. NoControls(t, i, h)
      BY <3>2, <1>0 DEF NoControls
    <3>4. Clean(t, x, e) => ~Cut(Ahead(t, x), h)
      BY AsciiInClean, Zenon DEF Clean
    <3> HIDE DEF res, h
    <3>5. QED
      BY <3>1, <3>3, <3>4, <1>0, <1>1, ErrsOn, Zenon
  <2>3. QED
    BY <2>1, <2>2, Zenon
<1>8. QED
  BY <1>5, <1>7, Zenon DEF ScannedTo

(* An escaped byte is below 128 or the text is not clean, so that characters*)
(* of several bytes are read from their start on.                           *)
LEMMA CharacterInString ==
  ASSUME NEW t \in Seq(Byte), NEW i \in 0..Len(t)-1, At(t, i) >= 128,
         NEW x \in Byte, NEW e \in Nat,
         NEW l, NEW un, NEW err, ScannedTo(t, x, e, i, l, TRUE, un, err),
         NEW m \in Nat, i < m, \A j \in i..m-1 : j < Len(t) => At(t, j) >= 128,
         NEW res \in {err, "UTF8_ERROR"},
         \A k \in 2..4 :
           /\ Fits(Ahead(t, x), i, k) /\ i+k <= Len(t)+e
           /\ e # 0 => ~CutInTheMiddle(t)
           => res = err /\ (m < Len(t) => m = i+k)
  PROVE  ScannedTo(t, x, e, m, l, TRUE, un, res)
<1> DEFINE n == Len(t)
           B == Ahead(t, x)
<1>0. /\ n \in Nat /\ n \in 0..n /\ i \in Nat /\ i \in Int /\ i < n /\ i <= m /\ m-1 \in Nat
  OBVIOUS
<1>1. ListedTo(t, i, l) /\ Placed(t, i, TRUE, un) /\ Errs(t, x, e, i, TRUE, err)
  BY Zenon DEF ScannedTo
<1>2. \A j \in i..m-1 : j < n => ~QuoteAt(t, n, j)
  <2> SUFFICES ASSUME NEW j \in i..m-1, j < n
               PROVE  ~QuoteAt(t, n, j)
    OBVIOUS
  <2>1. ByteAt(t, n, j) = At(t, j)
    BY Zenon DEF ByteAt
  <2>2. At(t, j) >= 128
    OBVIOUS
  <2>3. QED
    BY <2>1, <2>2 DEF QuoteAt, Quote
<1>3. ~EscAt(t, n, m)
  <2> DEFINE p == m - 1
  <2>1. p \in Nat /\ m = p+1 /\ p \in i..m-1
    BY <1>0
  <2>2. ByteAt(t, n, p) # Backslash
    <3>1. p < n => At(t, p) >= 128
      BY <2>1
    <3>2. ByteAt(t, n, p) = IF p < n THEN At(t, p) ELSE Space
      BY Zenon DEF ByteAt
    <3> HIDE DEF p
    <3>3. QED
      BY <3>1, <3>2 DEF Space, Backslash
  <2> HIDE DEF p
  <2>3. EscAt(t, n, p+1) <=> ByteAt(t, n, p) = Backslash /\ ~EscAt(t, n, p)
    BY <1>0, <2>1, OffsetRules, Zenon
  <2>4. QED
    BY <2>1, <2>2, <2>3
<1>4. ListedTo(t, m, l) /\ Placed(t, m, TRUE, un)
  BY <1>0, <1>1, <1>2, <1>3, WithinString, Zenon
<1>5. Clean(t, x, e) => res = err /\ (m < n => ~Cut(B, m))
  <2> SUFFICES ASSUME Clean(t, x, e)
               PROVE  res = err /\ (m < n => ~Cut(B, m))
    OBVIOUS
  <2>1. B \in [Int -> Byte] /\ B[i] = At(t, i)
    BY <1>0, AheadOfText
  <2>2. ~Cut(B, i)
    BY <1>0, <1>1, Zenon DEF Errs
  <2>3. Good(B, 0, n+e) /\ (e # 0 => ~CutInTheMiddle(t)) /\ n+e \in Int /\ i < n+e /\ i <= n+e
    BY <1>0 DEF Clean
  <2>4. \A k \in 2..4 : Fits(B, i, k) /\ i+k <= n+e => res = err /\ (m < n => m = i+k)
    BY <2>3, Zenon
  <2> HIDE DEF B
  <2>5. Good(B, i, n+e)
    <3>1. 0 \in Int /\ 0 <= i
      BY <1>0
    <3> DEFINE z == n + e
    <3>2. Good(B, 0, z) /\ z \in Int /\ i <= z
      BY <2>3
    <3> HIDE DEF z
    <3>3. Good(B, i, z)
      BY <3>1, <3>2, <1>0, GoodSplits
    <3>4. QED
      BY <3>3 DEF z
  <2>6. PICK k \in 1..4 : i+k <= n+e /\ Fits(B, i, k)
    BY <2>1, <2>2, <2>3, <2>5, <1>0, GoodFits
  <2>7. k # 1
    <3>1. k = 1 => B[i] < 128
      <4>1. Fits(B, i, 1) => B[i] < 128
        BY SMT DEF Fits
      <4>2. QED
        BY <4>1, <2>6, Zenon
    <3>2. B[i] \in Int /\ B[i] >= 128
      <4>1. \A b \in Byte : b \in Int
        BY DEF Byte
      <4>2. B[i] \in Byte
        BY <2>1, <1>0
      <4>3. QED
        BY <4>1, <4>2, <2>1
    <3>3. QED
      BY <3>1, <3>2
  <2>8. k \in 2..4 /\ (m < n => m = i+k) /\ res = err
    BY <2>4, <2>6, <2>7
  <2>9. Good(B, i, i+k)
    BY <2>1, <2>2, <2>6, <1>0, FitsIsGood, Zenon
  <2>10. QED
    BY <2>8, <2>9 DEF Good
<1>6. Errs(t, x, e, m, TRUE, res)
  <2>1. CASE res = err
    <3>1. NoControls(t, i, m)
      <4>1. \A j \in i..m-1 : j < n => ~(At(t, j) < Space)
        <5> SUFFICES ASSUME NEW j \in i..m-1, j < n
                     PROVE  ~(At(t, j) < Space)
          OBVIOUS
        <5>1. At(t, j) >= 128 /\ At(t, j) \in Int
          <6>1. At(t, j) \in Byte
            BY <1>0 DEF At
          <6>2. \A b \in Byte : b \in Int
            BY DEF Byte
          <6>3. QED
            BY <6>1, <6>2
        <5>2. QED
          BY <5>1 DEF Space
      <4>2. QED
        BY <4>1, Zenon DEF NoControls, UnescapedControls
    <3>2. Clean(t, x, e) /\ m < n => ~Cut(Ahead(t, x), m)
      BY <1>5
    <3>3. Errs(t, x, e, m, TRUE, err)
      BY <3>1, <3>2, <1>0, <1>1, ErrsOn, Zenon
    <3>4. QED
      BY <3>3, <2>1, Zenon
  <2>2. CASE res # err
    <3>1. res = "UTF8_ERROR" /\ ~Clean(t, x, e)
      BY <2>2, <1>5
    <3>2. QED
      BY <3>1, ErrsRaised, Zenon
  <2>3. QED
    BY <2>1, <2>2, Zenon
<1>7. QED
  BY <1>4, <1>6, Zenon DEF ScannedTo

LEMMA StringEnds ==
  ASSUME NEW t \in Seq(Byte), NEW i \in Nat, i < Len(t) => At(t, i) = Quote,
         NEW x \in Byte, NEW e \in Nat,
         NEW l, NEW un, NEW err, ScannedTo(t, x, e, i, l, TRUE, un, err)
  PROVE  ScannedTo(t, x, e, i+1, l, FALSE, un \/ i >= Len(t), err)
<1> DEFINE n == Len(t)
           h == i + 1
<1>0. n \in Nat /\ n \in 0..n /\ h \in Nat /\ i <= h /\ i..h-1 = {i} /\ (i < n => i \in 0..n-1)
  OBVIOUS
<1>1. ListedTo(t, i, l) /\ Placed(t, i, TRUE, un) /\ Errs(t, x, e, i, TRUE, err) /\ ~EscAt(t, n, i)
      /\ (Plain(t, i) => StrAt(t, n, i)) /\ un = FALSE
  BY Zenon DEF ScannedTo, Placed
<1>2. ListedTo(t, h, l)
  <2>1. Plain(t, i) /\ i < n => ~StructuralStart(Classes(t), i) /\ i \notin Oddities(t)
    BY <1>0, <1>1, ByteFacts, Zenon
  <2>2. Plain(t, i) => \A j \in i..h-1 :
          j < Len(t) => ~StructuralStart(Classes(t), j) /\ j \notin Oddities(t)
    BY <2>1, <1>0
  <2> HIDE DEF h
  <2>3. QED
    BY <2>2, <1>0, <1>1, ListedOn
<1>3. Plain(t, h) => Plain(t, i)
  BY <1>0, PlainBefore
<1>4. Placed(t, h, FALSE, un \/ i >= n)
  <2>1. CASE i < n
    <3>1. QuoteAt(t, n, i)
      BY <2>1, <1>1, Zenon DEF QuoteAt, ByteAt
    <3>2. StrAt(t, n, i+1) <=> ~(StrAt(t, n, i) <=> QuoteAt(t, n, i))
      BY <1>0, OffsetRules, Zenon
    <3>3. Plain(t, i+1) => (FALSE <=> StrAt(t, n, i+1))
      BY <3>1, <3>2, <1>1, <1>3
    <3>4. At(t, i) \in OperatorBytes \cup WhitespaceBytes \cup {Quote}
      BY <2>1
    <3>5. Placed(t, i+1, FALSE, FALSE)
      BY <3>1, <3>3, <3>4, <1>0, <2>1, BehindByte, Zenon
    <3>6. (un \/ i >= n) = FALSE
      BY <2>1, <1>1, <1>0
    <3>7. QED
      BY <3>5, <3>6, Zenon
  <2>2. CASE ~(i < n)
    <3>1. n < h /\ ~(h < n) /\ (i <= n => i = n) /\ ~(h <= n)
      BY <2>2, <1>0
    <3>2. StrAt(t, n, h) <=> StrAt(t, n, i)
      BY <3>1 DEF StrAt
    <3>3. (un \/ i >= n) = TRUE
      BY <2>2, <1>0
    <3> HIDE DEF h
    <3>4. Placed(t, h, FALSE, TRUE)
      BY <3>1, <3>2, <1>1, <1>3 DEF Placed
    <3>5. QED
      BY <3>3, <3>4, Zenon
  <2>3. QED
    BY <2>1, <2>2, Zenon
<1>5. Errs(t, x, e, h, FALSE, err)
  <2>1. i < n => ~(At(t, i) < Space)
    BY DEF Quote, Space
  <2>2. i < n => i \notin UnescapedControls(t)
    BY <2>1, Zenon DEF UnescapedControls
  <2>3. NoControls(t, i, h)
    BY <2>2, <1>0 DEF NoControls
  <2> HIDE DEF h
  <2>4. QED
    BY <2>3, <1>0, <1>1, ErrsOn, Zenon
<1>6. QED
  BY <1>2, <1>4, <1>5, Zenon DEF ScannedTo

(* Outside of strings. *)
LEMMA OperatorListed ==
  ASSUME NEW t \in Seq(Byte), NEW i \in 0..Len(t)-1, At(t, i) \in OperatorBytes,
         NEW x \in Byte, NEW e \in Nat,
         NEW l, NEW un, NEW err, ScannedTo(t, x, e, i, l, FALSE, un, err)
  PROVE  ScannedTo(t, x, e, i+1, Append(l, i), FALSE, un, err)
<1> DEFINE n == Len(t)
           h == i + 1
<1>0. /\ n \in Nat /\ n \in 0..n /\ i \in Nat /\ i < n /\ ~(n < i) /\ h \in Nat
      /\ i <= h /\ i < h /\ i..h-1 = {i}
  OBVIOUS
<1>1. ListedTo(t, i, l) /\ Errs(t, x, e, i, FALSE, err) /\ un = FALSE
      /\ (Plain(t, i) => ~StrAt(t, n, i))
  BY <1>0, Zenon DEF ScannedTo, Placed
<1>2. At(t, i) # Quote /\ ~(At(t, i) < Space)
  BY DEF OperatorBytes, Quote, Space
<1>3. ~QuoteAt(t, n, i)
  BY <1>0, <1>2, Zenon DEF QuoteAt, ByteAt
<1>4. Plain(t, i) => StructuralStart(Classes(t), i) /\ ~StrAt(t, n, i+1)
  <2>1. StrAt(t, n, i+1) <=> ~(StrAt(t, n, i) <=> QuoteAt(t, n, i))
    BY <1>0, OffsetRules, Zenon
  <2>2. QED
    BY <2>1, <1>1, <1>3, ByteFacts, Zenon
<1>5. ListedTo(t, h, Append(l, i))
  <2>1. \A k \in i+1..h : \A j \in i+1..k-1 : FALSE
    OBVIOUS
  <2> HIDE DEF h
  <2>2. QED
    BY <2>1, <1>0, <1>1, <1>4, ListedNext, Zenon
<1>6. Placed(t, h, FALSE, un)
  <2>1. Plain(t, i+1) => (FALSE <=> StrAt(t, n, i+1))
    BY <1>0, <1>4, PlainBefore
  <2>2. At(t, i) \in OperatorBytes \cup WhitespaceBytes \cup {Quote}
    OBVIOUS
  <2>3. Placed(t, i+1, FALSE, FALSE)
    BY <2>1, <2>2, <1>2, BehindByte, Zenon
  <2>4. QED
    BY <2>3, <1>1, Zenon
<1>7. Errs(t, x, e, h, FALSE, err)
  <2>1. NoControls(t, i, h)
    <3>1. i \notin UnescapedControls(t)
      BY <1>2, Zenon DEF UnescapedControls
    <3>2. QED
      BY <3>1, <1>0 DEF NoControls
  <2> HIDE DEF h
  <2>2. QED
    BY <2>1, <1>0, <1>1, ErrsOn, Zenon
<1>8. QED
  BY <1>5, <1>6, <1>7, Zenon DEF ScannedTo

LEMMA WhitespaceSkipped ==
  ASSUME NEW t \in Seq(Byte), NEW i \in 0..Len(t)-1, At(t, i) \in WhitespaceBytes,
         NEW x \in Byte, NEW e \in Nat,
         NEW l, NEW un, NEW err, ScannedTo(t, x, e, i, l, FALSE, un, err)
  PROVE  ScannedTo(t, x, e, i+1, l, FALSE, un, err)
<1> DEFINE n == Len(t)
           h == i + 1
<1>0. /\ n \in Nat /\ n \in 0..n /\ i \in Nat /\ i < n /\ ~(n < i) /\ h \in Nat
      /\ i <= h /\ i < h /\ i..h-1 = {i}
  OBVIOUS
<1>1. ListedTo(t, i, l) /\ Errs(t, x, e, i, FALSE, err) /\ un = FALSE
      /\ (Plain(t, i) => ~StrAt(t, n, i))
  BY <1>0, Zenon DEF ScannedTo, Placed
<1>2. At(t, i) # Quote /\ At(t, i) \notin OperatorBytes
  BY DEF OperatorBytes, WhitespaceBytes, Quote, Space
<1>3. ~QuoteAt(t, n, i)
  BY <1>0, <1>2, Zenon DEF QuoteAt, ByteAt
<1>4. Plain(t, i) => /\ ~StructuralStart(Classes(t), i) /\ i \notin Oddities(t)
                     /\ i \notin StringContents(t) /\ ~StrAt(t, n, i+1)
  <2>1. StrAt(t, n, i+1) <=> ~(StrAt(t, n, i) <=> QuoteAt(t, n, i))
    BY <1>0, OffsetRules, Zenon
  <2>2. At(t, i) \in OperatorBytes \cup WhitespaceBytes
    OBVIOUS
  <2>3. QED
    BY <2>1, <2>2, <1>1, <1>2, <1>3, ByteFacts, Zenon
<1>5. ListedTo(t, h, l)
  <2>1. Plain(t, i) => \A j \in i..h-1 :
          j < Len(t) => ~StructuralStart(Classes(t), j) /\ j \notin Oddities(t)
    BY <1>0, <1>4
  <2> HIDE DEF h
  <2>2. QED
    BY <2>1, <1>0, <1>1, ListedOn
<1>6. Placed(t, h, FALSE, un)
  <2>1. Plain(t, i+1) => (FALSE <=> StrAt(t, n, i+1))
    BY <1>0, <1>4, PlainBefore
  <2>2. At(t, i) \in OperatorBytes \cup WhitespaceBytes \cup {Quote}
    OBVIOUS
  <2>3. Placed(t, i+1, FALSE, FALSE)
    BY <2>1, <2>2, <1>2, BehindByte, Zenon
  <2>4. QED
    BY <2>3, <1>1, Zenon
<1>7. Errs(t, x, e, h, FALSE, err)
  <2>1. Oddities(t) = {} => NoControls(t, i, h)
    <3>1. Oddities(t) = {} => i \notin UnescapedControls(t)
      BY <1>4, NoneIsPlain, Zenon DEF UnescapedControls
    <3>2. QED
      BY <3>1, <1>0 DEF NoControls
  <2> HIDE DEF h
  <2>2. QED
    BY <2>1, <1>0, <1>1, ErrsOn, Zenon
<1>8. QED
  BY <1>5, <1>6, <1>7, Zenon DEF ScannedTo

(* A run of bytes that are no operators or whitespace, outside of strings: a*)
(* quote within it is an oddity, and nothing starts within it.              *)
LEMMA PrimitiveRun ==
  ASSUME NEW t \in Seq(Byte), NEW i \in 0..Len(t)-1, NEW m \in i+1..Len(t),
         \A j \in i..m-1 : At(t, j) \notin OperatorBytes \cup WhitespaceBytes,
         ~StrAt(t, Len(t), i), ~QuoteAt(t, Len(t), i), Plain(t, m)
  PROVE  /\ \A j \in i..m : ~StrAt(t, Len(t), j)
         /\ \A j \in i+1..m-1 : ~StructuralStart(Classes(t), j)
<1> DEFINE n == Len(t)
           c == Classes(t)
           T == {j \in i..m-1 : QuoteAt(t, n, j)}
<1>0. /\ n \in Nat /\ i \in Nat /\ m \in Nat /\ i <= m /\ m <= n
      /\ \A j \in i..m-1 : j \in 0..n-1 /\ j \in i..m
  OBVIOUS
<1>1. \A j \in i..m-1 : ~QuoteAt(t, n, j) => FollowsScalar(c, j+1)
  BY <1>0, ByteFacts, Zenon
<1>2. T = {}
  <2>1. SUFFICES ASSUME T # {}
                 PROVE  FALSE
    OBVIOUS
  <2>2. T \in SUBSET Nat
    BY <1>0
  <2>3. PICK j \in T : \A y \in T : j <= y
    <3> HIDE DEF T
    <3>1. QED
      BY <2>1, <2>2, Smallest
  <2>4. j \in i..m-1 /\ QuoteAt(t, n, j) /\ j # i
    BY <2>3
  <2> DEFINE k == j - 1
  <2>5. k \in i..m-1 /\ k+1 = j /\ ~(j <= k) /\ j \in Nat
    BY <2>4, <1>0
  <2>6. \A y \in i..j-1 : y < n => ~QuoteAt(t, n, y)
    <3> SUFFICES ASSUME NEW y \in i..j-1
                 PROVE  ~QuoteAt(t, n, y)
      OBVIOUS
    <3>1. y \in i..m-1 /\ ~(j <= y)
      BY <2>4, <1>0
    <3> HIDE DEF k
    <3>2. y \notin T
      <4> HIDE DEF T
      <4>1. QED
        BY <3>1, <2>3
    <3>3. QED
      BY <3>1, <3>2
  <2>7. ~StrAt(t, n, j)
    <3>1. \A y \in i..j : StrAt(t, n, y) <=> StrAt(t, n, i)
      BY <2>5, <2>6, <1>0, Steady
    <3>2. j \in i..j
      BY <2>4, <1>0
    <3>3. QED
      BY <3>1, <3>2, Zenon
  <2>8. FollowsScalar(c, j)
    <3>1. ~QuoteAt(t, n, k)
      <4>1. k \in i..j-1 /\ k < n
        BY <2>5, <1>0
      <4>2. QED
        BY <4>1, <2>6
    <3> HIDE DEF k
    <3>2. FollowsScalar(c, k+1)
      BY <3>1, <2>5, <1>1
    <3>3. QED
      BY <3>2, <2>5
  <2>9. j \in Oddities(t)
    BY <2>4, <2>7, <2>8, <1>0, ByteFacts, Zenon
  <2>10. m <= j
    BY <2>9 DEF Plain
  <2>11. QED
    BY <2>10, <2>4, <1>0
<1>3. \A j \in i..m-1 : ~QuoteAt(t, n, j)
  BY <1>2
<1>4. \A j \in i..m : ~StrAt(t, n, j)
  <2>1. \A j \in i..m : StrAt(t, n, j) <=> StrAt(t, n, i)
    BY <1>3, <1>0, Steady
  <2>2. QED
    BY <2>1, Zenon
<1>5. ASSUME NEW j \in i+1..m-1
      PROVE  ~StructuralStart(c, j)
  <2> DEFINE k == j - 1
  <2>1. k \in i..m-1 /\ k+1 = j /\ j \in i..m-1
    BY <1>0
  <2> HIDE DEF k
  <2>2. FollowsScalar(c, k+1)
    BY <2>1, <1>1, <1>3, Zenon
  <2>3. FollowsScalar(c, j)
    BY <2>1, <2>2
  <2>4. At(t, j) \notin OperatorBytes
    BY <2>1
  <2>5. QED
    BY <2>1, <2>3, <2>4, <1>0, ByteFacts, Zenon
<1>6. QED
  BY <1>4, <1>5

LEMMA PrimitiveListed ==
  ASSUME NEW t \in Seq(Byte), NEW i \in 0..Len(t)-1, NEW m \in i+1..Len(t),
         \A j \in i..m-1 : At(t, j) \notin OperatorBytes \cup WhitespaceBytes,
         m < Len(t) => At(t, m) \in OperatorBytes \cup WhitespaceBytes,
         At(t, i) # Quote,
         NEW x \in Byte, NEW e \in Nat,
         NEW l, NEW un, NEW err, ScannedTo(t, x, e, i, l, FALSE, un, err)
  PROVE  ScannedTo(t, x, e, m, Append(l, i), FALSE, un, err)
<1> DEFINE n == Len(t)
<1>0. /\ n \in Nat /\ n \in 0..n /\ i \in Nat /\ i < n /\ ~(n < i) /\ m \in Nat
      /\ i <= m /\ i < m /\ i \in i..m-1 /\ m <= n /\ i <= n
  OBVIOUS
<1>1. ListedTo(t, i, l) /\ Errs(t, x, e, i, FALSE, err) /\ un = FALSE
      /\ (Plain(t, i) => ~StrAt(t, n, i)) /\ ~FollowsScalar(Classes(t), i)
  BY <1>0, Zenon DEF ScannedTo, Placed
<1>2. ~QuoteAt(t, n, i)
  BY <1>0, Zenon DEF QuoteAt, ByteAt
<1>3. \A k \in i+1..m : Plain(t, k) =>
        /\ \A j \in i..k : ~StrAt(t, n, j)
        /\ \A j \in i+1..k-1 : ~StructuralStart(Classes(t), j)
  <2> SUFFICES ASSUME NEW k \in i+1..m, Plain(t, k)
               PROVE  /\ \A j \in i..k : ~StrAt(t, n, j)
                      /\ \A j \in i+1..k-1 : ~StructuralStart(Classes(t), j)
    OBVIOUS
  <2>1. k \in i+1..Len(t) /\ k \in Nat /\ i <= k /\ \A j \in i..k-1 : j \in i..m-1
    BY <1>0
  <2>2. Plain(t, i)
    BY <2>1, <1>0, PlainBefore
  <2>3. \A j \in i..k-1 : At(t, j) \notin OperatorBytes \cup WhitespaceBytes
    BY <2>1
  <2>4. ~StrAt(t, n, i)
    BY <2>2, <1>1
  <2>5. QED
    BY <2>1, <2>3, <2>4, <1>2, PrimitiveRun
<1>4. ListedTo(t, m, Append(l, i))
  <2>1. Plain(t, i) => StructuralStart(Classes(t), i)
    BY <1>0, <1>1, ByteFacts, Zenon
  <2>2. \A k \in i+1..m : Plain(t, k) =>
          \A j \in i+1..k-1 : j < Len(t) => ~StructuralStart(Classes(t), j)
    BY <1>3, Zenon
  <2>3. QED
    BY <2>1, <2>2, <1>0, <1>1, ListedNext
<1>5. Plain(t, m) => \A j \in i..m : ~StrAt(t, n, j)
  <2>1. m \in i+1..m
    OBVIOUS
  <2>2. QED
    BY <2>1, <1>3, Zenon
<1>6. Placed(t, m, FALSE, un)
  <2>1. Plain(t, m) => ~StrAt(t, n, m)
    <3>1. m \in i..m
      OBVIOUS
    <3>2. QED
      BY <3>1, <1>5, Zenon
  <2>2. QED
    BY <2>1, <1>1, Zenon DEF Placed
<1>7. Errs(t, x, e, m, FALSE, err)
  <2>1. Oddities(t) = {} => NoControls(t, i, m)
    <3> SUFFICES ASSUME Oddities(t) = {}, NEW j \in i..m-1
                 PROVE  j \notin UnescapedControls(t)
      BY DEF NoControls
    <3>1. j \in 0..n-1 /\ j \in i..m
      BY <1>0
    <3>2. ~StrAt(t, n, j)
      BY <3>1, <1>5, NoneIsPlain, Zenon
    <3>3. j \notin StringContents(t)
      BY <3>1, <3>2, ByteFacts, Zenon
    <3>4. QED
      BY <3>3, Zenon DEF UnescapedControls
  <2>2. QED
    BY <2>1, <1>0, <1>1, ErrsOn, Zenon
<1>8. QED
  BY <1>4, <1>6, <1>7, Zenon DEF ScannedTo

-----------------------------------------------------------------------------
(* validate_utf8_character: what it passes over is one byte or the bytes of *)
(* a character, and it takes every character of UTF-8 for one; but for      *)
(* CutInTheMiddle, those of which the end of a window is a part, too.       *)
LEMMA SecondBounds ==
  ASSUME NEW b \in Int, NEW x \in SecondRange(b)
  PROVE  /\ b = 224 => 160 <= x
         /\ b = 237 => x <= 159
         /\ b = 240 => 144 <= x
         /\ b = 244 => x <= 143
<1>1. CASE b = 224
  <2>1. SecondRange(b) = 160..191
    BY <1>1 DEF SecondRange
  <2>2. QED
    BY <2>1, <1>1
<1>2. CASE b = 237
  <2>1. SecondRange(b) = 128..159
    BY <1>2 DEF SecondRange
  <2>2. QED
    BY <2>1, <1>2
<1>3. CASE b = 240
  <2>1. SecondRange(b) = 144..191
    BY <1>3 DEF SecondRange
  <2>2. QED
    BY <2>1, <1>3
<1>4. CASE b = 244
  <2>1. SecondRange(b) = 128..143
    BY <1>4 DEF SecondRange
  <2>2. QED
    BY <2>1, <1>4
<1>5. QED
  BY <1>1, <1>2, <1>3, <1>4

LEMMA CharacterTaken ==
  ASSUME text \in Seq(Byte), behind \in Byte, idx \in 0..Len(text)-1,
         At(text, idx) >= 192, NEW k \in 2..4
  PROVE  LET r == Fallback!Character(k)
         IN  /\ \/ r.idx = idx + 1
                \/ r.idx = idx + k /\ \A j \in 1..k-1 : Fallback!IsContinuation(Fallback!Buf(idx + j))
             /\ r.error \in {error, "UTF8_ERROR"}
             /\ /\ Fits(Ahead(text, behind), idx, k)
                /\ idx + k <= Len(text) \/ (task \in Streaming /\ ~CutInTheMiddle(text))
                => r.error = error /\ (r.idx < Len(text) => r.idx = idx + k)
<1> DEFINE n == Len(text)
           B == Ahead(text, behind)
           b == Fallback!Buf(idx)
           b1 == Fallback!Buf(idx + 1)
           over == idx + k - 1 > Fallback!len
           cut == idx + Fallback!Min({k - 1, 2}) > Fallback!len /\ task \in Fallback!Streaming
           bad == \/ k = 2 /\ b <= 193
                  \/ b = 224 /\ b1 <= 159
                  \/ b = 237 /\ b1 >= 160
                  \/ b = 240 /\ b1 <= 143
                  \/ b = 244 /\ b1 >= 144
                  \/ b >= 245
           open == task \in Streaming /\ ~CutInTheMiddle(text)
           whole == \A j \in 1..k-1 : Fallback!IsContinuation(Fallback!Buf(idx + j))
           r == Fallback!Character(k)
<1>0. n \in Nat /\ n \in 0..n /\ idx \in Nat /\ idx < n /\ Fallback!len = n
  BY FallbackReads
<1>1. r = IF over \/ ~whole
          THEN IF cut THEN Fallback!Result(Fallback!len, error)
                      ELSE Fallback!Result(idx + 1, "UTF8_ERROR")
          ELSE Fallback!Result(idx + k, IF bad THEN "UTF8_ERROR" ELSE error)
  <2>1. ~whole <=> \E j \in 1..k-1 : ~Fallback!IsContinuation(Fallback!Buf(idx + j))
    BY Zenon
  <2>2. QED
    BY <2>1, Zenon DEF Fallback!Character
<1>2. \A i, e : Fallback!Result(i, e).idx = i /\ Fallback!Result(i, e).error = e
  BY DEF Fallback!Result
<1>3. cut <=> idx + (IF k = 2 THEN 1 ELSE 2) > n /\ task \in Streaming
  <2>1. \A s : Fallback!Min(s) = Min(s)
    BY Zenon DEF Fallback!Min, Min
  <2> DEFINE p == k - 1
  <2>2. p \in Nat /\ (p <= 2 <=> k # 4) /\ (k = 2 => p = 1) /\ (k = 3 => p = 2)
    OBVIOUS
  <2> HIDE DEF p
  <2>3. Min({p, 2}) = IF p <= 2 THEN p ELSE 2
    BY <2>2, MinOfTwo
  <2>4. Fallback!Min({p, 2}) = IF k = 2 THEN 1 ELSE 2
    <3>1. k = 2 \/ k = 3 \/ k = 4
      OBVIOUS
    <3>2. QED
      BY <3>1, <2>1, <2>2, <2>3
  <2>5. Fallback!Min({k - 1, 2}) = IF k = 2 THEN 1 ELSE 2
    BY <2>4 DEF p
  <2>6. QED
    BY <2>5, <1>0, FallbackReads, Zenon
<1>4. Fits(B, idx, k) => whole /\ ~bad /\ (k = 4 => b >= 240)
  <2> SUFFICES ASSUME Fits(B, idx, k)
               PROVE  whole /\ ~bad /\ (k = 4 => b >= 240)
    OBVIOUS
  <2>1. B \in [Int -> Byte]
    BY AheadOfText
  <2>2. b = B[idx] /\ \A i \in Nat : Fallback!Buf(i) = B[i]
    <3>1. \A i \in Nat : B[i] = IF i < n THEN At(text, i) ELSE behind
      BY DEF Ahead
    <3> HIDE DEF B
    <3>2. \A i \in Nat : Fallback!Buf(i) = B[i]
      BY <3>1, FallbackReads, Zenon
    <3>3. QED
      BY <3>2, <1>0
  <2> DEFINE x == B[idx + 1]
  <2>3. b \in Byte /\ b \in Int
    <3>1. \A y \in Byte : y \in Int
      BY DEF Byte
    <3>2. b \in Byte
      BY <2>1, <2>2, <1>0
    <3>3. QED
      BY <3>1, <3>2
  <2> HIDE DEF b, B
  <2>4. /\ 194 <= b /\ b <= 244 /\ x \in SecondRange(b)
        /\ \A j \in 2..k-1 : B[idx + j] \in 128..191
        /\ k = 2 => b <= 223
        /\ k = 4 => b >= 240
    <3>0. b = B[idx]
      BY <2>2
    <3>1. CASE k = 2
      <4>1. b \in 194..223 /\ x \in SecondRange(b)
        BY <3>0, <3>1, SMT DEF Fits
      <4> HIDE DEF x
      <4>2. QED
        BY <4>1, <3>1, <2>3
    <3>2. CASE k = 3
      <4>1. b \in 224..239 /\ x \in SecondRange(b) /\ B[idx + 2] \in 128..191
        BY <3>0, <3>2, SMT DEF Fits
      <4> HIDE DEF x
      <4>2. QED
        BY <4>1, <3>2, <2>3
    <3>3. CASE k = 4
      <4>1. b \in 240..244 /\ x \in SecondRange(b) /\ B[idx + 2] \in 128..191
            /\ B[idx + 3] \in 128..191
        BY <3>0, <3>3, SMT DEF Fits
      <4> HIDE DEF x
      <4>2. QED
        BY <4>1, <3>3, <2>3
    <3>4. QED
      BY <3>1, <3>2, <3>3
  <2>5. x \in 128..191
    <3>1. ~(b < 192)
      <4> HIDE DEF x
      <4>1. QED
        BY <2>3, <2>4
    <3>2. SecondRange(b) \subseteq 128..191
      BY <3>1, <2>3, SecondsAreContinuations, Zenon
    <3>3. QED
      BY <3>2, <2>4, Zenon
  <2>6. \A j \in 1..k-1 : B[idx + j] \in 128..191
    <3>1. \A j \in 1..k-1 : j = 1 \/ j \in 2..k-1
      OBVIOUS
    <3>2. QED
      BY <3>1, <2>4, <2>5, Zenon
  <2>7. whole
    <3>1. \A j \in 1..k-1 : idx + j \in Nat
      BY <1>0
    <3> SUFFICES ASSUME NEW j \in 1..k-1
                 PROVE  Fallback!IsContinuation(Fallback!Buf(idx + j))
      BY Zenon
    <3>2. Fallback!Buf(idx + j) = B[idx + j]
      BY <3>1, <2>2, Zenon
    <3>3. B[idx + j] \in 128..191
      BY <2>6, Zenon
    <3>4. QED
      BY <3>2, <3>3, FallbackReads, Zenon
  <2>8. b1 = x
    <3>1. idx + 1 \in Nat
      BY <1>0
    <3>2. QED
      BY <3>1, <2>2
  <2>9. ~bad
    <3>1. x \in Int /\ 128 <= x /\ x <= 191
      <4>1. \A y \in 128..191 : y \in Int /\ 128 <= y /\ y <= 191
        OBVIOUS
      <4>2. QED
        BY <4>1, <2>5, Zenon
    <3>2. /\ b = 224 => 160 <= x
          /\ b = 237 => x <= 159
          /\ b = 240 => 144 <= x
          /\ b = 244 => x <= 143
      <4>1. x \in SecondRange(b)
        BY <2>4, Zenon
      <4> HIDE DEF x
      <4>2. QED
        BY <4>1, <2>3, SecondBounds
    <3> HIDE DEF x, b1
    <3>3. QED
      BY <3>1, <3>2, <2>3, <2>4, <2>8
  <2>10. QED
    BY <2>4, <2>7, <2>9
<1> SUFFICES /\ r.idx = idx + 1 \/ (r.idx = idx + k /\ whole)
             /\ r.error \in {error, "UTF8_ERROR"}
             /\ Fits(B, idx, k) /\ (idx + k <= n \/ open)
                => r.error = error /\ (r.idx < n => r.idx = idx + k)
  BY Zenon
<1>5. error \in {error, "UTF8_ERROR"} /\ "UTF8_ERROR" \in {error, "UTF8_ERROR"}
  OBVIOUS
<1>6. k = 2 \/ k = 3 \/ k = 4
  OBVIOUS
<1>7. over => ~(idx + k <= n) /\ k # 2 /\ idx + k > n + 1
  BY <1>0, <1>6
<1>8. over /\ ~(idx + 2 > n) => k = 4 /\ n = idx + 2
  BY <1>0, <1>6
<1>9. n = idx + 2 /\ b >= 240 => CutInTheMiddle(text)
  <2>1. b = At(text, idx)
    BY <1>0, FallbackReads
  <2>2. n = idx + 2 => n > 1 /\ n - 1 = idx + 1
    BY <1>0
  <2>3. QED
    BY <2>1, <2>2 DEF CutInTheMiddle, At
<1>10. cut => n = idx + 1
  <2> DEFINE y == IF k = 2 THEN 1 ELSE 2
  <2>1. y = 1 \/ y = 2
    OBVIOUS
  <2>2. cut => idx + y > n
    BY <1>3
  <2> HIDE DEF y, cut
  <2>3. QED
    BY <2>1, <2>2, <1>0
<1> HIDE DEF over, cut, bad, whole, r, B, b
<1>11. CASE over \/ ~whole
  <2>1. CASE cut
    <3>1. r = Fallback!Result(n, error)
      BY <1>0, <1>1, <1>11, <2>1
    <3>2. r.idx = n /\ r.error = error
      BY <3>1, <1>2
    <3>3. QED
      BY <3>2, <2>1, <1>0, <1>5, <1>10
  <2>2. CASE ~cut
    <3>1. r = Fallback!Result(idx + 1, "UTF8_ERROR")
      BY <1>1, <1>11, <2>2
    <3>2. r.idx = idx + 1 /\ r.error = "UTF8_ERROR"
      BY <3>1, <1>2
    <3>3. ~(Fits(B, idx, k) /\ (idx + k <= n \/ open))
      <4> SUFFICES ASSUME Fits(B, idx, k), idx + k <= n \/ open
                   PROVE  FALSE
        BY Zenon
      <4>1. whole /\ over
        BY <1>4, <1>11
      <4>2. open /\ k # 2
        BY <4>1, <1>7
      <4>3. ~(idx + 2 > n)
        BY <4>2, <2>2, <1>3
      <4>4. CutInTheMiddle(text)
        BY <4>1, <4>3, <1>4, <1>8, <1>9
      <4>5. QED
        BY <4>2, <4>4
    <3>4. QED
      BY <3>2, <3>3, <1>5
  <2>3. QED
    BY <2>1, <2>2
<1>12. CASE ~over /\ whole
  <2>1. r = Fallback!Result(idx + k, IF bad THEN "UTF8_ERROR" ELSE error)
    BY <1>1, <1>12
  <2>2. r.idx = idx + k /\ r.error = IF bad THEN "UTF8_ERROR" ELSE error
    BY <2>1, <1>2
  <2>3. QED
    BY <2>2, <1>4, <1>12
<1>13. QED
  BY <1>11, <1>12

LEMMA CharacterRead ==
  ASSUME text \in Seq(Byte), behind \in Byte, idx \in 0..Len(text)-1,
         At(text, idx) >= 128
  PROVE  LET r == Fallback!validate_utf8_character
         IN  /\ r.idx \in Nat /\ idx < r.idx
             /\ \A j \in idx..r.idx-1 : j < Len(text) => At(text, j) >= 128
             /\ r.error \in {error, "UTF8_ERROR"}
             /\ \A k \in 2..4 :
                  /\ Fits(Ahead(text, behind), idx, k)
                  /\ idx + k <= Len(text) \/ (task \in Streaming /\ ~CutInTheMiddle(text))
                  => r.error = error /\ (r.idx < Len(text) => r.idx = idx + k)
<1> DEFINE n == Len(text)
           B == Ahead(text, behind)
           open == task \in Streaming /\ ~CutInTheMiddle(text)
           b == Fallback!Buf(idx)
           r == Fallback!validate_utf8_character
           size == CASE b \in 192..223 -> 2
                     [] b \in 224..239 -> 3
                     [] b \in 240..255 -> 4
<1>0. n \in Nat /\ n \in 0..n /\ idx \in Nat /\ idx < n
  OBVIOUS
<1>1. b = At(text, idx) /\ b \in Byte /\ B[idx] = b
  <2>1. b = At(text, idx) /\ B[idx] = At(text, idx)
    BY <1>0, FallbackReads, AheadOfText, Zenon
  <2>2. At(text, idx) \in Byte
    BY <1>0 DEF At
  <2>3. QED
    BY <2>1, <2>2
<1>2. b \in Int /\ 128 <= b /\ b <= 255
  <2>1. \A y \in Byte : y \in Int /\ y <= 255
    BY DEF Byte
  <2> HIDE DEF b
  <2>2. QED
    BY <2>1, <1>1
<1>3. r = IF b < 192 THEN Fallback!Result(idx + 1, "UTF8_ERROR") ELSE Fallback!Character(size)
  BY Zenon DEF Fallback!validate_utf8_character
<1> SUFFICES /\ r.idx \in Nat /\ idx < r.idx
             /\ \A j \in idx..r.idx-1 : j < n => At(text, j) >= 128
             /\ r.error \in {error, "UTF8_ERROR"}
             /\ \A k \in 2..4 : Fits(B, idx, k) /\ (idx + k <= n \/ open)
                                 => r.error = error /\ (r.idx < n => r.idx = idx + k)
  BY Zenon
<1>4. \A k \in 2..4 : Fits(B, idx, k) =>
        /\ k = 2 => 194 <= b /\ b <= 223
        /\ k = 3 => 224 <= b /\ b <= 239
        /\ k = 4 => 240 <= b /\ b <= 244
  <2> HIDE DEF b, B
  <2>1. Fits(B, idx, 2) => b \in 194..223
    BY <1>1, SMT DEF Fits
  <2>2. Fits(B, idx, 3) => b \in 224..239
    BY <1>1, SMT DEF Fits
  <2>3. Fits(B, idx, 4) => b \in 240..244
    BY <1>1, SMT DEF Fits
  <2>4. /\ b \in 194..223 => 194 <= b /\ b <= 223
        /\ b \in 224..239 => 224 <= b /\ b <= 239
        /\ b \in 240..244 => 240 <= b /\ b <= 244
    BY <1>2
  <2>5. /\ Fits(B, idx, 2) => 194 <= b /\ b <= 223
        /\ Fits(B, idx, 3) => 224 <= b /\ b <= 239
        /\ Fits(B, idx, 4) => 240 <= b /\ b <= 244
    <3>1. Fits(B, idx, 2) => 194 <= b /\ b <= 223
      BY <2>1, <2>4, Zenon
    <3>2. Fits(B, idx, 3) => 224 <= b /\ b <= 239
      BY <2>2, <2>4, Zenon
    <3>3. Fits(B, idx, 4) => 240 <= b /\ b <= 244
      BY <2>3, <2>4, Zenon
    <3>4. QED
      BY <3>1, <3>2, <3>3, Zenon
  <2>6. \A k \in 2..4 : k = 2 \/ k = 3 \/ k = 4
    OBVIOUS
  <2>7. QED
    BY <2>5, <2>6
<1>5. CASE b < 192
  <2>1. r = Fallback!Result(idx + 1, "UTF8_ERROR")
    BY <1>3, <1>5
  <2>2. r.idx = idx + 1 /\ r.error = "UTF8_ERROR"
    BY <2>1 DEF Fallback!Result
  <2> HIDE DEF r, b, B
  <2>3. \A j \in idx..r.idx-1 : j = idx
    BY <2>2, <1>0
  <2>4. \A k \in 2..4 : ~Fits(B, idx, k)
    BY <1>2, <1>4, <1>5
  <2>5. QED
    BY <2>2, <2>3, <2>4, <1>0
<1>6. CASE b >= 192
  <2>1. /\ size \in 2..4
        /\ size = 2 <=> b <= 223
        /\ size = 3 <=> 224 <= b /\ b <= 239
        /\ size = 4 <=> 240 <= b
    <3> DEFINE p2 == b \in 192..223
               p3 == b \in 224..239
               p4 == b \in 240..255
    <3> HIDE DEF b
    <3>1. (p2 <=> b <= 223) /\ (p3 <=> 224 <= b /\ b <= 239) /\ (p4 <=> 240 <= b)
      BY <1>2, <1>6
    <3>2. size = CASE p2 -> 2 [] p3 -> 3 [] p4 -> 4
      BY Zenon
    <3> HIDE DEF p2, p3, p4, size
    <3>3. /\ b <= 223 \/ (224 <= b /\ b <= 239) \/ 240 <= b
          /\ b <= 223 => ~(224 <= b)
          /\ 240 <= b => ~(b <= 239)
      BY <1>2
    <3>4. QED
      BY <3>1, <3>2, <3>3, <1>2
  <2> HIDE DEF size
  <2>2. r = Fallback!Character(size)
    <3>1. ~(b < 192)
      BY <1>2, <1>6
    <3>2. QED
      BY <3>1, <1>3
  <2>3. /\ \/ r.idx = idx + 1
           \/ r.idx = idx + size
                /\ \A j \in 1..size-1 : Fallback!IsContinuation(Fallback!Buf(idx + j))
        /\ r.error \in {error, "UTF8_ERROR"}
        /\ Fits(B, idx, size) /\ (idx + size <= n \/ open)
           => r.error = error /\ (r.idx < n => r.idx = idx + size)
    <3>1. At(text, idx) >= 192
      BY <1>1, <1>6
    <3>2. QED
      BY <3>1, <2>1, <2>2, CharacterTaken, Zenon
  <2> HIDE DEF r, B
  <2>4. \A k \in 2..4 : Fits(B, idx, k) => k = size
    <3> HIDE DEF b
    <3>1. QED
      BY <1>2, <1>4, <1>6, <2>1
  <2>5. \A k \in 2..4 : Fits(B, idx, k) /\ (idx + k <= n \/ open)
                          => r.error = error /\ (r.idx < n => r.idx = idx + k)
    BY <2>3, <2>4
  <2>6. CASE r.idx = idx + 1
    <3>1. \A j \in idx..r.idx-1 : j = idx
      BY <2>6, <1>0
    <3>2. QED
      BY <2>3, <2>5, <2>6, <3>1, <1>0
  <2>7. CASE r.idx = idx + size
              /\ \A j \in 1..size-1 : Fallback!IsContinuation(Fallback!Buf(idx + j))
    <3>1. r.idx \in Nat /\ idx < r.idx
      BY <2>1, <2>7, <1>0
    <3>2. ASSUME NEW j \in idx..r.idx-1, j < n
          PROVE  At(text, j) >= 128
      <4>1. CASE j = idx
        BY <4>1
      <4>2. CASE j # idx
        <5> DEFINE i == j - idx
        <5>1. i \in 1..size-1 /\ idx + i = j
          BY <2>1, <2>7, <4>2, <1>0
        <5>2. Fallback!Buf(j) \in 128..191
          <6> HIDE DEF i
          <6>1. Fallback!IsContinuation(Fallback!Buf(idx + i))
            BY <5>1, <2>7
          <6>2. QED
            BY <6>1, <5>1, FallbackReads, Zenon
        <5>3. Fallback!Buf(j) = At(text, j)
          BY <3>2, FallbackReads, Zenon
        <5>4. \A y \in 128..191 : y >= 128
          OBVIOUS
        <5>5. QED
          BY <5>2, <5>3, <5>4, Zenon
      <4>3. QED
        BY <4>1, <4>2
    <3>3. QED
      BY <3>1, <3>2, <2>3, <2>5
  <2>8. QED
    BY <2>3, <2>6, <2>7
<1>7. QED
  BY <1>2, <1>5, <1>6

-----------------------------------------------------------------------------
(* Stage 1 of the fallback, one step at a time.                             *)
FallbackScanning ==
    \/ Fallback!StringStart \/ Fallback!StringEscape \/ Fallback!StringCharacter
    \/ Fallback!StringByte \/ Fallback!StringEnd \/ Fallback!Operator
    \/ Fallback!Whitespace \/ Fallback!Primitive

(* How many bytes behind the text may end its last character.               *)
Extra == IF task = "streaming_partial" THEN 0..3 ELSE {0}

ScannedAhead(e) == ScannedTo(text, behind, e, idx, tail, in_string, unclosed_string, error)

LEMMA ScanInString ==
  ASSUME text \in Seq(Byte), behind \in Byte, idx \in Nat, NEW e \in Nat, ScannedAhead(e),
         e # 0 => task \in Streaming,
         \/ Fallback!StringEscape \/ Fallback!StringCharacter
         \/ Fallback!StringByte \/ Fallback!StringEnd
  PROVE  idx' \in Nat /\ ScannedTo(text, behind, e, idx', tail', in_string', unclosed_string', error')
<1> DEFINE n == Len(text)
           b == At(text, idx)
<1>0. n \in Nat /\ Fallback!len = n /\ in_string \in BOOLEAN /\ unclosed_string \in BOOLEAN
      /\ (idx < n => idx \in 0..n-1 /\ Fallback!Buf(idx) = b /\ b \in Byte)
  <2>1. in_string \in BOOLEAN /\ unclosed_string \in BOOLEAN
    BY Zenon DEF ScannedAhead, ScannedTo, Placed
  <2>2. idx < n => b \in Byte
    BY DEF At
  <2>3. QED
    BY <2>1, <2>2, FallbackReads
<1>1. \A y \in Byte : y \in Int /\ (y >= 128 \/ y < 128)
  BY DEF Byte
<1>2. in_string = TRUE
  BY <1>0 DEF Fallback!StringEscape, Fallback!StringCharacter, Fallback!StringByte,
              Fallback!StringEnd
<1>3. ScannedTo(text, behind, e, idx, tail, TRUE, unclosed_string, error)
  BY <1>2, Zenon DEF ScannedAhead
<1>4. CASE Fallback!StringEscape
  <2>1. /\ idx < n /\ b = Backslash /\ idx' = idx + 2
        /\ UNCHANGED <<tail, in_string, unclosed_string, error>>
    BY <1>0, <1>4, FallbackReads, Zenon DEF Fallback!StringEscape, Fallback!indexVars
  <2>2. ScannedTo(text, behind, e, idx+2, tail, TRUE, unclosed_string, error)
    BY <2>1, <1>0, <1>3, EscapeInString, Zenon
  <2>3. /\ tail' = tail /\ in_string' = TRUE /\ unclosed_string' = unclosed_string
        /\ error' = error /\ idx+2 \in Nat
    BY <2>1, <1>2
  <2>4. QED
    BY <2>1, <2>2, <2>3, Zenon
<1>5. CASE Fallback!StringByte
  <2>1. /\ idx < n /\ Fallback!Buf(idx) < 128 /\ b \notin {Quote, Backslash} /\ idx' = idx + 1
        /\ error' = (IF b < Space THEN "UNESCAPED_CHARS" ELSE error)
        /\ UNCHANGED <<tail, in_string, unclosed_string>>
    <3>1. Fallback!Space = Space
      BY DEF Fallback!Space, Space
    <3>2. QED
      BY <3>1, <1>0, <1>5, FallbackReads, Zenon DEF Fallback!StringByte
  <2>2. ScannedTo(text, behind, e, idx+1, tail, TRUE, unclosed_string,
                  IF b < Space THEN "UNESCAPED_CHARS" ELSE error)
    <3>1. b < 128 /\ idx \in 0..Len(text)-1
      BY <2>1, <1>0
    <3>2. QED
      BY <3>1, <2>1, <1>3, ByteInString, Zenon
  <2>3. /\ tail' = tail /\ in_string' = TRUE /\ unclosed_string' = unclosed_string
        /\ idx+1 \in Nat
    BY <2>1, <1>2
  <2>4. QED
    BY <2>1, <2>2, <2>3, Zenon
<1>6. CASE Fallback!StringEnd
  <2>1. /\ idx < n => b = Quote
        /\ in_string' = FALSE /\ unclosed_string' = (unclosed_string \/ idx >= n)
        /\ idx' = idx + 1 /\ UNCHANGED <<tail, error>>
    BY <1>0, <1>6, FallbackReads, Zenon DEF Fallback!StringEnd
  <2>2. ScannedTo(text, behind, e, idx+1, tail, FALSE, unclosed_string \/ idx >= n, error)
    BY <2>1, <1>3, StringEnds, Zenon
  <2>3. tail' = tail /\ error' = error /\ idx+1 \in Nat
    BY <2>1
  <2>4. QED
    BY <2>1, <2>2, <2>3, Zenon
<1>7. CASE Fallback!StringCharacter
  <2> DEFINE r == Fallback!validate_utf8_character
             m == r.idx
             res == r.error
  <2>1. /\ idx < n /\ b >= 128
        /\ idx' = m /\ error' = res /\ UNCHANGED <<tail, in_string, unclosed_string>>
    BY <1>0, <1>7, Zenon DEF Fallback!StringCharacter
  <2>2. /\ m \in Nat /\ idx < m
        /\ \A j \in idx..m-1 : j < Len(text) => At(text, j) >= 128
        /\ res \in {error, "UTF8_ERROR"}
        /\ \A k \in 2..4 :
             /\ Fits(Ahead(text, behind), idx, k)
             /\ idx + k <= Len(text) \/ (task \in Streaming /\ ~CutInTheMiddle(text))
             => res = error /\ (m < Len(text) => m = idx + k)
    BY <2>1, <1>0, CharacterRead, Zenon
  <2> HIDE DEF r, m, res
  <2>3. \A k \in 2..4 :
          /\ Fits(Ahead(text, behind), idx, k) /\ idx+k <= Len(text)+e
          /\ e # 0 => ~CutInTheMiddle(text)
          => res = error /\ (m < Len(text) => m = idx+k)
    <3> SUFFICES ASSUME NEW k \in 2..4, Fits(Ahead(text, behind), idx, k), idx+k <= Len(text)+e,
                        e # 0 => ~CutInTheMiddle(text)
                 PROVE  res = error /\ (m < Len(text) => m = idx+k)
      OBVIOUS
    <3>1. e = 0 => idx + k <= Len(text)
      BY <1>0
    <3>2. idx + k <= Len(text) \/ (task \in Streaming /\ ~CutInTheMiddle(text))
      BY <3>1
    <3>3. QED
      BY <3>2, <2>2, Zenon
  <2>4. ScannedTo(text, behind, e, m, tail, TRUE, unclosed_string, res)
    <3>1. idx \in 0..Len(text)-1 /\ At(text, idx) >= 128
      BY <2>1, <1>0
    <3>2. QED
      BY <3>1, <2>2, <2>3, <1>3, CharacterInString, Zenon
  <2>5. QED
    BY <2>1, <2>2, <2>4, <1>2, Zenon
<1>8. QED
  BY <1>4, <1>5, <1>6, <1>7

LEMMA ScanOutside ==
  ASSUME text \in Seq(Byte), behind \in Byte, idx \in Nat, NEW e \in Nat, ScannedAhead(e),
         \/ Fallback!StringStart \/ Fallback!Operator
         \/ Fallback!Whitespace \/ Fallback!Primitive
  PROVE  idx' \in Nat /\ ScannedTo(text, behind, e, idx', tail', in_string', unclosed_string', error')
<1> DEFINE n == Len(text)
           b == At(text, idx)
<1>0. /\ n \in Nat /\ Fallback!len = n /\ in_string = FALSE
      /\ idx < n /\ idx \in 0..n-1 /\ Fallback!Buf(idx) = b
  <2>1. in_string \in BOOLEAN
    BY Zenon DEF ScannedAhead, ScannedTo, Placed
  <2>2. ~in_string /\ idx < Fallback!len
    BY Zenon DEF Fallback!StringStart, Fallback!Operator, Fallback!Whitespace, Fallback!Primitive
  <2>3. QED
    BY <2>1, <2>2, FallbackReads
<1>1. ScannedTo(text, behind, e, idx, tail, FALSE, unclosed_string, error)
  BY <1>0, Zenon DEF ScannedAhead
<1>2. CASE Fallback!StringStart
  <2>1. /\ b = Quote /\ tail' = Append(tail, idx) /\ in_string' = TRUE /\ idx' = idx + 1
        /\ UNCHANGED <<unclosed_string, error>>
    BY <1>0, <1>2, FallbackReads, Zenon DEF Fallback!StringStart, Fallback!add_structural
  <2>2. ScannedTo(text, behind, e, idx+1, Append(tail, idx), TRUE, unclosed_string, error)
    BY <2>1, <1>0, <1>1, StringStarts, Zenon
  <2>3. unclosed_string' = unclosed_string /\ error' = error /\ idx+1 \in Nat
    BY <2>1, <1>0
  <2>4. QED
    BY <2>1, <2>2, <2>3, Zenon
<1>3. CASE Fallback!Operator
  <2>1. /\ b \in OperatorBytes /\ tail' = Append(tail, idx) /\ idx' = idx + 1
        /\ UNCHANGED <<in_string, unclosed_string, error>>
    BY <1>0, <1>3, FallbackReads, Zenon DEF Fallback!Operator, Fallback!add_structural
  <2>2. ScannedTo(text, behind, e, idx+1, Append(tail, idx), FALSE, unclosed_string, error)
    BY <2>1, <1>0, <1>1, OperatorListed, Zenon
  <2>3. /\ in_string' = FALSE /\ unclosed_string' = unclosed_string /\ error' = error
        /\ idx+1 \in Nat
    BY <2>1, <1>0
  <2>4. QED
    BY <2>1, <2>2, <2>3, Zenon
<1>4. CASE Fallback!Whitespace
  <2>1. /\ b \in WhitespaceBytes /\ idx' = idx + 1
        /\ UNCHANGED <<tail, in_string, unclosed_string, error>>
    BY <1>0, <1>4, FallbackReads, Zenon DEF Fallback!Whitespace, Fallback!indexVars
  <2>2. ScannedTo(text, behind, e, idx+1, tail, FALSE, unclosed_string, error)
    BY <2>1, <1>0, <1>1, WhitespaceSkipped, Zenon
  <2>3. /\ tail' = tail /\ in_string' = FALSE /\ unclosed_string' = unclosed_string
        /\ error' = error /\ idx+1 \in Nat
    BY <2>1, <1>0
  <2>4. QED
    BY <2>1, <2>2, <2>3, Zenon
<1>5. CASE Fallback!Primitive
  <2> DEFINE Stops(i) == i < n => At(text, i) \in OperatorBytes \cup WhitespaceBytes
             T == {i \in idx+1..n : Stops(i)}
             S == {i \in idx+1..Fallback!len :
                     i < Fallback!len => Fallback!Buf(i) \in Fallback!OperatorBytes
                                                               \cup Fallback!WhitespaceBytes}
             m == Fallback!Min(S)
  <2>1. /\ b \notin OperatorBytes \cup WhitespaceBytes \cup {Quote}
        /\ tail' = Append(tail, idx) /\ idx' = m
        /\ UNCHANGED <<in_string, unclosed_string, error>>
    BY <1>0, <1>5, FallbackReads, Zenon DEF Fallback!Primitive, Fallback!add_structural
  <2>2. S = T
    BY <1>0, FallbackReads
  <2>3. \E i \in T : \A y \in T : i <= y
    <3>1. n \in T /\ T \in SUBSET Nat
      BY <1>0
    <3> HIDE DEF T
    <3>2. QED
      BY <3>1, Smallest
  <2>4. m \in T /\ \A y \in T : m <= y
    <3>1. m = CHOOSE i \in T : \A y \in T : i <= y
      BY <2>2, Zenon DEF Fallback!Min
    <3> HIDE DEF T, m
    <3>2. QED
      BY <3>1, <2>3, Zenon
  <2> HIDE DEF m
  <2>5. m \in idx+1..Len(text) /\ Stops(m)
    BY <2>4
  <2>6. \A j \in idx..m-1 : At(text, j) \notin OperatorBytes \cup WhitespaceBytes
    <3> SUFFICES ASSUME NEW j \in idx..m-1
                 PROVE  At(text, j) \notin OperatorBytes \cup WhitespaceBytes
      OBVIOUS
    <3>1. CASE j = idx
      BY <3>1, <2>1
    <3>2. CASE j # idx
      <4>1. j \in idx+1..n /\ j < n /\ ~(m <= j)
        BY <3>2, <2>5, <1>0
      <4>2. j \notin T
        <5> HIDE DEF T
        <5>1. QED
          BY <4>1, <2>4
      <4>3. ~Stops(j)
        BY <4>1, <4>2
      <4>4. QED
        BY <4>1, <4>3
    <3>3. QED
      BY <3>1, <3>2
  <2>7. ScannedTo(text, behind, e, m, Append(tail, idx), FALSE, unclosed_string, error)
    <3>1. At(text, idx) # Quote /\ idx \in 0..Len(text)-1
          /\ (m < Len(text) => At(text, m) \in OperatorBytes \cup WhitespaceBytes)
      BY <2>1, <2>5, <1>0
    <3>2. QED
      BY <3>1, <2>5, <2>6, <1>1, PrimitiveListed, Zenon
  <2>8. m \in Nat
    BY <2>5
  <2>9. QED
    BY <2>1, <2>7, <2>8, <1>0, Zenon
<1>6. QED
  BY <1>2, <1>3, <1>4, <1>5

-----------------------------------------------------------------------------
(* What the end of stage 1 makes of it, in the terms of the promise.        *)
LEMMA GoodAgrees ==
  ASSUME NEW B, NEW C, NEW n \in Nat, \A i \in Int : i < n => B[i] = C[i]
  PROVE  Good(B, 0, n) <=> Good(C, 0, n)
<1>1. \A j \in 0..n-1 : Misplaced(B, j) <=> Misplaced(C, j)
  <2> SUFFICES ASSUME NEW j \in 0..n-1
               PROVE  Misplaced(B, j) <=> Misplaced(C, j)
    OBVIOUS
  <2>1. B[j] = C[j] /\ B[j-1] = C[j-1] /\ B[j-2] = C[j-2] /\ B[j-3] = C[j-3]
    OBVIOUS
  <2>2. QED
    BY <2>1, Zenon DEF Misplaced
<1>2. Cut(B, n) <=> Cut(C, n)
  <2>1. B[n-1] = C[n-1] /\ B[n-2] = C[n-2] /\ B[n-3] = C[n-3]
    OBVIOUS
  <2>2. QED
    BY <2>1, Zenon DEF Cut
<1>3. QED
  BY <1>1, <1>2, Zenon DEF Good

(* A text is valid with e bytes more if nothing is misplaced up to there.   *)
LEMMA AheadIsGood ==
  ASSUME NEW t \in Seq(Byte), NEW x \in Byte, NEW e \in Nat
  PROVE  /\ ValidUtf8(t \o [k \in 1..e |-> x]) <=> Good(Ahead(t, x), 0, Len(t)+e)
         /\ ValidUtf8(t) <=> Good(Ahead(t, x), 0, Len(t))
<1> DEFINE n == Len(t)
           B == Ahead(t, x)
           s == [k \in 1..e |-> x]
           u == t \o s
<1>0. n \in Nat /\ n \in 0..n /\ n+e \in Nat /\ n+e \in 0..n+e
  OBVIOUS
<1>1. s \in Seq(Byte) /\ Len(s) = e
  <2>1. s \in [1..e -> Byte] /\ DOMAIN s = 1..e
    OBVIOUS
  <2> HIDE DEF s
  <2>2. s \in Seq(Byte)
    BY <2>1
  <2>3. QED
    BY <2>1, <2>2
<1>2. /\ u \in Seq(Byte) /\ Len(u) = n+e
      /\ \A i \in 1..n : u[i] = t[i]
      /\ \A i \in 1..e : u[n+i] = x
  <2>1. \A i \in 1..e : s[i] = x
    OBVIOUS
  <2> HIDE DEF s
  <2>2. QED
    BY <2>1, <1>0, <1>1
<1> HIDE DEF u, s
<1>3. /\ \A i \in 0..n-1 : B[i] = At(t, i)
      /\ \A i \in Int : i >= n => B[i] = x
      /\ \A i \in Int : i < 0 => B[i] = 0
  BY AheadOfText
<1> HIDE DEF B
<1>4. \A i \in Int : i < n+e => Line(u, n+e)[i] = B[i]
  <2> SUFFICES ASSUME NEW i \in Int, i < n+e
               PROVE  Line(u, n+e)[i] = B[i]
    OBVIOUS
  <2>1. /\ \A j \in 0..(n+e)-1 : Line(u, n+e)[j] = At(u, j)
        /\ \A j \in Int : j < 0 => Line(u, n+e)[j] = 0
    BY <1>0, <1>2, LineOfText
  <2>2. CASE i < 0
    BY <2>1, <2>2, <1>3
  <2>3. CASE i >= 0 /\ i < n
    <3>1. Line(u, n+e)[i] = At(u, i)
      BY <2>1, <2>3, <1>0
    <3>2. At(u, i) = At(t, i)
      BY <2>3, <1>0, <1>2 DEF At
    <3>3. B[i] = At(t, i)
      BY <2>3, <1>0, <1>3
    <3>4. QED
      BY <3>1, <3>2, <3>3
  <2>4. CASE i >= n
    <3>1. Line(u, n+e)[i] = At(u, i)
      BY <2>1, <2>4, <1>0
    <3>2. At(u, i) = x
      <4> DEFINE h == (i - n) + 1
      <4>1. h \in 1..e /\ n+h = i+1
        BY <2>4, <1>0
      <4> HIDE DEF h
      <4>2. QED
        BY <4>1, <1>2, Zenon DEF At
    <3>3. B[i] = x
      BY <2>4, <1>3
    <3>4. QED
      BY <3>1, <3>2, <3>3
  <2>5. QED
    BY <2>2, <2>3, <2>4, <1>0
<1>5. \A i \in Int : i < n => Line(t, n)[i] = B[i]
  <2> SUFFICES ASSUME NEW i \in Int, i < n
               PROVE  Line(t, n)[i] = B[i]
    OBVIOUS
  <2>1. /\ \A j \in 0..n-1 : Line(t, n)[j] = At(t, j)
        /\ \A j \in Int : j < 0 => Line(t, n)[j] = 0
    BY <1>0, LineOfText
  <2>2. QED
    BY <2>1, <1>0, <1>3
<1>6. ValidUtf8(u) <=> Good(B, 0, n+e)
  <2>1. ValidUtf8(u) <=> Good(Line(u, n+e), 0, n+e)
    BY <1>2, ValidIsGood
  <2>2. QED
    BY <2>1, <1>0, <1>4, GoodAgrees
<1>7. ValidUtf8(t) <=> Good(B, 0, n)
  BY <1>0, <1>5, GoodAgrees, ValidIsGood
<1>8. QED
  BY <1>6, <1>7 DEF B, u, s

LEMMA FallbackComputes ==
  /\ \A t : Fallback!Classes(t) = Classes(t)
  /\ \A t, s, n : Fallback!FindNextDocumentIndex(t, s, n) = FindNextDocumentIndex(t, s, n)
<1>1. \A t : Fallback!Classes(t) = Classes(t)
  BY Zenon DEF Fallback!Classes, Classes, Fallback!EscapedBytes, EscapedBytes,
               Fallback!At, At, Fallback!Backslash, Backslash, Fallback!Quote, Quote,
               Fallback!Space, Space, Fallback!WhitespaceBytes, WhitespaceBytes,
               Fallback!Blank, Blank
<1>2. ASSUME NEW t, NEW s, NEW n
      PROVE  Fallback!FindNextDocumentIndex(t, s, n) = FindNextDocumentIndex(t, s, n)
  <2> DEFINE Token(k) == At(t, s[k + 1])
             Boundary(k) == /\ Token(k) \notin {"}", "]", ":", ","}
                            /\ Token(k - 1) \notin {"{", "[", ":", ","}
             Pairs == {0} \cup {k \in 1..n-1 : Boundary(k)}
             Count(m, c) == Cardinality({k \in m..n-1 : Token(k) = c})
             CountF(m, c) == Fallback!Cardinality({k \in m..n-1 : Token(k) = c})
             Search(m) == IF \/ n = 0
                             \/ Count(m, "[") = Count(m, "]") /\ Count(m, "{") = Count(m, "}")
                          THEN n ELSE m
             SearchF(m) == IF \/ n = 0
                              \/ CountF(m, "[") = CountF(m, "]")
                                   /\ CountF(m, "{") = CountF(m, "}")
                           THEN n ELSE m
  <2>1. \A m, c : CountF(m, c) = Count(m, c)
    BY Zenon DEF Fallback!Cardinality, Cardinality
  <2>2. Fallback!Max(Pairs) = Max(Pairs)
    BY Zenon DEF Fallback!Max, Max
  <2>3. FindNextDocumentIndex(t, s, n) = Search(Max(Pairs))
    BY Zenon DEF FindNextDocumentIndex
  <2>4. Fallback!FindNextDocumentIndex(t, s, n) = SearchF(Fallback!Max(Pairs))
    BY Zenon DEF Fallback!FindNextDocumentIndex, Fallback!At, At
  <2> HIDE DEF Pairs, Count, CountF
  <2>5. \A m : SearchF(m) = Search(m)
    BY <2>1, Zenon
  <2> HIDE DEF Search, SearchF
  <2>6. QED
    BY <2>2, <2>3, <2>4, <2>5
<1>3. QED
  BY <1>1, <1>2, Zenon

(* The answer of scan() to a document, and to a window without errors.      *)
LEMMA FinishScanLeaves ==
  LET n      == Len(tail)
      padded == tail \o <<Len(text), Len(text), 0>>
      a      == Fallback!FinishScan
  IN  /\ task = "regular" =>
           /\ a.idx = padded
           /\ a.err = IF n = 0 THEN "EMPTY"
                      ELSE IF unclosed_string THEN "UNCLOSED_STRING" ELSE error
      /\ task \in Streaming /\ error = "SUCCESS" =>
           a = WindowLeft(Classes(text), Len(text), task, tail, unclosed_string)
<1> DEFINE m        == Len(text)
           n        == Len(tail)
           padded   == tail \o <<m, m, 0>>
           kept     == IF unclosed_string THEN n - 1 ELSE n
           complete == FindNextDocumentIndex(Classes(text), padded, kept)
           final    == [padded EXCEPT ![complete + 2] = padded[complete + 1],
                                      ![complete + 1] = m]
           Leave(err, k, i) == [err |-> err, n |-> k, idx |-> i]
           a == Fallback!FinishScan
<1>1. a = IF n = 0 THEN Leave("EMPTY", 0, padded)
          ELSE CASE task = "regular" ->
                      Leave(IF unclosed_string THEN "UNCLOSED_STRING" ELSE error, n, padded)
                 [] task = "streaming_final" ->
                      Leave(IF complete = 0 THEN "EMPTY" ELSE error, complete, final)
                 [] task = "streaming_partial" ->
                      IF complete > 0 THEN Leave(error, complete, padded)
                      ELSE IF kept = 0 \/ padded[1] = 0
                      THEN Leave("CAPACITY", kept, padded)
                      ELSE Leave("EMPTY", 0, padded)
  <2> DEFINE found == Fallback!FindNextDocumentIndex(Fallback!Classes(text), padded, kept)
             last  == [padded EXCEPT ![found + 2] = padded[found + 1], ![found + 1] = m]
  <2>1. a = IF n = 0 THEN Leave("EMPTY", 0, padded)
            ELSE CASE task = "regular" ->
                        Leave(IF unclosed_string THEN "UNCLOSED_STRING" ELSE error, n, padded)
                   [] task = "streaming_final" ->
                        Leave(IF found = 0 THEN "EMPTY" ELSE error, found, last)
                   [] task = "streaming_partial" ->
                        IF found > 0 THEN Leave(error, found, padded)
                        ELSE IF kept = 0 \/ padded[1] = 0
                        THEN Leave("CAPACITY", kept, padded)
                        ELSE Leave("EMPTY", 0, padded)
    BY Zenon DEF Fallback!FinishScan, Fallback!len
  <2>2. found = complete
    BY FallbackComputes, Zenon
  <2> HIDE DEF found, complete, a, Leave, kept, n
  <2>3. last = final
    BY <2>2
  <2> HIDE DEF last, final, padded
  <2>4. QED
    BY <2>1, <2>2, <2>3
<1>2. WindowLeft(Classes(text), m, task, tail, unclosed_string) =
        IF n = 0 THEN Leave("EMPTY", 0, padded)
        ELSE IF task = "streaming_final"
             THEN Leave(IF complete = 0 THEN "EMPTY" ELSE "SUCCESS", complete, final)
        ELSE IF complete > 0 THEN Leave("SUCCESS", complete, padded)
        ELSE IF kept = 0 \/ padded[1] = 0 THEN Leave("CAPACITY", kept, padded)
        ELSE Leave("EMPTY", 0, padded)
  BY Zenon DEF WindowLeft
<1>3. \A err, k, i : Leave(err, k, i).err = err /\ Leave(err, k, i).idx = i
  OBVIOUS
<1> HIDE DEF kept, complete, final, padded, n, a, Leave
<1>4. task = "regular" =>
        /\ a.idx = padded
        /\ a.err = IF n = 0 THEN "EMPTY"
                   ELSE IF unclosed_string THEN "UNCLOSED_STRING" ELSE error
  BY <1>1, <1>3
<1>5. task \in Streaming /\ error = "SUCCESS" =>
        a = WindowLeft(Classes(text), m, task, tail, unclosed_string)
  BY <1>1, <1>2 DEF Streaming
<1>6. QED
  BY <1>4, <1>5, Zenon DEF n, padded, a

(* At the end of the text its tokens are listed.                            *)
LEMMA AllTokens ==
  ASSUME NEW t \in Seq(Byte), NEW i \in Nat, Len(t) <= i
  PROVE  TokensBefore(t, i) = {j \in 0..Len(t)-1 : StructuralStart(Classes(t), j)}
<1>1. \A j \in 0..Len(t)-1 : j < i
  OBVIOUS
<1>2. QED
  BY <1>1, Zenon DEF TokensBefore

LEMMA TokensOfWindow ==
  ASSUME NEW t \in Seq(Byte), NEW i \in 0..Len(t), NEW l, Lists(l, TokensBefore(t, i))
  PROVE  l = Structurals(Window(Classes(t), 0, i))
<1> DEFINE c == Classes(t)
           w == Window(c, 0, i)
           n == Len(t)
<1>0. i \in Nat /\ n \in Nat
  OBVIOUS
<1>1. c = [k \in 1..n |-> c[k]]
  BY DEF Classes
<1> HIDE DEF c
<1>2. Len(w) = i /\ \A j \in 0..i-1 : StructuralStart(w, j) <=> StructuralStart(c, j)
  BY <1>0, <1>1, WindowOfClasses, Zenon
<1> HIDE DEF w
<1>3. Lists(Structurals(w), {j \in 0..i-1 : StructuralStart(w, j)})
  BY <1>0, <1>2, StructuralsList
<1>4. {j \in 0..i-1 : StructuralStart(w, j)} = TokensBefore(t, i)
  <2>1. \A j : j \in 0..i-1 <=> j \in 0..n-1 /\ j < i
    BY <1>0
  <2>2. QED
    BY <2>1, <1>2 DEF TokensBefore, c
<1>5. TokensBefore(t, i) \in SUBSET Nat
  BY DEF TokensBefore
<1>6. QED
  BY <1>3, <1>4, <1>5, ListsUnique, Zenon DEF w, c

(* What is known at the end of the scan.                                    *)
LEMMA ScannedWhole ==
  ASSUME text \in Seq(Byte), idx \in Nat, Len(text) <= idx, NEW e, ScannedAhead(e), ~in_string
  PROVE  /\ tail \in Seq(Nat) /\ unclosed_string \in BOOLEAN
         /\ Oddities(text) = {} =>
              /\ Lists(tail, TokensBefore(text, Len(text)))
              /\ unclosed_string <=> StringTail(Classes(text), Len(text))
              /\ UnescapedControls(text) # {} => error # "SUCCESS"
         /\ \A o \in Oddities(text) :
              Plain(text, o) => \E r : Lists(r, TokensBefore(text, o)) /\ Begins(r, tail)
         /\ Clean(text, behind, e) => error = "SUCCESS"
<1> DEFINE t == text
           n == Len(text)
<1>0. n \in Nat /\ n <= n
  OBVIOUS
<1>1. /\ ListedTo(t, idx, tail) /\ Placed(t, idx, in_string, unclosed_string)
      /\ Errs(t, behind, e, idx, in_string, error)
  BY Zenon DEF ScannedAhead, ScannedTo
<1>2. tail \in Seq(Nat) /\ unclosed_string \in BOOLEAN
  BY <1>1, Zenon DEF ListedTo, Placed
<1>3. Clean(t, behind, e) => error = "SUCCESS"
  BY <1>1, Zenon DEF Errs
<1>4. \A o \in Oddities(t) : o < idx
  BY <1>0, OdditiesInText
<1>5. \A o \in Oddities(t) :
        Plain(t, o) => \E r : Lists(r, TokensBefore(t, o)) /\ Begins(r, tail)
  BY <1>1, <1>4, Zenon DEF ListedTo
<1>6. ASSUME Oddities(t) = {}
      PROVE  /\ Lists(tail, TokensBefore(t, n))
             /\ unclosed_string <=> StringTail(Classes(t), n)
             /\ UnescapedControls(t) # {} => error # "SUCCESS"
  <2>1. Plain(t, idx)
    BY <1>6, NoneIsPlain
  <2>2. TokensBefore(t, idx) = TokensBefore(t, n)
    BY <1>0, AllTokens
  <2>3. Lists(tail, TokensBefore(t, n))
    <3>1. Lists(tail, TokensBefore(t, idx))
      BY <2>1, <1>1, Zenon DEF ListedTo
    <3>2. QED
      BY <2>2, <3>1
  <2>4. unclosed_string <=> StrAt(t, n, idx)
    BY <2>1, <1>1, Zenon DEF Placed
  <2>5. (IF idx <= n THEN idx ELSE n) = n
    BY <1>0
  <2>6. unclosed_string <=> StringTail(Classes(t), n)
    BY <2>4, <2>5, Zenon DEF StrAt
  <2>7. \A j \in UnescapedControls(t) : j < idx
    BY <1>0 DEF UnescapedControls, StringContents
  <2>8. UnescapedControls(t) # {} => error # "SUCCESS"
    <3> SUFFICES ASSUME NEW j \in UnescapedControls(t)
                 PROVE  error # "SUCCESS"
      BY Zenon
    <3>1. QED
      BY <2>7, <1>1, <1>6, Zenon DEF Errs
  <2>9. QED
    BY <2>3, <2>6, <2>8
<1>7. QED
  BY <1>2, <1>3, <1>5, <1>6, Zenon

LEMMA ScannedDocument ==
  ASSUME text \in Seq(Byte), behind \in Byte, idx \in Nat, Len(text) <= idx,
         ScannedAhead(0), ~in_string, task = "regular"
  PROVE  Promise!WholeDocument(text, Fallback!FinishScan)
<1> DEFINE t == text
           n == Len(text)
           c == Classes(text)
           a == Fallback!FinishScan
           more == <<n, n, 0>>
<1>0. n \in Nat /\ n \in 0..n
  OBVIOUS
<1>1. /\ a.idx = tail \o more
      /\ a.err = IF Len(tail) = 0 THEN "EMPTY"
                 ELSE IF unclosed_string THEN "UNCLOSED_STRING" ELSE error
  BY FinishScanLeaves, Zenon
<1> HIDE DEF a
<1>2. /\ tail \in Seq(Nat) /\ unclosed_string \in BOOLEAN
      /\ Oddities(t) = {} =>
           /\ Lists(tail, TokensBefore(t, n))
           /\ unclosed_string <=> StringTail(c, n)
           /\ UnescapedControls(t) # {} => error # "SUCCESS"
      /\ \A o \in Oddities(t) :
           Plain(t, o) => \E r : Lists(r, TokensBefore(t, o)) /\ Begins(r, tail)
      /\ Clean(t, behind, 0) => error = "SUCCESS"
  BY ScannedWhole, Zenon
<1>3. Len(tail) = 0 <=> tail = <<>>
  BY <1>2
<1>4. Oddities(t) = {} => tail = Structurals(c) /\ (unclosed_string <=> UnclosedString(c))
  <2> SUFFICES ASSUME Oddities(t) = {}
               PROVE  tail = Structurals(c) /\ (unclosed_string <=> UnclosedString(c))
    OBVIOUS
  <2>1. tail = Structurals(Window(c, 0, n))
    BY <1>0, <1>2, TokensOfWindow
  <2>2. Window(c, 0, n) = c
    BY WholeClasses
  <2>3. Len(c) = n
    BY ClassesAreASequence
  <2> HIDE DEF c
  <2>4. QED
    BY <2>1, <2>2, <2>3, <1>2, Zenon DEF UnclosedString
<1>5. MustFail(t) /\ Oddities(t) = {} => a.err # "SUCCESS"
  <2> SUFFICES ASSUME MustFail(t), Oddities(t) = {}
               PROVE  a.err # "SUCCESS"
    OBVIOUS
  <2>1. UnclosedString(c) \/ Structurals(c) = <<>> \/ UnescapedControls(t) # {}
    BY Zenon DEF MustFail, UnescapedControls
  <2>2. unclosed_string \/ Len(tail) = 0 \/ error # "SUCCESS"
    BY <2>1, <1>2, <1>3, <1>4, Zenon
  <2>3. QED
    BY <2>2, <1>1
<1>6. ~MayFail(t) /\ Oddities(t) = {} =>
        a.err = "SUCCESS" /\ a.idx = Promise!WithSentinels(Structurals(c), n)
  <2> SUFFICES ASSUME ~MayFail(t), Oddities(t) = {}
               PROVE  a.err = "SUCCESS" /\ a.idx = Promise!WithSentinels(Structurals(c), n)
    OBVIOUS
  <2>1. /\ ~UnclosedString(c) /\ Structurals(c) # <<>> /\ ~ControlInString(t)
        /\ ValidUtf8(t) /\ ~CharacterEscaped(t)
    BY Zenon DEF MayFail, MustFail
  <2>2. Good(Ahead(t, behind), 0, n)
    <3>1. 0 \in Nat
      OBVIOUS
    <3>2. QED
      BY <3>1, <2>1, AheadIsGood, Zenon
  <2>3. Clean(t, behind, 0)
    <3>1. n + 0 = n
      BY <1>0
    <3>2. QED
      BY <3>1, <2>1, <2>2, Zenon DEF Clean
  <2>4. error = "SUCCESS" /\ Len(tail) # 0 /\ ~unclosed_string
    BY <2>1, <2>3, <1>2, <1>3, <1>4, Zenon
  <2>5. a.err = "SUCCESS"
    BY <2>4, <1>1
  <2>6. QED
    BY <2>5, <1>1, <1>4, Zenon DEF Promise!WithSentinels
<1>7. a.err = "SUCCESS" /\ Oddities(t) # {} =>
        IsPrefix(Structurals(Window(c, 0, Min(Oddities(t)))), a.idx)
  <2> SUFFICES ASSUME Oddities(t) # {}
               PROVE  IsPrefix(Structurals(Window(c, 0, Min(Oddities(t)))), a.idx)
    OBVIOUS
  <2> DEFINE o == Min(Oddities(t))
  <2>1. o \in Oddities(t) /\ o \in 0..n-1 /\ Plain(t, o)
    BY FirstOddity, Zenon DEF Plain
  <2> HIDE DEF o
  <2>2. PICK r : Lists(r, TokensBefore(t, o)) /\ Begins(r, tail)
    BY <2>1, <1>2, Zenon
  <2>3. o \in 0..n
    BY <2>1, <1>0
  <2>4. r = Structurals(Window(c, 0, o))
    BY <2>2, <2>3, TokensOfWindow
  <2>5. r \in Seq(Nat) /\ more \in Seq(Nat)
    <3>1. more \in Seq(Nat)
      BY <1>0
    <3>2. QED
      BY <3>1, <2>2, Zenon DEF Lists
  <2> HIDE DEF more, c
  <2>6. IsPrefix(r, tail \o more)
    BY <2>2, <2>5, <1>2, ListsPrefix
  <2>7. QED
    BY <2>4, <2>6, <1>1 DEF o
<1>8. /\ Promise!Oddities(t) = Oddities(t) /\ Promise!Classes(t) = c
      /\ \A s : Promise!Structurals(s) = Structurals(s)
      /\ \A s, x, y : Promise!Window(s, x, y) = Window(s, x, y)
      /\ \A s : Promise!Min(s) = Min(s)
      /\ \A s, u : Promise!IsPrefix(s, u) = IsPrefix(s, u)
      /\ Promise!MustFail(t) = MustFail(t) /\ Promise!MayFail(t) = MayFail(t)
  BY PromiseReads, PromiseComputes, PromiseFails, Zenon
<1> HIDE DEF c, n
<1>9. Promise!WholeDocument(t, a) <=>
        /\ MustFail(t) /\ Oddities(t) = {} => a.err # "SUCCESS"
        /\ ~MayFail(t) /\ Oddities(t) = {} =>
             /\ a.err = "SUCCESS"
             /\ a.idx = Promise!WithSentinels(Structurals(c), n)
        /\ a.err = "SUCCESS" /\ Oddities(t) # {} =>
             IsPrefix(Structurals(Window(c, 0, Min(Oddities(t)))), a.idx)
  BY <1>8, Zenon DEF Promise!WholeDocument, n
<1>10. QED
  BY <1>5, <1>6, <1>7, <1>9, Zenon DEF a

(* The answers to a window agree but for what is behind the indexes.        *)
SameIndexes(a, b) == /\ a.err = b.err /\ a.n = b.n
                     /\ a.n > 0 => SubSeq(a.idx, 1, a.n+1) = SubSeq(b.idx, 1, a.n+1)

(* Where the text ends does not matter to a window that ends within a       *)
(* string.                                                                  *)
LEMMA SameLeft ==
  ASSUME NEW c, NEW n \in Nat, NEW m \in Nat, NEW l \in Seq(Nat)
  PROVE  SameIndexes(WindowLeft(c, n, "streaming_partial", l, TRUE),
                     WindowLeft(c, m, "streaming_partial", l, TRUE))
<1> DEFINE a == WindowLeft(c, n, "streaming_partial", l, TRUE)
           b == WindowLeft(c, m, "streaming_partial", l, TRUE)
           N == Len(l)
           more(i) == <<i, i, 0>>
           padded(i) == l \o more(i)
           cut(i) == FindNextDocumentIndex(c, padded(i), N - 1)
           Leave(err, k, i) == [err |-> err, n |-> k, idx |-> i]
           Left(i) == IF N = 0 THEN Leave("EMPTY", 0, padded(i))
                      ELSE IF cut(i) > 0 THEN Leave("SUCCESS", cut(i), padded(i))
                      ELSE IF N - 1 = 0 \/ padded(i)[1] = 0
                           THEN Leave("CAPACITY", N - 1, padded(i))
                      ELSE Leave("EMPTY", 0, padded(i))
<1> SUFFICES /\ a.err = b.err /\ a.n = b.n
             /\ a.n > 0 => SubSeq(a.idx, 1, a.n+1) = SubSeq(b.idx, 1, a.n+1)
  BY Zenon DEF SameIndexes
<1>1. N \in Nat /\ n \in Nat /\ m \in Nat
  OBVIOUS
<1>2. a = Left(n) /\ b = Left(m)
  <2>1. "streaming_partial" # "streaming_final"
    OBVIOUS
  <2>2. a = IF N = 0 THEN Leave("EMPTY", 0, padded(n))
            ELSE IF "streaming_partial" = "streaming_final"
                 THEN Leave(IF cut(n) = 0 THEN "EMPTY" ELSE "SUCCESS", cut(n),
                            [padded(n) EXCEPT ![cut(n) + 2] = padded(n)[cut(n) + 1],
                                              ![cut(n) + 1] = n])
            ELSE IF cut(n) > 0 THEN Leave("SUCCESS", cut(n), padded(n))
            ELSE IF N - 1 = 0 \/ padded(n)[1] = 0 THEN Leave("CAPACITY", N - 1, padded(n))
            ELSE Leave("EMPTY", 0, padded(n))
    BY DEF WindowLeft
  <2>3. b = IF N = 0 THEN Leave("EMPTY", 0, padded(m))
            ELSE IF "streaming_partial" = "streaming_final"
                 THEN Leave(IF cut(m) = 0 THEN "EMPTY" ELSE "SUCCESS", cut(m),
                            [padded(m) EXCEPT ![cut(m) + 2] = padded(m)[cut(m) + 1],
                                              ![cut(m) + 1] = m])
            ELSE IF cut(m) > 0 THEN Leave("SUCCESS", cut(m), padded(m))
            ELSE IF N - 1 = 0 \/ padded(m)[1] = 0 THEN Leave("CAPACITY", N - 1, padded(m))
            ELSE Leave("EMPTY", 0, padded(m))
    BY DEF WindowLeft
  <2> HIDE DEF a, b, padded, cut, Leave, N
  <2>4. QED
    BY <2>1, <2>2, <2>3
<1> HIDE DEF a, b
<1>3. \A i \in Nat : \A k \in 1..N : padded(i)[k] = l[k]
  <2> SUFFICES ASSUME NEW i \in Nat
               PROVE  \A k \in 1..N : padded(i)[k] = l[k]
    OBVIOUS
  <2>1. more(i) \in Seq(Nat)
    OBVIOUS
  <2> HIDE DEF more
  <2>2. QED
    BY <2>1, ConcatProperties
<1>4. \A i \in Nat : padded(i) \in Seq(Nat) /\ Len(padded(i)) >= N
  <2> SUFFICES ASSUME NEW i \in Nat
               PROVE  padded(i) \in Seq(Nat) /\ Len(padded(i)) >= N
    OBVIOUS
  <2>1. more(i) \in Seq(Nat) /\ Len(more(i)) \in Nat
    OBVIOUS
  <2> HIDE DEF more
  <2>2. QED
    BY <2>1, <1>1, ConcatProperties
<1> HIDE DEF padded
<1>5. N # 0 => cut(n) = cut(m) /\ cut(n) \in Nat /\ cut(n) + 1 <= N
  <2> SUFFICES ASSUME N # 0
               PROVE  cut(n) = cut(m) /\ cut(n) \in Nat /\ cut(n) + 1 <= N
    OBVIOUS
  <2> DEFINE kept == N - 1
  <2>1. kept \in Nat /\ kept + 1 = N /\ \A k \in 1..kept : k \in 1..N
    BY <1>1
  <2> HIDE DEF kept, N
  <2>2. \A k \in 1..kept : At(c, padded(n)[k]) = At(c, padded(m)[k])
    BY <2>1, <1>1, <1>3
  <2>3. FindNextDocumentIndex(c, padded(n), kept) = FindNextDocumentIndex(c, padded(m), kept)
    BY <2>1, <2>2, SameTokensSameCut
  <2>4. FindNextDocumentIndex(c, padded(n), kept) \in 0..kept
    BY <2>1, CutsWithinIndexes
  <2>5. QED
    BY <2>1, <2>3, <2>4 DEF kept
<1> HIDE DEF cut
<1>6. \A j \in Nat : 1 <= j /\ j <= N => SubSeq(padded(n), 1, j) = SubSeq(padded(m), 1, j)
  <2> SUFFICES ASSUME NEW j \in Nat, 1 <= j, j <= N
               PROVE  SubSeq(padded(n), 1, j) = SubSeq(padded(m), 1, j)
    OBVIOUS
  <2>1. ASSUME NEW i \in Nat
        PROVE  SubSeq(padded(i), 1, j) = [k \in 1..j |-> l[k]]
    <3>1. SubSeq(padded(i), 1, j) = [k \in 1..(j - 1) + 1 |-> padded(i)[(1 + k) - 1]]
      BY <1>4
    <3>2. (j - 1) + 1 = j
      OBVIOUS
    <3>3. \A k \in 1..j : (1 + k) - 1 = k /\ k \in 1..N
      BY <1>1
    <3>4. \A k \in 1..j : padded(i)[(1 + k) - 1] = l[k]
      BY <3>3, <1>3
    <3>5. QED
      BY <3>1, <3>2, <3>4, Zenon
  <2>2. QED
    BY <2>1, <1>1, Zenon
<1>7. N # 0 => padded(n)[1] = padded(m)[1]
  <2>1. N # 0 => 1 \in 1..N
    BY <1>1
  <2>2. QED
    BY <2>1, <1>1, <1>3
<1>8. \A err, k, i : /\ Leave(err, k, i).err = err /\ Leave(err, k, i).n = k
                     /\ Leave(err, k, i).idx = i
  OBVIOUS
<1> HIDE DEF N, Leave
<1>9. CASE N = 0
  <2>1. a = Leave("EMPTY", 0, padded(n)) /\ b = Leave("EMPTY", 0, padded(m))
    BY <1>2, <1>9
  <2>2. QED
    BY <2>1, <1>8
<1>10. CASE N # 0 /\ cut(n) > 0
  <2>1. a = Leave("SUCCESS", cut(n), padded(n)) /\ b = Leave("SUCCESS", cut(n), padded(m))
    BY <1>2, <1>5, <1>10
  <2>2. cut(n) + 1 \in Nat /\ 1 <= cut(n) + 1 /\ cut(n) + 1 <= N
    BY <1>5, <1>10
  <2>3. QED
    BY <2>1, <2>2, <1>6, <1>8
<1>11. CASE N # 0 /\ ~(cut(n) > 0) /\ (N - 1 = 0 \/ padded(n)[1] = 0)
  <2>1. a = Leave("CAPACITY", N - 1, padded(n)) /\ b = Leave("CAPACITY", N - 1, padded(m))
    BY <1>2, <1>5, <1>7, <1>11
  <2>2. SubSeq(padded(n), 1, N) = SubSeq(padded(m), 1, N)
    BY <1>1, <1>6, <1>11
  <2>3. (N - 1) + 1 = N
    BY <1>1
  <2>4. /\ a.err = "CAPACITY" /\ a.n = N - 1 /\ a.idx = padded(n)
        /\ b.err = "CAPACITY" /\ b.n = N - 1 /\ b.idx = padded(m)
    BY <2>1, <1>8
  <2>5. a.n + 1 = N
    BY <2>3, <2>4, Zenon
  <2>6. SubSeq(a.idx, 1, a.n+1) = SubSeq(b.idx, 1, a.n+1)
    BY <2>2, <2>4, <2>5, Zenon
  <2>7. QED
    BY <2>4, <2>6, Zenon
<1>12. CASE N # 0 /\ ~(cut(n) > 0) /\ ~(N - 1 = 0 \/ padded(n)[1] = 0)
  <2>1. a = Leave("EMPTY", 0, padded(n)) /\ b = Leave("EMPTY", 0, padded(m))
    BY <1>2, <1>5, <1>7, <1>12
  <2>2. QED
    BY <2>1, <1>8
<1>13. QED
  BY <1>9, <1>10, <1>11, <1>12, Zenon

LEMMA ScannedWindow ==
  ASSUME text \in Seq(Byte), behind \in Byte, idx \in Nat, Len(text) <= idx,
         \A e \in Extra : ScannedAhead(e), ~in_string, task \in Streaming, Settled,
         kernel = "fallback"
  PROVE  Promise!Batch(text, task, Fallback!FinishScan)
<1> DEFINE t == text
           n == Len(text)
           c == Classes(text)
           a == Fallback!FinishScan
           r == Stage1(NewParser(0), Classes(text), 0, Len(text), task)
<1>0. n \in Nat /\ n \in 0..n
  OBVIOUS
<1>1. Promise!Window1(t, task) = r
  BY PromiseReads, PromiseComputes, Zenon DEF Promise!Window1
<1>2. SUFFICES ASSUME Promise!WindowOfStream(t), ~ControlInString(t), ~CharacterEscaped(t),
                      Oddities(t) = {}, t # <<>>
               PROVE  /\ a.err = r.err /\ a.n = r.parser.n
                      /\ a.n > 0 => SubSeq(a.idx, 1, a.n+1) = SubSeq(r.parser.idx, 1, a.n+1)
  <2> HIDE DEF a, r
  <2>1. ASSUME /\ a.err = r.err /\ a.n = r.parser.n
               /\ a.n > 0 => SubSeq(a.idx, 1, a.n+1) = SubSeq(r.parser.idx, 1, a.n+1)
        PROVE  /\ a.err = r.err /\ a.n = r.parser.n
               /\ a.n > 0 => SubSeq(a.idx, 1, a.n + 1) = SubSeq(r.parser.idx, 1, a.n + 1)
    BY <2>1, Zenon
  <2>2. QED
    BY <2>1, <1>1, PromiseReads, PromiseFails, Zenon DEF Promise!Batch, a
<1> HIDE DEF r
<1>3. PICK e \in Extra : Promise!ValidUtf8(t \o [k \in 1..e |-> behind])
  <2> DEFINE M == IF task = "streaming_partial" THEN 0..3 ELSE {0}
  <2>1. \E k \in M : Promise!ValidUtf8(t \o [j \in 1..k |-> behind])
    BY <1>2, Zenon DEF Promise!WindowOfStream
  <2>2. M = Extra
    BY Zenon DEF Extra
  <2> HIDE DEF M
  <2>3. QED
    BY <2>1, <2>2, Zenon
<1>4. ValidUtf8(t \o [k \in 1..e |-> behind])
  BY <1>3, PromiseComputes, Zenon
<1>5. ~ValidUtf8(t) => UnclosedString(c)
  <2>1. ~Promise!ValidUtf8(t) => Promise!UnclosedString(Promise!Classes(t))
    BY <1>2, Zenon DEF Promise!WindowOfStream
  <2>2. QED
    BY <2>1, PromiseComputes, PromiseReads, Zenon
<1>6. e \in Nat /\ (e # 0 => task = "streaming_partial")
  BY DEF Extra
<1>7. Clean(t, behind, e)
  <2>1. Good(Ahead(t, behind), 0, n+e)
    BY <1>4, <1>6, AheadIsGood
  <2>2. e # 0 => ~CutInTheMiddle(t)
    BY <1>6 DEF Settled
  <2>3. QED
    BY <2>1, <2>2, <1>2, Zenon DEF Clean
<1>8. /\ tail \in Seq(Nat) /\ unclosed_string \in BOOLEAN
      /\ Lists(tail, TokensBefore(t, n))
      /\ unclosed_string <=> StringTail(c, n)
      /\ error = "SUCCESS"
  BY <1>2, <1>7, ScannedWhole, Zenon
<1>9. a = WindowLeft(c, n, task, tail, unclosed_string)
  BY <1>8, FinishScanLeaves, Zenon
<1> HIDE DEF a
<1>10. n > 0 /\ n-1 \in 0..n-1 /\ n-1 \in Nat /\ 0 + n - 1 = n-1
  <2>1. n # 0
    BY <1>2
  <2>2. QED
    BY <2>1, <1>0
<1>11. Trimmed(c, 0, n) = IF At(c, n-1) = "u" THEN n-1 ELSE n
  BY <1>10 DEF Trimmed
<1>12. CASE At(c, n-1) # "u"
  <2>1. tail = Structurals(Window(c, 0, n))
    BY <1>0, <1>8, TokensOfWindow
  <2>2. \A k \in 1..Len(tail) : tail[k] \in 0..n-1
    BY <1>8 DEF Lists, TokensBefore
  <2>3. n \in 1..n /\ Trimmed(c, 0, n) = n
    BY <1>10, <1>11, <1>12
  <2>4. LeavesAs(WindowLeft(c, n, task, tail, unclosed_string), r)
    BY <2>1, <2>2, <2>3, <1>8, WindowFinished, Zenon DEF r
  <2>5. QED
    BY <2>4, <1>9, Zenon DEF LeavesAs
<1>13. CASE At(c, n-1) = "u"
  <2> DEFINE m == n - 1
  <2>1. m \in Nat /\ m \in 0..n-1 /\ m \in 0..n /\ m + 1 = n /\ Trimmed(c, 0, n) = m
    BY <1>10, <1>11, <1>13
  <2>2. At(t, m) >= 192 /\ At(c, m) = "u"
    BY <2>1, <1>13, ClassOfByte, Zenon
  <2> HIDE DEF m
  <2>3. ~ValidUtf8(t)
    <3>1. trim_partial_utf8(t) # n
      <4>1. trim_partial_utf8(t) = IF At(t, n-1) >= 192 THEN n-1
                                   ELSE IF n >= 2 /\ At(t, n-2) >= 224 THEN n-2
                                   ELSE IF n >= 3 /\ At(t, n-3) >= 240 THEN n-3 ELSE n
        BY <1>0, <1>10 DEF trim_partial_utf8
      <4>2. At(t, n-1) >= 192
        BY <2>2, Zenon DEF m
      <4>3. trim_partial_utf8(t) = n-1
        BY <4>1, <4>2, Zenon
      <4>4. QED
        BY <4>3, <1>0
    <3>2. QED
      BY <3>1, ValidIsWhole
  <2>4. Len(c) = n /\ StringTail(c, n)
    <3>1. Len(c) = n
      BY ClassesAreASequence
    <3>2. QED
      BY <3>1, <2>3, <1>5, Zenon DEF UnclosedString
  <2>5. StringTail(c, m)
    <3>1. StrAt(t, n, m+1) <=> ~(StrAt(t, n, m) <=> QuoteAt(t, n, m))
      BY <2>1, <1>0, OffsetRules, Zenon
    <3>2. ~QuoteAt(t, n, m)
      <4>1. At(c, m) = "q" <=> QuoteAt(t, n, m)
        BY <2>1, ByteFacts, Zenon
      <4>2. QED
        BY <4>1, <2>2
    <3>3. StrAt(t, n, m+1) <=> StringTail(c, n)
      BY <2>1, <1>0, Zenon DEF StrAt
    <3>4. StrAt(t, n, m) <=> StringTail(c, m)
      BY <2>1, ByteFacts, Zenon
    <3>5. QED
      BY <3>1, <3>2, <3>3, <3>4, <2>4, Zenon
  <2>6. m # 0
    <3>1. ~StringTail(c, 0)
      <4>1. ~StrAt(t, n, 0)
        BY <1>0, OffsetRules, Zenon
      <4>2. 0 \in 0..Len(t)-1
        BY <1>10
      <4>3. StringTail(c, 0) <=> StrAt(t, n, 0)
        BY <4>2, ByteFacts, Zenon
      <4>4. QED
        BY <4>1, <4>3
    <3>2. QED
      BY <3>1, <2>5, Zenon
  <2>7. Lists(tail, TokensBefore(t, m))
    <3>1. ~StructuralStart(c, m)
      BY <2>5, Zenon DEF StructuralStart
    <3>2. \A j \in m..n-1 : ~StructuralStart(c, j)
      <4>1. m..n-1 = {m}
        BY <2>1
      <4>2. QED
        BY <3>1, <4>1
    <3>3. TokensBefore(t, n) = TokensBefore(t, m)
      BY <3>2, <2>1, <1>0, TokensStay
    <3>4. QED
      BY <3>3, <1>8
  <2>8. tail = Structurals(Window(c, 0, m))
    BY <2>1, <2>7, TokensOfWindow
  <2>9. \A k \in 1..Len(tail) : tail[k] \in 0..m-1
    <3>1. \A k \in 1..Len(tail) : tail[k] \in TokensBefore(t, m)
      BY <2>7, <1>8 DEF Lists
    <3>2. \A j \in TokensBefore(t, m) : j \in 0..m-1
      BY <2>1 DEF TokensBefore
    <3>3. QED
      BY <3>1, <3>2, Zenon
  <2> DEFINE b == WindowLeft(c, m, task, tail, TRUE)
  <2>10. unclosed_string = TRUE /\ task = "streaming_partial"
    <3>1. unclosed_string = TRUE
      BY <2>4, <1>8
    <3>2. e # 0
      <4>1. e = 0 => Good(Ahead(t, behind), 0, n)
        BY <1>0, <1>7 DEF Clean
      <4>2. QED
        BY <4>1, <2>3, <1>6, AheadIsGood, Zenon
    <3>3. QED
      BY <3>1, <3>2, <1>6
  <2>11. LeavesAs(b, r)
    <3>1. m \in 1..Len(t) /\ TRUE \in BOOLEAN /\ (TRUE <=> StringTail(c, m))
      BY <2>1, <2>5, <2>6, <1>0
    <3>2. QED
      BY <3>1, <2>1, <2>8, <2>9, <1>8, WindowFinished, Zenon DEF r
  <2>12. SameIndexes(a, b)
    <3>1. m \in Nat
      BY <2>1
    <3>2. SameIndexes(WindowLeft(c, n, "streaming_partial", tail, TRUE),
                      WindowLeft(c, m, "streaming_partial", tail, TRUE))
      BY <3>1, <1>0, <1>8, SameLeft, Zenon
    <3>3. QED
      BY <3>2, <2>10, <1>9, Zenon
  <2> HIDE DEF b
  <2>13. QED
    BY <2>11, <2>12, Zenon DEF LeavesAs, SameIndexes
<1>14. QED
  BY <1>12, <1>13, Zenon

-----------------------------------------------------------------------------
(* Stage 1 of the fallback: how far it is, and that its answer is one that  *)
(* is promised, but for a partial window with a character cut in the middle.*)
FallbackIndexed ==
    task \notin {"minify", "validate"} =>
      /\ idx \in Nat
      /\ \A e \in Extra : ScannedAhead(e)
      /\ answer # Pending /\ kernel = "fallback" /\ Settled => Promise!Fulfils(text, answer)

LEMMA FallbackIndexStart ==
  ASSUME Init, Fallback!Init
  PROVE  FallbackIndexed
<1> DEFINE t == text
           n == Len(text)
           c == Classes(text)
<1>1. /\ text \in Seq(Byte) /\ idx = 0 /\ tail = <<>> /\ in_string = FALSE
      /\ unclosed_string = FALSE /\ error = "SUCCESS" /\ answer = Pending
  BY Zenon DEF Init, Fallback!Init
<1>2. n \in Nat /\ n \in 0..n /\ 0 \in Nat
  BY <1>1
<1>3. ListedTo(t, 0, <<>>)
  <2>1. TokensBefore(t, 0) = {}
    BY DEF TokensBefore
  <2>2. \A o \in Oddities(t) : ~(o < 0)
    BY <1>1, <1>2, OdditiesInText
  <2>3. <<>> \in Seq(Nat)
    OBVIOUS
  <2>4. QED
    BY <2>1, <2>2, <2>3, ListsNone, Zenon DEF ListedTo
<1>4. Placed(t, 0, FALSE, FALSE)
  <2>1. ~EscAt(t, n, 0) /\ ~StrAt(t, n, 0)
    BY <1>1, <1>2, OffsetRules, Zenon
  <2>2. ~FollowsScalar(c, 0)
    BY DEF FollowsScalar
  <2>3. QED
    BY <2>1, <2>2, Zenon DEF Placed
<1>5. ASSUME NEW e
      PROVE  Errs(t, behind, e, 0, FALSE, "SUCCESS")
  <2>1. \A j \in UnescapedControls(t) : ~(j < 0)
    BY <1>2 DEF UnescapedControls, StringContents
  <2>2. QED
    BY <2>1, Zenon DEF Errs
<1>6. \A e : ScannedAhead(e)
  BY <1>1, <1>3, <1>4, <1>5, Zenon DEF ScannedAhead, ScannedTo
<1>7. QED
  BY <1>1, <1>2, <1>6, Zenon DEF FallbackIndexed

LEMMA ScanningGivesNoAnswer ==
  ASSUME FallbackScanning
  PROVE  answer' = answer
<1>1. CASE Fallback!StringStart
  BY <1>1, Zenon DEF Fallback!StringStart
<1>2. CASE Fallback!StringEscape
  BY <1>2, Zenon DEF Fallback!StringEscape
<1>3. CASE Fallback!StringCharacter
  BY <1>3, Zenon DEF Fallback!StringCharacter
<1>4. CASE Fallback!StringByte
  BY <1>4, Zenon DEF Fallback!StringByte
<1>5. CASE Fallback!StringEnd
  BY <1>5, Zenon DEF Fallback!StringEnd
<1>6. CASE Fallback!Operator
  BY <1>6, Zenon DEF Fallback!Operator
<1>7. CASE Fallback!Whitespace
  BY <1>7, Zenon DEF Fallback!Whitespace
<1>8. CASE Fallback!Primitive
  BY <1>8, Zenon DEF Fallback!Primitive
<1>9. QED
  BY <1>1, <1>2, <1>3, <1>4, <1>5, <1>6, <1>7, <1>8 DEF FallbackScanning

(* The actions that scan for structural characters are of the other tasks.  *)
FallbackScans ==
    \/ Fallback!StringStart \/ Fallback!StringEscape \/ Fallback!StringCharacter
    \/ Fallback!StringByte \/ Fallback!StringEnd \/ Fallback!Operator
    \/ Fallback!Whitespace \/ Fallback!Primitive \/ Fallback!ScanEnd

LEMMA FallbackScansAlone ==
  ASSUME FallbackScans
  PROVE  /\ task \notin {"minify", "validate"} /\ answer = Pending
         /\ UNCHANGED <<text, behind, task>>
<1>1. Fallback!Scans /\ UNCHANGED <<text, behind, task>>
  <2>1. CASE Fallback!StringStart
    BY <2>1, Zenon DEF Fallback!StringStart, Fallback!inputVars
  <2>2. CASE Fallback!StringEscape
    BY <2>2, Zenon DEF Fallback!StringEscape, Fallback!inputVars
  <2>3. CASE Fallback!StringCharacter
    BY <2>3, Zenon DEF Fallback!StringCharacter, Fallback!inputVars
  <2>4. CASE Fallback!StringByte
    BY <2>4, Zenon DEF Fallback!StringByte, Fallback!inputVars
  <2>5. CASE Fallback!StringEnd
    BY <2>5, Zenon DEF Fallback!StringEnd, Fallback!inputVars
  <2>6. CASE Fallback!Operator
    BY <2>6, Zenon DEF Fallback!Operator, Fallback!inputVars
  <2>7. CASE Fallback!Whitespace
    BY <2>7, Zenon DEF Fallback!Whitespace, Fallback!inputVars
  <2>8. CASE Fallback!Primitive
    BY <2>8, Zenon DEF Fallback!Primitive, Fallback!inputVars
  <2>9. CASE Fallback!ScanEnd
    BY <2>9, Zenon DEF Fallback!ScanEnd, Fallback!inputVars
  <2>10. QED
    BY <2>1, <2>2, <2>3, <2>4, <2>5, <2>6, <2>7, <2>8, <2>9 DEF FallbackScans
<1>2. QED
  BY <1>1 DEF Fallback!Scans, Fallback!Stage1Tasks, Fallback!Streaming

LEMMA FallbackIndexStep ==
  ASSUME FallbackIndexed, text \in Seq(Byte), behind \in Byte, task \in Tasks,
         FallbackScans, kernel' = kernel
  PROVE  FallbackIndexed'
<1>1. /\ task \notin {"minify", "validate"} /\ answer = Pending
      /\ text' = text /\ behind' = behind /\ task' = task
  BY FallbackScansAlone
<1>2. idx \in Nat /\ \A e \in Extra : ScannedAhead(e)
  BY <1>1, Zenon DEF FallbackIndexed
<1>3. Extra' = Extra
  BY <1>1, Zenon DEF Extra
<1>4. \A e \in Extra : e \in Nat /\ (e # 0 => task \in Streaming)
  BY DEF Extra, Streaming
<1>5. CASE FallbackScanning
  <2>1. answer' = Pending
    BY <1>1, <1>5, ScanningGivesNoAnswer
  <2>2. ASSUME NEW e \in Extra
        PROVE  /\ idx' \in Nat
               /\ ScannedTo(text, behind, e, idx', tail', in_string', unclosed_string', error')
    <3>1. e \in Nat /\ (e # 0 => task \in Streaming) /\ ScannedAhead(e)
      BY <1>2, <1>4
    <3>2. CASE \/ Fallback!StringEscape \/ Fallback!StringCharacter
               \/ Fallback!StringByte \/ Fallback!StringEnd
      BY <3>1, <3>2, <1>2, ScanInString
    <3>3. CASE \/ Fallback!StringStart \/ Fallback!Operator
               \/ Fallback!Whitespace \/ Fallback!Primitive
      BY <3>1, <3>3, <1>2, ScanOutside
    <3>4. QED
      BY <3>2, <3>3, <1>5 DEF FallbackScanning
  <2>3. idx' \in Nat
    <3>1. 0 \in Extra
      BY DEF Extra
    <3>2. QED
      BY <3>1, <2>2, Zenon
  <2>4. \A e \in Extra' : ScannedAhead(e)'
    BY <2>2, <1>1, <1>3, Zenon DEF ScannedAhead
  <2>5. QED
    BY <2>1, <2>3, <2>4, Zenon DEF FallbackIndexed
<1>6. CASE Fallback!ScanEnd
  <2>1. /\ ~in_string /\ idx >= Fallback!len /\ answer' = Fallback!FinishScan
        /\ UNCHANGED <<idx, tail, in_string, unclosed_string, error>>
    BY <1>6, Zenon DEF Fallback!ScanEnd, Fallback!indexVars
  <2>2. Len(text) <= idx
    BY <2>1, <1>2, FallbackReads
  <2>3. idx' \in Nat /\ \A e \in Extra' : ScannedAhead(e)'
    BY <2>1, <1>1, <1>2, <1>3, Zenon DEF ScannedAhead
  <2>4. task = "regular" => Promise!WholeDocument(text, answer')
    <3>1. 0 \in Extra
      BY DEF Extra
    <3>2. ScannedAhead(0)
      BY <3>1, <1>2, Zenon
    <3>3. QED
      BY <3>2, <2>1, <2>2, <1>2, ScannedDocument
  <2>5. task \in Streaming /\ kernel = "fallback" /\ Settled => Promise!Batch(text, task, answer')
    BY <2>1, <2>2, <1>2, ScannedWindow
  <2>6. Promise!Streaming = Streaming /\ "regular" \notin Streaming
        /\ (task = "regular" \/ task \in Streaming)
    BY <1>1 DEF Promise!Streaming, Streaming, Tasks
  <2>7. kernel = "fallback" /\ Settled => Promise!Fulfils(text, answer')
    <3>1. CASE task = "regular"
      <4>1. Promise!WholeDocument(text, answer')
        BY <3>1, <2>4
      <4>2. task \notin Promise!Streaming /\ task # "minify" /\ task # "validate"
        BY <3>1, <2>6
      <4>3. QED
        BY <3>1, <4>1, <4>2, Zenon DEF Promise!Fulfils
    <3>2. CASE task \in Streaming
      <4>1. kernel = "fallback" /\ Settled => Promise!Batch(text, task, answer')
        BY <3>2, <2>5
      <4>2. task \in Promise!Streaming /\ task # "regular" /\ task # "minify" /\ task # "validate"
        BY <3>2, <2>6, <1>1
      <4>3. QED
        BY <4>1, <4>2, Zenon DEF Promise!Fulfils
    <3>3. QED
      BY <3>1, <3>2, <2>6
  <2>8. Promise!Fulfils(text, answer)' = Promise!Fulfils(text, answer')
    BY <1>1, Zenon DEF Promise!Fulfils, Promise!Batch, Promise!WindowOfStream
  <2>9. Settled' = Settled
    BY <1>1, Zenon DEF Settled
  <2>10. QED
    BY <2>3, <2>7, <2>8, <2>9, Zenon DEF FallbackIndexed
<1>7. QED
  BY <1>5, <1>6 DEF FallbackScans, FallbackScanning

-----------------------------------------------------------------------------
(* The invariant of the fallback kernel: what stays of the vector kernels'  *)
(* state, and what it has minified, validated or indexed.                   *)
FallbackInv ==
    /\ text \in Seq(Byte) /\ task \in Tasks /\ behind \in Byte
    /\ len = Unread /\ written = 0
    /\ task \in {"minify", "validate"} => idx \in Nat
    /\ FallbackMinified
    /\ FallbackValidated
    /\ FallbackIndexed

LEMMA FallbackStart ==
  ASSUME Init, Fallback!Init, behind \in Byte
  PROVE  FallbackInv
<1>1. /\ text \in Seq(Byte) /\ task \in Tasks /\ len = Unread /\ written = 0
      /\ idx = 0 /\ out = <<>> /\ answer = Pending /\ quote = FALSE /\ nonescape = TRUE
  BY Zenon DEF Init, Fallback!Init
<1> DEFINE n == Len(text)
<1>2. n \in Nat /\ n \in 0..n /\ 0 \in Nat /\ 0 <= n
  BY <1>1
<1>3. ~EscAt(text, n, 0) /\ ~StrAt(text, n, 0)
  BY <1>1, <1>2, OffsetRules, Zenon
<1>4. FallbackMinified
  <2>1. KeptIn(text, n, 0, 0) = {}
    <3>1. 0..0-1 = {}
      OBVIOUS
    <3>2. QED
      BY <3>1, Zenon DEF KeptIn
  <2>2. Picks(out, text, n, KeptIn(text, n, 0, 0))
    BY <2>1, <1>1, PicksNone, Zenon
  <2>3. <<>> \in Seq(Byte) /\ Len(<<>>) <= 0
    OBVIOUS
  <2>4. quote \in BOOLEAN /\ nonescape \in BOOLEAN
    BY <1>1, Zenon
  <2>5. QED
    BY <2>2, <2>3, <2>4, <1>1, <1>2, <1>3, Zenon DEF FallbackMinified
<1>5. FallbackValidated
  <2> DEFINE B == Line(text, n)
  <2>1. B[0-1] = 0 /\ B[0-2] = 0 /\ B[0-3] = 0
    BY DEF Line
  <2> HIDE DEF B
  <2>2. ~Cut(B, 0)
    BY <2>1 DEF Cut
  <2>3. \A j \in 0..0-1 : ~Misplaced(B, j)
    <3>1. 0..0-1 = {}
      OBVIOUS
    <3>2. QED
      BY <3>1, Zenon
  <2>4. Good(B, 0, 0)
    BY <2>2, <2>3, Zenon DEF Good
  <2>5. QED
    BY <2>4, <1>1, <1>2, Zenon DEF FallbackValidated, B
<1>6. FallbackIndexed
  BY FallbackIndexStart
<1>7. QED
  BY <1>1, <1>2, <1>4, <1>5, <1>6, Zenon DEF FallbackInv

LEMMA FallbackStep ==
  ASSUME FallbackInv, Fallback!Next, UNCHANGED vectorVars, kernel' = kernel,
         KernelAssumption
  PROVE  FallbackInv' /\ UNCHANGED <<text, task, behind>>
         /\ (answer # Pending => answer' = answer)
<1>1. NoAnswerYet /\ AsciiChunk \in Nat \ {0}
  BY DEF KernelAssumption
<1>2. /\ text \in Seq(Byte) /\ task \in Tasks /\ behind \in Byte
      /\ len' = Unread /\ written' = 0
  BY DEF FallbackInv, vectorVars
<1>3. UNCHANGED <<text, task, behind>> /\ answer = Pending
  <2>1. CASE FallbackScans
    BY <2>1, FallbackScansAlone
  <2>2. CASE Fallback!MinifyByte \/ Fallback!MinifyEnd
    BY <2>2, Zenon DEF Fallback!MinifyByte, Fallback!MinifyEnd, Fallback!inputVars
  <2>3. CASE Fallback!ValidateAscii \/ Fallback!ValidateCharacter \/ Fallback!ValidateEnd
    BY <2>3, Zenon DEF Fallback!ValidateAscii, Fallback!ValidateCharacter, Fallback!ValidateEnd,
                       Fallback!Validates, Fallback!inputVars
  <2>4. QED
    BY <2>1, <2>2, <2>3 DEF Fallback!Next, FallbackScans
<1>4. CASE task \notin {"minify", "validate"}
  <2>1. task # "minify" /\ task # "validate" /\ task' = task
    BY <1>3, <1>4
  <2>2. FallbackMinified' /\ FallbackValidated'
    BY <2>1, Zenon DEF FallbackMinified, FallbackValidated
  <2>3. task' \notin {"minify", "validate"}
    BY <2>1
  <2>4. FallbackScans
    BY <2>1, Zenon DEF Fallback!Next, FallbackScans, Fallback!MinifyByte, Fallback!MinifyEnd,
          Fallback!ValidateAscii, Fallback!ValidateCharacter, Fallback!ValidateEnd,
          Fallback!Validates
  <2>5. FallbackIndexed
    BY DEF FallbackInv
  <2>6. FallbackIndexed'
    BY <2>4, <2>5, <1>2, FallbackIndexStep
  <2>7. QED
    BY <2>2, <2>3, <2>6, <1>2, <1>3, Zenon DEF FallbackInv
<1>5. CASE task = "minify"
  <2>1. Fallback!MinifyByte \/ Fallback!MinifyEnd
    <3>1. ~FallbackScans
      BY <1>5, FallbackScansAlone
    <3>2. task # "validate"
      BY <1>5
    <3>3. QED
      BY <3>1, <3>2, Zenon DEF Fallback!Next, FallbackScans, Fallback!ValidateAscii,
            Fallback!ValidateCharacter, Fallback!ValidateEnd, Fallback!Validates
  <2>2. idx \in Nat /\ FallbackMinified
    BY <1>5 DEF FallbackInv
  <2>3. FallbackMinified' /\ idx' \in Nat
    BY <2>1, <2>2, <1>2, FallbackMinifyByte, FallbackMinifyEnd
  <2>4. FallbackValidated'
    <3>1. task' # "validate"
      BY <1>3, <1>5
    <3>2. QED
      BY <3>1, Zenon DEF FallbackValidated
  <2>5. FallbackIndexed'
    <3>1. task' \in {"minify", "validate"}
      BY <1>3, <1>5
    <3>2. QED
      BY <3>1, Zenon DEF FallbackIndexed
  <2>6. QED
    BY <2>3, <2>4, <2>5, <1>2, <1>3, Zenon DEF FallbackInv
<1>6. CASE task = "validate"
  <2>1. Fallback!ValidateAscii \/ Fallback!ValidateCharacter \/ Fallback!ValidateEnd
    <3>1. ~FallbackScans
      BY <1>6, FallbackScansAlone
    <3>2. task # "minify"
      BY <1>6
    <3>3. QED
      BY <3>1, <3>2, Zenon DEF Fallback!Next, FallbackScans, Fallback!MinifyByte,
            Fallback!MinifyEnd
  <2>2. idx \in Nat /\ FallbackValidated
    BY <1>6 DEF FallbackInv
  <2>3. FallbackValidated' /\ idx' \in Nat
    BY <2>1, <2>2, <1>1, <1>2, FallbackValidateAscii, FallbackValidateCharacter,
       FallbackValidateEnd
  <2>4. FallbackMinified'
    <3>1. task' # "minify"
      BY <1>3, <1>6
    <3>2. QED
      BY <3>1, Zenon DEF FallbackMinified
  <2>5. FallbackIndexed'
    <3>1. task' \in {"minify", "validate"}
      BY <1>3, <1>6
    <3>2. QED
      BY <3>1, Zenon DEF FallbackIndexed
  <2>6. QED
    BY <2>3, <2>4, <2>5, <1>2, <1>3, Zenon DEF FallbackInv
<1>7. QED
  BY <1>3, <1>4, <1>5, <1>6

LEMMA FallbackFulfils ==
  ASSUME FallbackInv, answer # Pending, kernel = "fallback", Settled
  PROVE  Promise!Fulfils(text, answer)
<1>1. CASE task = "minify"
  <2>1. MinifyAnswer
    BY <1>1, Zenon DEF FallbackInv, FallbackMinified
  <2>2. Promise!Minifies(text, answer)
    BY <2>1, <1>1, PromiseReads, PromiseComputes, Zenon DEF MinifyAnswer, Promise!Minifies
  <2>3. task # "validate" /\ task \notin Promise!Streaming /\ task # "regular"
    BY <1>1 DEF Promise!Streaming
  <2>4. QED
    BY <2>2, <2>3, <1>1, Zenon DEF Promise!Fulfils
<1>2. CASE task = "validate"
  <2>1. ValidateAnswer
    BY <1>2, Zenon DEF FallbackInv, FallbackValidated
  <2>2. answer.valid = Promise!ValidUtf8(text)
    BY <2>1, <1>2, PromiseComputes, Zenon DEF ValidateAnswer
  <2>3. task # "minify" /\ task \notin Promise!Streaming /\ task # "regular"
    BY <1>2 DEF Promise!Streaming
  <2>4. QED
    BY <2>2, <2>3, <1>2, Zenon DEF Promise!Fulfils
<1>3. CASE task \notin {"minify", "validate"}
  BY <1>3, Zenon DEF FallbackInv, FallbackIndexed
<1>4. QED
  BY <1>1, <1>2, <1>3

-----------------------------------------------------------------------------
(* The invariant of both kernels.                                           *)
KernelsInv ==
    /\ kernel \in {"vector", "fallback"}
    /\ kernel = "vector" => VectorInv /\ behind = Space
    /\ kernel = "fallback" => FallbackInv

LEMMA KernelsStart == KernelsInit => KernelsInv
<1> SUFFICES ASSUME KernelsInit
             PROVE  KernelsInv
  OBVIOUS
<1>1. kernel \in {"vector", "fallback"} /\ Init /\ Fallback!Init
      /\ behind \in IF kernel = "fallback" THEN Behinds ELSE {Space}
  BY Zenon DEF KernelsInit
<1>2. kernel = "vector" => VectorInv /\ behind = Space
  BY <1>1, VectorInit
<1>3. kernel = "fallback" => FallbackInv
  <2>1. kernel = "fallback" => behind \in Byte
    BY <1>1, KernelAssumption DEF KernelAssumption
  <2>2. QED
    BY <2>1, <1>1, FallbackStart
<1>4. QED
  BY <1>1, <1>2, <1>3, Zenon DEF KernelsInv

LEMMA VectorGivesOneAnswer ==
  ASSUME VectorInv, Next
  PROVE  UNCHANGED <<text, behind, task>> /\ answer = Pending
<1>0. len = Unread => answer = Pending
  BY DEF VectorInv, KernelInv, Begun, Fresh
<1>1. CASE BeginIndex
  BY <1>0, <1>1, Zenon DEF BeginIndex, inputVars
<1>2. CASE IndexStep
  BY <1>2, Zenon DEF IndexStep, inputVars
<1>3. CASE IndexLast
  BY <1>3, Zenon DEF IndexLast, inputVars
<1>4. CASE BeginMinify
  BY <1>0, <1>4, Zenon DEF BeginMinify, inputVars
<1>5. CASE MinifyStep
  BY <1>5, Zenon DEF MinifyStep, inputVars
<1>6. CASE MinifyLast
  BY <1>6, Zenon DEF MinifyLast, inputVars
<1>7. CASE ValidateStep
  BY <1>7, Zenon DEF ValidateStep, inputVars
<1>8. CASE ValidateLast
  BY <1>8, Zenon DEF ValidateLast, inputVars
<1>9. QED
  BY <1>1, <1>2, <1>3, <1>4, <1>5, <1>6, <1>7, <1>8 DEF Next

LEMMA KernelsStep ==
  ASSUME KernelAssumption, KernelsInv, [KernelsNext]_kernelVars
  PROVE  KernelsInv' /\ UNCHANGED <<kernel, text, behind, task>>
         /\ (answer # Pending => answer' = answer)
<1>1. Classification /\ NoAnswerYet
  BY DEF KernelAssumption
<1>2. CASE kernel = "vector" /\ Next /\ UNCHANGED <<kernel, fallbackVars>>
  <2>2. VectorInv /\ behind = Space
    BY <1>2 DEF KernelsInv
  <2>1. UNCHANGED <<text, behind, task>> /\ answer = Pending /\ kernel' = kernel
    BY <2>2, <1>2, VectorGivesOneAnswer
  <2>3. VectorInv'
    BY <2>2, <1>1, <1>2, VectorStep
  <2>4. KernelsInv'
    BY <2>1, <2>2, <2>3, <1>2 DEF KernelsInv
  <2>5. QED
    BY <2>1, <2>4
<1>3. CASE kernel = "fallback" /\ Fallback!Next /\ UNCHANGED <<kernel, vectorVars>>
  <2>1. FallbackInv
    BY <1>3 DEF KernelsInv
  <2>2. FallbackInv' /\ UNCHANGED <<text, task, behind>> /\ (answer # Pending => answer' = answer)
    BY <2>1, <1>3, FallbackStep
  <2>3. KernelsInv'
    BY <2>2, <1>3 DEF KernelsInv
  <2>4. QED
    BY <2>2, <2>3, <1>3
<1>4. CASE UNCHANGED kernelVars
  <2>1. UNCHANGED vars /\ UNCHANGED fallbackVars /\ kernel' = kernel
    BY <1>4, Zenon DEF kernelVars
  <2>2. /\ UNCHANGED <<text, behind, task, answer, len, idx, tail, out, written>>
        /\ UNCHANGED <<in_string, unclosed_string, error, quote, nonescape>>
        /\ kernel' = kernel
    BY <2>1, Zenon DEF vars, inputVars, indexVars, minifyVars, fallbackVars
  <2>3. kernel = "vector" => VectorInv'
    BY <2>1, <1>1, VectorStep, Zenon DEF KernelsInv
  <2>4. FallbackIndexed => FallbackIndexed'
    <3>1. Extra' = Extra /\ Settled' = Settled
      BY <2>2, Zenon DEF Extra, Settled
    <3>2. Promise!Fulfils(text, answer)' = Promise!Fulfils(text, answer)
      BY <2>2, Zenon DEF Promise!Fulfils, Promise!Batch, Promise!WindowOfStream
    <3>3. \A e : ScannedAhead(e)' <=> ScannedAhead(e)
      BY <2>2, Zenon DEF ScannedAhead
    <3>4. QED
      BY <3>1, <3>2, <3>3, <2>2, Zenon DEF FallbackIndexed
  <2>5. FallbackInv => FallbackInv'
    BY <2>2, <2>4, Zenon DEF FallbackInv, FallbackMinified, FallbackValidated, MinifyAnswer,
                             ValidateAnswer
  <2>6. QED
    BY <2>2, <2>3, <2>5, Zenon DEF KernelsInv
<1>5. QED
  BY <1>2, <1>3, <1>4, Zenon DEF KernelsNext

(* Whichever kernel has the task, its invariant holds: VectorInv of blocks  *)
(* and carries, FallbackInv of the bytes the fallback has read.             *)
THEOREM KernelsInvariant == KernelsSpec => []KernelsInv
<1>1. KernelsInv /\ [KernelsNext]_kernelVars => KernelsInv'
  BY KernelsStep, KernelAssumption
<1>2. QED
  BY <1>1, KernelsStart, PTL DEF KernelsSpec

(* At the start of a block the three carries say what the text before it    *)
(* says: CarriesDescribeText.                                               *)
THEOREM KernelsCarry == KernelsSpec => []CarriesDescribeText
<1>1. KernelsInv => CarriesDescribeText
  <2>1. VectorInv => CarriesDescribeText
    BY InvCarries
  <2>2. FallbackInv => CarriesDescribeText
    BY Zenon DEF FallbackInv, CarriesDescribeText, Scans
  <2>3. QED
    BY <2>1, <2>2 DEF KernelsInv
<1>2. QED
  BY <1>1, KernelsInvariant, PTL

(* The indexes written and those that wait are the structural indexes of    *)
(* the text before the block, in order and none twice: PrefixIndexed.       *)
THEOREM KernelsIndexPrefix == KernelsSpec => []PrefixIndexed
<1>1. KernelsInv => PrefixIndexed
  <2>1. VectorInv => PrefixIndexed
    BY InvIndexed, KernelAssumption DEF KernelAssumption
  <2>2. FallbackInv => PrefixIndexed
    BY Zenon DEF FallbackInv, PrefixIndexed, Scans
  <2>3. QED
    BY <2>1, <2>2 DEF KernelsInv
<1>2. QED
  BY <1>1, KernelsInvariant, PTL

(* Neither minifier writes behind the size of its input, nor in front of    *)
(* what it still has to read: OutputFits.                                   *)
THEOREM KernelsOutputFits == KernelsSpec => []OutputFits
<1>1. KernelsInv => OutputFits
  <2>1. VectorInv => OutputFits
    BY DEF VectorInv, KernelInv, Wrote, OutputFits
  <2>2. FallbackInv => OutputFits
    BY DEF FallbackInv, FallbackMinified, OutputFits
  <2>3. QED
    BY <2>1, <2>2 DEF KernelsInv
<1>2. QED
  BY <1>1, KernelsInvariant, PTL

(* Stage 1 of the vector kernels gives the error and the indexes that the   *)
(* text defines: VectorIsExact.                                             *)
THEOREM VectorStage1Theorem == KernelsSpec => []VectorIsExact
<1>1. KernelsInv => VectorIsExact
  <2>1. VectorInv => VectorStage1IsExact
    BY InvExact
  <2>2. QED
    BY <2>1 DEF KernelsInv, VectorIsExact
<1>2. QED
  BY <1>1, KernelsInvariant, PTL

(* Each kernel keeps the promise with every task, whatever byte is behind   *)
(* the text: KernelsKeepPromise.  The exception is Settled, the window that *)
(* a character of four bytes is cut in two by, for the fallback.            *)
THEOREM KernelsFulfilPromise == KernelsSpec /\ Settled => KernelsKeepPromise
<1>1. KernelsInv /\ Settled /\ [KernelsNext]_kernelVars => Settled'
  BY KernelsStep, KernelAssumption, Zenon DEF Settled
<1>2. KernelsInit => Promise!Init
  BY Zenon DEF KernelsInit, Init, Promise!Init
<1>3. KernelsInv /\ Settled /\ answer # Pending => Promise!Fulfils(text, answer)
  <2> SUFFICES ASSUME KernelsInv, Settled, answer # Pending
               PROVE  Promise!Fulfils(text, answer)
    OBVIOUS
  <2>1. CASE kernel = "vector"
    <3>1. VectorInv /\ behind = Space /\ Classification
      BY <2>1, KernelAssumption DEF KernelsInv, KernelAssumption
    <3>2. QED
      BY <3>1, VectorFulfils
  <2>2. CASE kernel = "fallback"
    <3>1. FallbackInv
      BY <2>2 DEF KernelsInv
    <3>2. QED
      BY <3>1, <2>2, FallbackFulfils
  <2>3. QED
    BY <2>1, <2>2 DEF KernelsInv
<1>4. KernelsInv /\ Settled /\ KernelsInv' /\ Settled' /\ [KernelsNext]_kernelVars
        => [Promise!Answer]_Promise!cvars
  <2> SUFFICES ASSUME KernelsInv, KernelsInv', Settled', [KernelsNext]_kernelVars
               PROVE  [Promise!Answer]_Promise!cvars
    OBVIOUS
  <2>1. UNCHANGED <<text, behind, task>> /\ (answer # Pending => answer' = answer)
    BY KernelsStep, KernelAssumption
  <2>2. CASE answer' = answer
    BY <2>1, <2>2, Zenon DEF Promise!cvars
  <2>3. CASE answer' # answer
    <3>1. answer = Pending /\ answer' # Pending
      BY <2>1, <2>3
    <3>2. (KernelsInv /\ Settled /\ answer # Pending => Promise!Fulfils(text, answer))'
      BY <1>3, PTL
    <3>3. Promise!Fulfils(text, answer)'
      BY <3>1, <3>2
    <3>4. Promise!Fulfils(text, answer)' = Promise!Fulfils(text, answer')
      BY <2>1, Zenon DEF Promise!Fulfils, Promise!Batch, Promise!WindowOfStream
    <3>5. QED
      BY <3>1, <3>3, <3>4, <2>1, Zenon DEF Promise!Answer
  <2>4. QED
    BY <2>2, <2>3
<1>5. QED
  BY <1>1, <1>2, <1>4, KernelsInvariant, PTL DEF KernelsSpec, KernelsKeepPromise, Promise!Spec
=============================================================================
