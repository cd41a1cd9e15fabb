-------------------------- MODULE OnDemand_proofs --------------------------
(***************************************************************************)
(* Proofs about the On-Demand front end, for documents of any length, any  *)
(* keys, indexes and pointers, and a user who stops at errors.  The first  *)
(* part says what every operation of the engine does to the iterator; then *)
(* comes the inductive invariant OnDemandInv, which ties the position and  *)
(* the depth of the one iterator to the handles that are held, one step of *)
(* the user or the library at a time; the last part draws the conclusions. *)
(***************************************************************************)
EXTENDS OnDemand, FiniteSetTheorems, TLAPS

Index == INSTANCE StructuralIndex_proofs

Errors == {"SUCCESS", "TAPE_ERROR", "INCOMPLETE_ARRAY_OR_OBJECT", "UNDEFINED"}
Outs   == Errors \cup {"yes", "no", "INCORRECT_TYPE", "TRAILING_CONTENT",
                       "SCALAR_DOCUMENT_AS_VALUE", "NO_SUCH_FIELD",
                       "INVALID_JSON_POINTER", "INDEX_OUT_OF_BOUNDS"}
Faults == {"assumption", "search", "dead", "bounds"}
Iterators == [position : Nat \ {0}, depth : Nat, error : Errors,
              alive : BOOLEAN, out : Outs, faults : SUBSET Faults]
Point(h) == h.depth \in Nat \ {0} /\ h.start \in Nat \ {0}

Sound(it) == /\ it \in Iterators
             /\ "assumption" \notin it.faults
             /\ "dead" \notin it.faults
Clean(it) == "bounds" \notin it.faults
InPlace(a, b) == a.position = b.position /\ a.depth = b.depth
Unfailed(a, b) == a.error = b.error /\ a.alive = b.alive

(* What the small operations of json_iterator leave behind, beginning with  *)
(* its result and its errors.                                               *)
LEMMA YieldIs ==
  ASSUME NEW it, Sound(it), NEW out \in Outs
  PROVE  LET n == Yield(it, out)
         IN  Sound(n) /\ InPlace(n, it) /\ Unfailed(n, it) /\ n.out = out /\ n.faults = it.faults
BY DEF Yield, Sound, Iterators, InPlace, Unfailed

LEMMA ReportErrorIs ==
  ASSUME NEW it, Sound(it), NEW e \in Errors
  PROVE  LET n == ReportError(it, e)
         IN  /\ Sound(n) /\ InPlace(n, it) /\ n.alive = it.alive
             /\ n.error = e /\ n.out = e /\ n.faults = it.faults
BY DEF ReportError, Sound, Iterators, InPlace, Outs

LEMMA AbandonIs ==
  ASSUME NEW it, Sound(it)
  PROVE  LET n == Abandon(it)
         IN  /\ Sound(n) /\ n.position = it.position /\ n.depth = 0
             /\ ~n.alive /\ n.error = it.error /\ n.out = it.out /\ n.faults = it.faults
BY DEF Abandon, Sound, Iterators

LEMMA MoveToIs ==
  ASSUME NEW it, Sound(it), NEW p \in Nat \ {0}, NEW d \in Nat
  PROVE  LET n == MoveTo(it, p, d)
         IN  /\ Sound(n) /\ n.position = p /\ n.depth = d
             /\ Unfailed(n, it) /\ n.out = it.out /\ n.faults = it.faults
BY DEF MoveTo, Sound, Iterators, Unfailed

LEMMA ReadAtIs ==
  ASSUME NEW it, Sound(it), NEW p \in Nat
  PROVE  LET n == ReadAt(it, p)
         IN  /\ Sound(n) /\ InPlace(n, it) /\ Unfailed(n, it) /\ n.out = it.out
             /\ p < EndPosition + 3 /\ Clean(it) => Clean(n)
BY DEF ReadAt, Fault, Sound, Iterators, InPlace, Unfailed, Clean, Sentinels, Faults

LEMMA AdvanceIs ==
  ASSUME NEW it, Sound(it)
  PROVE  LET n == Advance(it)
         IN  /\ Sound(n) /\ n.position = it.position + 1 /\ n.depth = it.depth
             /\ Unfailed(n, it) /\ n.out = it.out
             /\ it.position < EndPosition + 3 /\ Clean(it) => Clean(n)
<1> DEFINE r == ReadAt(it, it.position)
<1>1. it.position \in Nat
  BY DEF Sound, Iterators
<1>2. /\ Sound(r) /\ InPlace(r, it) /\ Unfailed(r, it) /\ r.out = it.out
      /\ it.position < EndPosition + 3 /\ Clean(it) => Clean(r)
  BY <1>1, ReadAtIs
<1> HIDE DEF r
<1>3. Advance(it) = [r EXCEPT !.position = @ + 1]
  BY DEF Advance, r
<1>4. QED
  BY <1>2, <1>3 DEF Sound, Iterators, InPlace, Unfailed, Clean

(* The depth moves by one level, and the SIMDJSON_ASSUMEs about it hold.    *)
LEMMA AscendToIs ==
  ASSUME NEW it, Sound(it), NEW d \in Nat, it.depth = d + 1
  PROVE  LET n == AscendTo(it, d)
         IN  /\ Sound(n) /\ n.position = it.position /\ n.depth = d
             /\ Unfailed(n, it) /\ n.out = it.out /\ n.faults = it.faults
BY DEF AscendTo, Assume, Sound, Iterators, Unfailed

LEMMA DescendToIs ==
  ASSUME NEW it, Sound(it), NEW d \in Nat, it.depth = d - 1
  PROVE  LET n == DescendTo(it, d)
         IN  /\ Sound(n) /\ n.position = it.position /\ n.depth = d
             /\ Unfailed(n, it) /\ n.out = it.out /\ n.faults = it.faults
BY DEF DescendTo, Assume, Sound, Iterators, Unfailed

(* The brackets of one more token.                                          *)
LEMMA RiseStep ==
  ASSUME NEW i \in Nat, NEW j \in Nat, i <= j + 1
  PROVE  /\ Rise(i, j) \in Int
         /\ j = i - 1 => Rise(i, j) = 0
         /\ Rise(i, j + 1) = Rise(i, j) + (IF Token(j + 1) \in Openers THEN 1
                                ELSE IF Token(j + 1) \in Closers THEN -1 ELSE 0)
<1> DEFINE Of(B, n) == {k \in i..n : Token(k) \in B}
<1>1. ASSUME NEW B
      PROVE  /\ Cardinality(Of(B, j)) \in Nat
             /\ j = i - 1 => Cardinality(Of(B, j)) = 0
             /\ Cardinality(Of(B, j + 1)) =
                  Cardinality(Of(B, j)) + (IF Token(j + 1) \in B THEN 1 ELSE 0)
  <2>1. IsFiniteSet(Of(B, j))
    <3>1. IsFiniteSet(i..j) /\ Of(B, j) \subseteq i..j
      BY FS_Interval
    <3>2. QED
      BY <3>1, FS_Subset
  <2>2. Cardinality(Of(B, j)) \in Nat
    BY <2>1, FS_CardinalityType
  <2>3. j = i - 1 => Cardinality(Of(B, j)) = 0
    <3>1. j = i - 1 => Of(B, j) = {}
      OBVIOUS
    <3>2. QED
      BY <3>1, FS_EmptySet
  <2>4. j + 1 \notin Of(B, j)
    OBVIOUS
  <2>5. CASE Token(j + 1) \in B
    <3>1. Of(B, j + 1) = Of(B, j) \cup {j + 1}
      BY <2>5
    <3>2. Cardinality(Of(B, j) \cup {j + 1}) = Cardinality(Of(B, j)) + 1
      BY <2>1, <2>4, FS_AddElement
    <3>3. QED
      BY <2>2, <2>3, <2>5, <3>1, <3>2
  <2>6. CASE Token(j + 1) \notin B
    <3>1. Of(B, j + 1) = Of(B, j)
      BY <2>6
    <3>2. QED
      BY <2>2, <2>3, <2>6, <3>1
  <2>7. QED
    BY <2>5, <2>6
<1>2. \A n : Rise(i, n) = Cardinality(Of(Openers, n)) - Cardinality(Of(Closers, n))
  BY DEF Rise
<1>3. Token(j + 1) \in Openers => Token(j + 1) \notin Closers
  BY DEF Openers, Closers
<1> HIDE DEF Of
<1>4. QED
  BY <1>1, <1>2, <1>3

(* The loop of skip_child() stops where the depth is the one looked for. *)
LEMMA FirstDescent ==
  ASSUME Len(doc) \in Nat, NEW it, Sound(it), NEW depth \in Nat, it.depth > depth
  PROVE  LET After(p) == it.depth + Rise(it.position, p)
             stops == {p \in it.position..Len(doc) :
                          Token(p) \in Closers /\ After(p) <= depth}
         IN  /\ stops = {} /\ it.position <= Len(doc) =>
                  After(Len(doc)) \in Nat /\ After(Len(doc)) > depth
             /\ stops # {} =>
                  \E s \in stops : (\A q \in stops : s <= q) /\ After(s) = depth
<1> DEFINE After(p) == it.depth + Rise(it.position, p)
           stops == {p \in it.position..Len(doc) :
                        Token(p) \in Closers /\ After(p) <= depth}
           low == {p \in it.position..Len(doc) : After(p) <= depth}
<1>1. it.position \in Nat \ {0} /\ it.depth \in Nat
  BY DEF Sound, Iterators
<1>2. ASSUME NEW p \in it.position..Len(doc)
      PROVE  /\ After(p) \in Int /\ After(p - 1) \in Int
             /\ p = it.position => After(p - 1) = it.depth
             /\ After(p) = After(p - 1) + (IF Token(p) \in Openers THEN 1
                                ELSE IF Token(p) \in Closers THEN -1 ELSE 0)
  <2>1. p - 1 \in Nat /\ p \in Nat /\ it.position <= (p - 1) + 1 /\ it.position <= p + 1
        /\ (p - 1) + 1 = p
    BY <1>1
  <2>2. /\ Rise(it.position, p) \in Int /\ Rise(it.position, p - 1) \in Int
        /\ p - 1 = it.position - 1 => Rise(it.position, p - 1) = 0
        /\ Rise(it.position, p) = Rise(it.position, p - 1) +
              (IF Token(p) \in Openers THEN 1 ELSE IF Token(p) \in Closers THEN -1 ELSE 0)
    <3>1. Rise(it.position, p) \in Int
      BY <1>1, <2>1, RiseStep
    <3>2. /\ Rise(it.position, p - 1) \in Int
          /\ p - 1 = it.position - 1 => Rise(it.position, p - 1) = 0
          /\ Rise(it.position, (p - 1) + 1) = Rise(it.position, p - 1) +
               (IF Token((p - 1) + 1) \in Openers THEN 1
                ELSE IF Token((p - 1) + 1) \in Closers THEN -1 ELSE 0)
      BY <1>1, <2>1, RiseStep
    <3>3. QED
      BY <2>1, <3>1, <3>2
  <2>3. QED
    BY <1>1, <2>2, SMTT(60)
<1> HIDE DEF After
<1>3. ASSUME low # {}
      PROVE  \E s \in stops : (\A q \in low : s <= q) /\ After(s) = depth
  <2>1. low \in SUBSET Nat
    BY <1>1
  <2>2. PICK s \in low : \A q \in low : s <= q
    BY <1>3, <2>1, Index!Smallest
  <2>3. s \in it.position..Len(doc) /\ After(s) <= depth
    BY <2>2
  <2>4. After(s - 1) > depth
    <3>1. CASE s = it.position
      BY <1>1, <1>2, <2>3, <3>1
    <3>2. CASE s # it.position
      <4>1. s - 1 \in it.position..Len(doc) /\ ~(s <= s - 1)
        BY <1>1, <2>3, <3>2
      <4>2. s - 1 \notin low
        BY <2>2, <4>1
      <4>3. QED
        BY <1>2, <2>3, <4>1, <4>2
    <3>3. QED
      BY <3>1, <3>2
  <2>5. Token(s) \in Closers /\ After(s) = depth
    BY <1>2, <2>3, <2>4
  <2>6. QED
    BY <2>2, <2>3, <2>5
<1>4. stops \subseteq low
  OBVIOUS
<1>5. stops = {} /\ it.position <= Len(doc) =>
        After(Len(doc)) \in Nat /\ After(Len(doc)) > depth
  <2>1. SUFFICES ASSUME stops = {}, it.position <= Len(doc)
                 PROVE  After(Len(doc)) \in Nat /\ After(Len(doc)) > depth
    OBVIOUS
  <2>2. low = {}
    BY <1>3, <2>1
  <2>3. Len(doc) \in it.position..Len(doc)
    BY <1>1, <2>1
  <2>4. QED
    BY <1>2, <2>2, <2>3
<1>6. stops # {} => \E s \in stops : (\A q \in stops : s <= q) /\ After(s) = depth
  BY <1>3, <1>4
<1>7. QED
  BY <1>5, <1>6 DEF After

(* Where skip_child() leaves the iterator: at the depth asked for, or with  *)
(* an error at the end of the tokens.                                       *)
Skipped(n, it, depth) ==
    /\ Sound(n)
    /\ n.alive = it.alive
    /\ n.position >= it.position
    /\ IF n.out = "yes"
       THEN n.error = it.error /\ n.depth = depth
       ELSE n.out = "TAPE_ERROR" /\ n.error = "TAPE_ERROR" /\ n.position >= EndPosition

LEMMA UseParserIs ==
  ASSUME NEW it, Sound(it), it.alive
  PROVE  UseParser(it) = it
BY DEF UseParser

(* The loop of skip_child(): it stops behind the bracket that takes the     *)
(* depth down to the one asked for, and not lower.                          *)
LEMMA SkipRestIs ==
  ASSUME Len(doc) \in Nat \ {0}, NEW it, Sound(it), it.alive,
         NEW depth \in Nat, it.depth > depth,
         NEW n, n = SkipRest(it, depth)
  PROVE  /\ Skipped(n, it, depth)
         /\ n.faults = it.faults
         /\ n.out = "yes" => n.position > it.position /\ n.position <= EndPosition
         /\ n.out # "yes" => n.position \in {it.position, EndPosition}
<1> DEFINE After(p) == it.depth + Rise(it.position, p)
           stops == {p \in it.position..Len(doc) :
                        Token(p) \in Closers /\ After(p) <= depth}
           stop == CHOOSE p \in stops : \A q \in stops : p <= q
<1> DEFINE Goal(m) == /\ m.out = "yes" => m.position > it.position /\ m.position <= EndPosition
                      /\ m.out # "yes" => m.position \in {it.position, EndPosition}
<1>1. it.position \in Nat \ {0} /\ it.depth \in Nat /\ EndPosition = Len(doc) + 1
  BY DEF Sound, Iterators, EndPosition
<1>2. /\ stops = {} /\ it.position <= Len(doc) =>
            After(Len(doc)) \in Nat /\ After(Len(doc)) > depth
      /\ stops # {} => \E s \in stops : (\A q \in stops : s <= q) /\ After(s) = depth
  BY FirstDescent
<1>3. n =
        IF stops # {} THEN MoveTo(Yield(it, "yes"), stop + 1, After(stop))
        ELSE IF it.position >= EndPosition THEN ReportError(it, "TAPE_ERROR")
        ELSE ReportError(MoveTo(it, EndPosition, After(Len(doc))), "TAPE_ERROR")
  BY UseParserIs DEF SkipRest
<1>4. "yes" \in Outs /\ "TAPE_ERROR" \in Errors /\ "TAPE_ERROR" # "yes"
  BY DEF Outs, Errors
<1> HIDE DEF After
<1>5. CASE stops # {}
  <2>1. PICK s \in stops : (\A q \in stops : s <= q) /\ After(s) = depth
    BY <1>2, <1>5
  <2>2. stop \in stops /\ \A q \in stops : stop <= q
    BY <2>1
  <2>3. stops \subseteq it.position..Len(doc)
    OBVIOUS
  <2> HIDE DEF stop, stops
  <2>4. stop = s
    BY <1>1, <2>1, <2>2, <2>3
  <2>5. PICK p \in Nat \ {0} : p = s + 1 /\ p > it.position /\ p <= EndPosition
    BY <1>1, <2>1, <2>3
  <2> DEFINE y == Yield(it, "yes")
             m == MoveTo(y, p, depth)
  <2>6. Sound(y) /\ Unfailed(y, it) /\ y.out = "yes" /\ y.faults = it.faults
    BY <1>4, YieldIs
  <2> HIDE DEF y
  <2>7. /\ Sound(m) /\ m.position = p /\ m.depth = depth
        /\ Unfailed(m, y) /\ m.out = y.out /\ m.faults = y.faults
    BY <2>6, MoveToIs
  <2>8. n = m
    BY <1>3, <1>5, <2>1, <2>4, <2>5 DEF y
  <2> HIDE DEF m
  <2>9. Skipped(m, it, depth)
    BY <1>1, <2>5, <2>6, <2>7 DEF Skipped, Unfailed
  <2>10. Goal(m)
    BY <2>5, <2>6, <2>7
  <2>11. QED
    BY <2>6, <2>7, <2>8, <2>9, <2>10
<1>6. CASE stops = {} /\ it.position >= EndPosition
  <2> DEFINE r == ReportError(it, "TAPE_ERROR")
  <2>1. /\ Sound(r) /\ InPlace(r, it) /\ r.alive = it.alive
        /\ r.error = "TAPE_ERROR" /\ r.out = "TAPE_ERROR" /\ r.faults = it.faults
    BY <1>4, ReportErrorIs
  <2>2. n = r
    BY <1>3, <1>6
  <2> HIDE DEF r, stops
  <2>3. Skipped(r, it, depth)
    BY <1>1, <1>6, <2>1 DEF Skipped, InPlace
  <2>4. Goal(r)
    BY <2>1 DEF InPlace
  <2>5. QED
    BY <2>1, <2>2, <2>3, <2>4
<1>7. CASE stops = {} /\ ~(it.position >= EndPosition)
  <2>1. it.position <= Len(doc)
    BY <1>1, <1>7
  <2>2. PICK e \in Nat \ {0}, d \in Nat : e = EndPosition /\ d = After(Len(doc))
    BY <1>1, <1>2, <1>7, <2>1
  <2> DEFINE m == MoveTo(it, e, d)
             r == ReportError(m, "TAPE_ERROR")
  <2>3. Sound(m) /\ m.position = e /\ Unfailed(m, it) /\ m.faults = it.faults
    BY MoveToIs, SMTT(60)
  <2>4. n = r
    BY <1>3, <1>7, <2>2
  <2> HIDE DEF m
  <2>5. /\ Sound(r) /\ InPlace(r, m) /\ r.alive = m.alive
        /\ r.error = "TAPE_ERROR" /\ r.out = "TAPE_ERROR" /\ r.faults = m.faults
    BY <1>4, <2>3, ReportErrorIs
  <2> HIDE DEF r, stops
  <2>6. Skipped(r, it, depth)
    BY <1>1, <1>7, <2>2, <2>3, <2>5 DEF Skipped, InPlace, Unfailed
  <2>7. Goal(r)
    BY <2>2, <2>3, <2>5 DEF InPlace
  <2>8. QED
    BY <2>3, <2>4, <2>5, <2>6, <2>7
<1>8. QED
  BY <1>5, <1>6, <1>7

AtKey(p) == Token(p) \in Strings /\ Token(p + 1) = ":"
PastKey(p) == IF AtKey(p) THEN p + 2 ELSE p + 1

(* The first token of skip_child() decides how much is left.                *)
LEMMA SkipFromIs ==
  ASSUME Len(doc) \in Nat \ {0}, NEW it, Sound(it), it.alive,
         NEW depth \in Nat, it.depth > depth,
         NEW token, NEW n, n = SkipFrom(it, token, depth)
  PROVE  LET key == token \in Strings /\ Peek(it) = ":"
         IN  /\ Skipped(n, it, depth)
             /\ n.out = "yes" => \/ n.position <= EndPosition
                                 \/ /\ n.position = it.position
                                    /\ ~key /\ token \notin Openers \cup {":", ","}
             /\ n.out # "yes" =>
                  n.position \in {EndPosition, it.position, it.position + 1}
             /\ Clean(it) /\ (key => it.position < EndPosition + 3) => Clean(n)
<1> DEFINE key   == token \in Strings /\ Peek(it) = ":"
           inner == token \in Openers \cup {":", ","}
           r     == ReadAt(it, it.position)
           a     == Advance(r)
           left  == [it EXCEPT !.depth = @ - 1]
<1>1. it.position \in Nat \ {0} /\ it.depth \in Nat
  BY DEF Sound, Iterators
<1>2. n = IF key THEN SkipRest(a, depth)
          ELSE IF inner THEN SkipRest(it, depth)
          ELSE IF left.depth <= depth THEN Yield(left, "yes") ELSE SkipRest(left, depth)
  BY DEF SkipFrom
<1>3. CASE key
  <2>1. /\ Sound(r) /\ InPlace(r, it) /\ Unfailed(r, it)
        /\ it.position < EndPosition + 3 /\ Clean(it) => Clean(r)
    BY <1>1, ReadAtIs
  <2> HIDE DEF r
  <2>2. /\ Sound(a) /\ a.position = r.position + 1 /\ a.depth = r.depth
        /\ Unfailed(a, r)
        /\ r.position < EndPosition + 3 /\ Clean(r) => Clean(a)
    BY <2>1, AdvanceIs
  <2>3. n = SkipRest(a, depth)
    BY <1>2, <1>3
  <2> HIDE DEF a
  <2>4. /\ Sound(a) /\ a.position = it.position + 1 /\ a.depth = it.depth
        /\ Unfailed(a, it) /\ a.alive
        /\ it.position < EndPosition + 3 /\ Clean(it) => Clean(a)
    BY <2>1, <2>2 DEF InPlace, Unfailed
  <2>5. a.depth > depth
    BY <2>4
  <2>6. /\ Skipped(n, a, depth)
        /\ n.faults = a.faults
        /\ n.out = "yes" => n.position <= EndPosition
        /\ n.out # "yes" => n.position \in {a.position, EndPosition}
    BY <2>3, <2>4, <2>5, SkipRestIs
  <2>7. Skipped(n, it, depth)
    <3>1. Sound(n) /\ n.position \in Nat
      BY <2>6 DEF Skipped, Sound, Iterators
    <3>2. QED
      BY <1>1, <2>4, <2>6, <3>1 DEF Skipped, Unfailed
  <2>8. QED
    BY <1>3, <2>4, <2>6, <2>7 DEF Clean
<1>4. CASE ~key /\ inner
  <2>1. n = SkipRest(it, depth)
    BY <1>2, <1>4
  <2>2. /\ Skipped(n, it, depth)
        /\ n.faults = it.faults
        /\ n.out = "yes" => n.position <= EndPosition
        /\ n.out # "yes" => n.position \in {it.position, EndPosition}
    BY <2>1, SkipRestIs
  <2>3. QED
    BY <2>2 DEF Clean
<1>5. CASE ~key /\ ~inner
  <2>1. /\ Sound(left) /\ left.position = it.position /\ left.depth = it.depth - 1
        /\ Unfailed(left, it) /\ left.faults = it.faults
    <3>1. PICK d \in Nat : d = it.depth - 1
      BY <1>1
    <3>2. left = [it EXCEPT !.depth = d]
      BY <3>1
    <3> HIDE DEF left
    <3>3. /\ Sound(left) /\ left.position = it.position /\ left.depth = d
          /\ Unfailed(left, it) /\ left.faults = it.faults
      BY <3>2 DEF Sound, Iterators, Unfailed
    <3>4. QED
      BY <3>1, <3>3
  <2>2. n = IF left.depth <= depth THEN Yield(left, "yes") ELSE SkipRest(left, depth)
    BY <1>2, <1>5
  <2> HIDE DEF left
  <2>3. CASE left.depth <= depth
    <3>1. n = Yield(left, "yes") /\ "yes" \in Outs
      BY <2>2, <2>3 DEF Outs
    <3>2. /\ Sound(n) /\ InPlace(n, left) /\ Unfailed(n, left)
          /\ n.out = "yes" /\ n.faults = left.faults
      BY <2>1, <3>1, YieldIs
    <3>3. n.depth = depth
      BY <1>1, <2>1, <2>3, <3>2 DEF InPlace
    <3>4. Skipped(n, it, depth)
      BY <1>1, <2>1, <3>2, <3>3 DEF Skipped, InPlace, Unfailed
    <3>5. QED
      BY <1>5, <2>1, <3>2, <3>4 DEF Clean, InPlace
  <2>4. CASE ~(left.depth <= depth)
    <3>1. n = SkipRest(left, depth)
      BY <2>2, <2>4
    <3>2. left.depth > depth /\ left.alive
      BY <1>1, <2>1, <2>4 DEF Unfailed
    <3>3. /\ Skipped(n, left, depth)
          /\ n.faults = left.faults
          /\ n.out = "yes" => n.position <= EndPosition
          /\ n.out # "yes" => n.position \in {left.position, EndPosition}
      BY <2>1, <3>1, <3>2, SkipRestIs
    <3>4. Skipped(n, it, depth)
      BY <1>1, <2>1, <3>3 DEF Skipped, Unfailed
    <3>5. QED
      BY <2>1, <3>3, <3>4 DEF Clean
  <2>5. QED
    BY <2>3, <2>4
<1>6. QED
  BY <1>3, <1>4, <1>5

(* skip_child() of the whole iterator.                                      *)
LEMMA SkipToIs ==
  ASSUME Len(doc) \in Nat \ {0}, NEW it, Sound(it), it.alive,
         NEW depth \in Nat, NEW n, n = SkipTo(it, depth)
  PROVE  /\ it.depth <= depth => /\ Sound(n) /\ InPlace(n, it) /\ Unfailed(n, it)
                                 /\ n.out = "yes" /\ n.faults = it.faults
         /\ it.depth > depth =>
              LET p == it.position
              IN  /\ Skipped(n, it, depth)
                  /\ n.position > p
                  /\ n.out = "yes" => \/ n.position <= EndPosition
                                      \/ /\ n.position = p + 1 /\ ~AtKey(p)
                                         /\ Token(p) \notin Openers \cup {":", ","}
                  /\ n.out # "yes" => n.position \in {EndPosition, p + 1, p + 2}
                  /\ Clean(it) /\ PastKey(p) <= EndPosition + 3 => Clean(n)
<1>1. it.position \in Nat \ {0} /\ it.depth \in Nat /\ "yes" \in Outs
      /\ EndPosition \in Nat
  BY DEF Sound, Iterators, Outs, EndPosition
<1>2. CASE it.depth <= depth
  <2>1. n = Yield(it, "yes")
    BY <1>2 DEF SkipTo
  <2>2. /\ Sound(n) /\ InPlace(n, it) /\ Unfailed(n, it)
        /\ n.out = "yes" /\ n.faults = it.faults
    BY <1>1, <2>1, YieldIs
  <2>3. ~(it.depth > depth)
    BY <1>1, <1>2
  <2>4. QED
    BY <2>2, <2>3
<1>3. CASE it.depth > depth
  <2> DEFINE a == Advance(it)
             key == Peek(it) \in Strings /\ Peek(a) = ":"
  <2>1. ~(it.depth <= depth)
    BY <1>1, <1>3
  <2>2. n = SkipFrom(a, Peek(it), depth)
    BY <2>1 DEF SkipTo
  <2>3. PICK p \in Nat : p = it.position
    BY <1>1
  <2>4. /\ Sound(a) /\ a.position = p + 1 /\ a.depth = it.depth
        /\ Unfailed(a, it)
        /\ p < EndPosition + 3 /\ Clean(it) => Clean(a)
    BY <2>3, AdvanceIs
  <2> HIDE DEF a
  <2>5. a.depth > depth /\ a.alive
    BY <1>3, <2>4 DEF Unfailed
  <2>6. key <=> AtKey(p)
    BY <2>3, <2>4 DEF Peek, AtKey
  <2>7. /\ Skipped(n, a, depth)
        /\ n.out = "yes" => \/ n.position <= EndPosition
                            \/ /\ n.position = a.position
                               /\ ~key /\ Peek(it) \notin Openers \cup {":", ","}
        /\ n.out # "yes" => n.position \in {EndPosition, a.position, a.position + 1}
        /\ Clean(a) /\ (key => a.position < EndPosition + 3) => Clean(n)
    BY <2>2, <2>4, <2>5, SkipFromIs
  <2> HIDE DEF key
  <2>8. Sound(n) /\ n.position \in Nat /\ n.position >= p + 1
    BY <2>4, <2>7 DEF Skipped, Sound, Iterators
  <2>9. Skipped(n, it, depth)
    <3>1. n.position >= it.position
      BY <1>1, <2>3, <2>8
    <3>2. QED
      BY <2>4, <2>7, <3>1 DEF Skipped, Unfailed
  <2>10. n.position > p
    BY <2>8
  <2>11. n.out = "yes" =>
           \/ n.position <= EndPosition
           \/ /\ n.position = p + 1 /\ ~AtKey(p)
              /\ Token(p) \notin Openers \cup {":", ","}
    BY <2>3, <2>4, <2>6, <2>7 DEF Peek
  <2>12. n.out # "yes" => n.position \in {EndPosition, p + 1, p + 2}
    <3>1. n.out # "yes" => n.position \in {EndPosition, a.position, a.position + 1}
      BY <2>7
    <3>2. a.position = p + 1 /\ a.position + 1 = p + 2
      BY <2>4
    <3>3. QED
      BY <3>1, <3>2, Zenon
  <2>13. Clean(it) /\ PastKey(p) <= EndPosition + 3 => Clean(n)
    <3>1. SUFFICES ASSUME Clean(it), PastKey(p) <= EndPosition + 3
                   PROVE  Clean(n)
      OBVIOUS
    <3>2. IF key THEN p + 2 <= EndPosition + 3 ELSE p + 1 <= EndPosition + 3
      BY <2>6, <3>1 DEF PastKey
    <3>3. p < EndPosition + 3 /\ (key => p + 1 < EndPosition + 3)
      BY <1>1, <3>2
    <3>4. QED
      BY <2>4, <2>7, <3>1, <3>3
  <2>14. QED
    BY <2>1, <2>3, <2>9, <2>10, <2>11, <2>12, <2>13
<1>4. QED
  BY <1>1, <1>2, <1>3
-----------------------------------------------------------------------------
(* value_iterator *)

Partner(h) == IF IsArray(h) THEN "]" ELSE "}"
Level(h)   == IF IsArray(h) THEN h.depth + 1 ELSE h.depth

LEMMA AssumeIs ==
  ASSUME NEW it, NEW condition \in BOOLEAN, condition
  PROVE  Assume(it, condition) = it
BY DEF Assume

LEMMA PointIs ==
  ASSUME NEW h, Point(h)
  PROVE  /\ h.depth \in Nat /\ h.depth > 0 /\ h.depth - 1 \in Nat /\ h.depth + 1 \in Nat
         /\ h.start \in Nat /\ h.start > 0
BY DEF Point

LEMMA IteratorIs ==
  ASSUME NEW it, Sound(it)
  PROVE  /\ it.position \in Nat /\ it.position > 0 /\ it.depth \in Nat
         /\ it.error \in Errors /\ it.out \in Outs /\ it.alive \in BOOLEAN
BY DEF Sound, Iterators

LEMMA OutsAre == "yes" \in Outs /\ "no" \in Outs /\ Errors \subseteq Outs
                   /\ "yes" \notin Errors /\ "no" \notin Errors /\ "yes" # "no"
                   /\ "TAPE_ERROR" \in Errors /\ "SUCCESS" \in Errors
                   /\ "INCORRECT_TYPE" \in Outs /\ "INCORRECT_TYPE" \notin {"yes", "no"}
                   /\ "INCOMPLETE_ARRAY_OR_OBJECT" \in Errors
                   /\ "INCOMPLETE_ARRAY_OR_OBJECT" # "SUCCESS" /\ "TAPE_ERROR" # "SUCCESS"
BY DEF Outs, Errors

(* skip_child() of a handle stays inside its container or ends at an error. *)
LEMMA SkipChildIs ==
  ASSUME Len(doc) \in Nat \ {0}, NEW it, Sound(it), it.alive, NEW h, Point(h),
         it.position > h.start, it.depth >= h.depth,
         NEW n, n = SkipChild(it, h)
  PROVE  /\ Skipped(n, it, h.depth)
         /\ it.depth = h.depth => InPlace(n, it) /\ n.out = "yes" /\ n.faults = it.faults
         /\ it.depth > h.depth =>
              LET p == it.position
              IN  /\ n.position > p
                  /\ n.out = "yes" => \/ n.position <= EndPosition
                                      \/ /\ n.position = p + 1 /\ ~AtKey(p)
                                         /\ Token(p) \notin Openers \cup {":", ","}
                  /\ n.out # "yes" => n.position \in {EndPosition, p + 1, p + 2}
                  /\ Clean(it) /\ PastKey(p) <= EndPosition + 3 => Clean(n)
<1>1. h.depth \in Nat /\ it.depth \in Nat /\ it.position \in Nat
  BY PointIs, IteratorIs
<1>2. n = SkipTo(it, h.depth)
  <2>1. Assume(it, it.position > h.start /\ it.depth >= h.depth) = it
    BY DEF Assume
  <2>2. QED
    BY <2>1 DEF SkipChild
<1>3. /\ it.depth <= h.depth => /\ Sound(n) /\ InPlace(n, it) /\ Unfailed(n, it)
                                /\ n.out = "yes" /\ n.faults = it.faults
      /\ it.depth > h.depth =>
           LET p == it.position
           IN  /\ Skipped(n, it, h.depth)
               /\ n.position > p
               /\ n.out = "yes" => \/ n.position <= EndPosition
                                   \/ /\ n.position = p + 1 /\ ~AtKey(p)
                                      /\ Token(p) \notin Openers \cup {":", ","}
               /\ n.out # "yes" => n.position \in {EndPosition, p + 1, p + 2}
               /\ Clean(it) /\ PastKey(p) <= EndPosition + 3 => Clean(n)
  BY <1>1, <1>2, SkipToIs
<1>4. CASE it.depth = h.depth
  <2>1. ~(it.depth > h.depth) /\ it.depth <= h.depth
    BY <1>1, <1>4
  <2>2. /\ Sound(n) /\ InPlace(n, it) /\ Unfailed(n, it)
        /\ n.out = "yes" /\ n.faults = it.faults
    BY <1>3, <2>1
  <2>3. Skipped(n, it, h.depth)
    BY <1>1, <1>4, <2>2 DEF Skipped, InPlace, Unfailed
  <2>4. QED
    BY <2>1, <2>2, <2>3
<1>5. CASE it.depth # h.depth
  <2>1. it.depth > h.depth
    BY <1>1, <1>5
  <2>2. QED
    BY <1>3, <1>5, <2>1
<1>6. QED
  BY <1>4, <1>5

(* end_container() leaves the container by one level.                       *)
LEMMA EndContainerIs ==
  ASSUME NEW it, Sound(it), NEW h, Point(h), it.depth = h.depth,
         NEW n, n = EndContainer(it, h)
  PROVE  /\ Sound(n) /\ n.position = it.position /\ n.depth = h.depth - 1
         /\ Unfailed(n, it) /\ n.out = "no" /\ n.faults = it.faults
<1>1. PICK d \in Nat : d = h.depth - 1 /\ it.depth = d + 1
  BY PointIs
<1> DEFINE up == AscendTo(it, d)
<1>2. n = Yield(up, "no")
  BY <1>1 DEF EndContainer
<1>3. /\ Sound(up) /\ up.position = it.position /\ up.depth = d
      /\ Unfailed(up, it) /\ up.faults = it.faults
  BY <1>1, AscendToIs
<1> HIDE DEF up
<1>4. "no" \in Outs
  BY OutsAre
<1>5. /\ Sound(n) /\ InPlace(n, up) /\ Unfailed(n, up) /\ n.out = "no" /\ n.faults = up.faults
  BY <1>2, <1>3, <1>4, YieldIs
<1>6. QED
  BY <1>1, <1>3, <1>5 DEF InPlace, Unfailed

LEMMA GoDownIs ==
  ASSUME NEW it, Sound(it), NEW h, Point(h), it.depth = h.depth,
         NEW n, n = DescendTo(it, h.depth + 1)
  PROVE  /\ Sound(n) /\ n.position = it.position /\ n.depth = h.depth + 1
         /\ Unfailed(n, it) /\ n.out = it.out /\ n.faults = it.faults
<1>1. PICK d \in Nat : d = h.depth + 1 /\ it.depth = d - 1
  BY PointIs
<1>2. n = DescendTo(it, d)
  BY <1>1
<1>3. QED
  BY <1>1, <1>2, DescendToIs

(* How the first look into a container ends. *)
Begun(n, it, h) ==
    /\ Sound(n)
    /\ Unfailed(n, it)
    /\ \/ /\ n.out = "yes" /\ n.position = h.start + 1 /\ n.depth = Level(h)
          /\ Token(h.start + 1) # Partner(h)
       \/ /\ n.out = "no" /\ n.position = h.start + 2 /\ n.depth = h.depth - 1
          /\ Token(h.start + 1) = Partner(h)
    /\ Clean(it) /\ h.start < EndPosition + 2 => Clean(n)

(* started_array() and started_object(): into the container or, when it is  *)
(* empty, behind it.                                                        *)
LEMMA StartedIs ==
  ASSUME Len(doc) \in Nat \ {0}, NEW it, Sound(it), NEW h, Point(h),
         it.position = h.start + 1, it.depth = h.depth,
         NEW n, n = Started(it, h)
  PROVE  Begun(n, it, h)
<1>1. /\ h.depth - 1 \in Nat /\ h.depth + 1 \in Nat /\ h.depth \in Nat /\ h.start \in Nat
      /\ EndPosition \in Nat
  BY PointIs DEF EndPosition
<1>2. PICK p \in Nat : p = h.start + 1 /\ (h.start < EndPosition + 2 <=> p < EndPosition + 3)
  BY <1>1
<1>3. Assume(it, it.position = h.start + 1 /\ it.depth = h.depth) = it
  BY DEF Assume
<1>4. Peek(it) = Token(p)
  BY <1>2 DEF Peek
<1>5. "yes" \in Outs
  BY OutsAre
<1> DEFINE a == Advance(it)
           r == ReadAt(it, p)
           down == DescendTo(r, h.depth + 1)
<1>6. n = IF Token(p) = Partner(h) THEN EndContainer(a, h)
          ELSE IF IsArray(h) THEN Yield(down, "yes") ELSE Yield(r, "yes")
  BY <1>2, <1>3, <1>4 DEF Started, StartedArray, StartedObject, Partner
<1>7. CASE Token(p) = Partner(h)
  <2>1. /\ Sound(a) /\ a.position = it.position + 1 /\ a.depth = it.depth
        /\ Unfailed(a, it)
        /\ it.position < EndPosition + 3 /\ Clean(it) => Clean(a)
    BY AdvanceIs
  <2> HIDE DEF a
  <2>2. n = EndContainer(a, h)
    BY <1>6, <1>7
  <2>3. /\ Sound(n) /\ n.position = a.position /\ n.depth = h.depth - 1
        /\ Unfailed(n, a) /\ n.out = "no" /\ n.faults = a.faults
    BY <2>1, <2>2, EndContainerIs
  <2>4. n.position = h.start + 2
    BY <1>1, <2>1, <2>3
  <2>5. Unfailed(n, it)
    BY <2>1, <2>3 DEF Unfailed
  <2>6. Clean(it) /\ h.start < EndPosition + 2 => Clean(n)
    BY <1>2, <2>1, <2>3 DEF Clean
  <2>7. QED
    BY <1>2, <1>7, <2>3, <2>4, <2>5, <2>6 DEF Begun
<1>8. CASE Token(p) # Partner(h)
  <2>1. /\ Sound(r) /\ InPlace(r, it) /\ Unfailed(r, it)
        /\ p < EndPosition + 3 /\ Clean(it) => Clean(r)
    BY <1>2, ReadAtIs
  <2> HIDE DEF r
  <2>2. r.depth = h.depth
    BY <1>1, <2>1 DEF InPlace
  <2>3. /\ Sound(down) /\ down.position = r.position /\ down.depth = h.depth + 1
        /\ Unfailed(down, r) /\ down.faults = r.faults
    BY <2>1, <2>2, GoDownIs
  <2> HIDE DEF down
  <2> DEFINE y == IF IsArray(h) THEN down ELSE r
  <2>4. n = Yield(y, "yes")
    BY <1>6, <1>8
  <2>5. /\ Sound(y) /\ y.position = h.start + 1 /\ y.depth = Level(h)
        /\ Unfailed(y, it)
        /\ p < EndPosition + 3 /\ Clean(it) => Clean(y)
    BY <2>1, <2>3 DEF Level, InPlace, Unfailed, Clean
  <2> HIDE DEF y
  <2>6. /\ Sound(n) /\ InPlace(n, y) /\ Unfailed(n, y)
        /\ n.out = "yes" /\ n.faults = y.faults
    BY <1>5, <2>4, <2>5, YieldIs
  <2>7. n.position = h.start + 1 /\ n.depth = Level(h) /\ Unfailed(n, it)
    BY <2>5, <2>6 DEF InPlace, Unfailed
  <2>8. Clean(it) /\ h.start < EndPosition + 2 => Clean(n)
    BY <1>2, <2>5, <2>6 DEF Clean
  <2>9. QED
    BY <1>2, <1>8, <2>6, <2>7, <2>8 DEF Begun
<1>9. QED
  BY <1>7, <1>8

(* Where get_array() or get_object() leaves the iterator: on the wrong      *)
(* type, at a document whose end is missing, or inside the container.       *)
Opened(n, it, h, open, isRoot) ==
    \/ /\ Token(h.start) # open
       /\ Sound(n) /\ InPlace(n, it) /\ Unfailed(n, it)
       /\ n.out = "INCORRECT_TYPE" /\ n.faults = it.faults
    \/ /\ isRoot /\ ~streaming /\ Token(h.start) = open
       /\ Sound(n) /\ n.position = h.start + 1 /\ n.depth = 0 /\ ~n.alive
       /\ n.error = "INCOMPLETE_ARRAY_OR_OBJECT" /\ n.out = n.error
       /\ Clean(it) /\ h.start < EndPosition + 2 => Clean(n)
    \/ /\ Token(h.start) = open
       /\ Begun(n, it, h)
       /\ isRoot /\ ~streaming => Token(Len(doc)) = Partner(h)

(* start_container() opens a container where the iterator stands at it; for *)
(* the whole document it gives up when the end is missing.                  *)
LEMMA StartContainerIs ==
  ASSUME Len(doc) \in Nat \ {0}, NEW it, Sound(it), it.alive, NEW h, Point(h),
         it.position = h.start, it.depth = h.depth,
         NEW open, NEW isRoot \in BOOLEAN,
         NEW n, n = StartContainer(it, h, open, isRoot)
  PROVE  Opened(n, it, h, open, isRoot)
<1>1. h.start \in Nat /\ h.depth > 0 /\ EndPosition \in Nat /\ "INCORRECT_TYPE" \in Outs
      /\ "INCOMPLETE_ARRAY_OR_OBJECT" \in Errors
  BY PointIs, OutsAre DEF EndPosition
<1> DEFINE a == Advance(it)
<1>2. n = IF Token(h.start) # open THEN Yield(it, "INCORRECT_TYPE")
          ELSE IF isRoot THEN StartedRoot(a, h) ELSE Started(a, h)
  <2>1. Assume(it, it.depth = h.depth /\ h.depth > 0) = it
    BY <1>1 DEF Assume
  <2>2. QED
    BY <2>1 DEF StartContainer, AtStart
<1>3. CASE Token(h.start) # open
  <2>1. n = Yield(it, "INCORRECT_TYPE")
    BY <1>2, <1>3
  <2>2. /\ Sound(n) /\ InPlace(n, it) /\ Unfailed(n, it)
        /\ n.out = "INCORRECT_TYPE" /\ n.faults = it.faults
    BY <1>1, <2>1, YieldIs
  <2>3. QED
    BY <1>3, <2>2 DEF Opened
<1>4. CASE Token(h.start) = open
  <2> DEFINE open1 == \/ Token(Len(doc)) # Partner(h)
                      \/ Token(EndPosition) = Partner(h) /\ ~Balanced
  <2>1. /\ Sound(a) /\ a.position = h.start + 1 /\ a.depth = h.depth
        /\ Unfailed(a, it)
        /\ h.start < EndPosition + 3 /\ Clean(it) => Clean(a)
    BY AdvanceIs
  <2>2. a.alive
    BY <2>1 DEF Unfailed
  <2> HIDE DEF a
  <2>3. n = IF isRoot /\ ~streaming /\ open1
            THEN ReportError(Abandon(a), "INCOMPLETE_ARRAY_OR_OBJECT")
            ELSE Started(a, h)
    BY <1>2, <1>4, <2>2 DEF StartedRoot, Partner, UseParser
  <2>4. CASE isRoot /\ ~streaming /\ open1
    <3> DEFINE b == Abandon(a)
    <3>1. /\ Sound(b) /\ b.position = a.position /\ b.depth = 0 /\ ~b.alive
          /\ b.faults = a.faults
      BY <2>1, AbandonIs
    <3>2. n = ReportError(b, "INCOMPLETE_ARRAY_OR_OBJECT")
      BY <2>3, <2>4
    <3> HIDE DEF b
    <3>3. /\ Sound(n) /\ InPlace(n, b) /\ n.alive = b.alive
          /\ n.error = "INCOMPLETE_ARRAY_OR_OBJECT"
          /\ n.out = "INCOMPLETE_ARRAY_OR_OBJECT" /\ n.faults = b.faults
      BY <1>1, <3>1, <3>2, ReportErrorIs
    <3>4. n.position = h.start + 1 /\ n.depth = 0 /\ ~n.alive
      BY <2>1, <3>1, <3>3 DEF InPlace
    <3>5. h.start < EndPosition + 2 => h.start < EndPosition + 3
      BY <1>1
    <3>6. Clean(it) /\ h.start < EndPosition + 2 => Clean(n)
      BY <2>1, <3>1, <3>3, <3>5 DEF Clean
    <3>7. QED
      BY <1>4, <2>4, <3>3, <3>4, <3>6 DEF Opened
  <2>5. CASE ~(isRoot /\ ~streaming /\ open1)
    <3>1. n = Started(a, h)
      BY <2>3, <2>5
    <3>2. Begun(n, a, h)
      BY <2>1, <3>1, StartedIs
    <3>3. Unfailed(n, it)
      BY <2>1, <3>2 DEF Begun, Unfailed
    <3>4. h.start < EndPosition + 2 => h.start < EndPosition + 3
      BY <1>1
    <3>5. Clean(it) /\ h.start < EndPosition + 2 => Clean(n)
      BY <2>1, <3>2, <3>4 DEF Begun
    <3>6. Begun(n, it, h)
      BY <3>2, <3>3, <3>5 DEF Begun
    <3>7. QED
      BY <1>4, <2>5, <3>6 DEF Opened
  <2>6. QED
    BY <2>4, <2>5
<1>5. QED
  BY <1>3, <1>4

(* reset_array() and reset_object() begin the container again.              *)
LEMMA ResetIs ==
  ASSUME Len(doc) \in Nat \ {0}, NEW it, Sound(it), NEW h, Point(h),
         NEW n, n = Reset(it, h)
  PROVE  Begun(n, it, h)
<1>1. PICK p \in Nat \ {0}, d \in Nat : p = h.start + 1 /\ d = h.depth
  BY PointIs
<1> DEFINE m == MoveTo(it, p, d)
<1>2. n = Started(m, h)
  BY <1>1 DEF Reset
<1>3. /\ Sound(m) /\ m.position = p /\ m.depth = d /\ Unfailed(m, it) /\ m.faults = it.faults
  BY MoveToIs
<1> HIDE DEF m
<1>4. m.position = h.start + 1 /\ m.depth = h.depth
  BY <1>1, <1>3
<1>5. Begun(n, m, h)
  BY <1>2, <1>3, <1>4, StartedIs
<1>6. QED
  BY <1>3, <1>5 DEF Begun, Unfailed, Clean

(* What follows an item: another one, the end, or an error. *)
Followed(n, it, h) ==
    /\ Sound(n)
    /\ n.alive = it.alive
    /\ n.position = it.position + 1
    /\ \/ /\ n.out = "yes" /\ n.error = it.error /\ n.depth = Level(h)
          /\ Token(it.position) = ","
       \/ /\ n.out = "no" /\ n.error = it.error /\ n.depth = h.depth - 1
          /\ Token(it.position) = Partner(h)
       \/ /\ n.out = "TAPE_ERROR" /\ n.error = "TAPE_ERROR"
          /\ Token(it.position) \notin {",", Partner(h)}
    /\ Clean(it) /\ it.position < EndPosition + 3 => Clean(n)

(* has_next_element() and has_next_field() take one token.                  *)
LEMMA HasNextIs ==
  ASSUME NEW it, Sound(it), NEW h, Point(h),
         it.position > h.start, it.depth = h.depth,
         NEW n, n = HasNext(it, h)
  PROVE  Followed(n, it, h)
<1>1. h.depth > 0 /\ "," # Partner(h)
  BY PointIs DEF Partner
<1>2. Assume(it, AtNext(it, h)) = it
  BY <1>1 DEF Assume, AtNext
<1>3. "yes" \in Outs /\ "TAPE_ERROR" \in Errors
  BY OutsAre
<1> DEFINE a == Advance(it)
           down == DescendTo(a, h.depth + 1)
<1>4. n = IF Token(it.position) = Partner(h) THEN EndContainer(a, h)
          ELSE IF Token(it.position) = ","
          THEN Yield(IF IsArray(h) THEN down ELSE a, "yes")
          ELSE ReportError(a, "TAPE_ERROR")
  BY <1>2 DEF HasNext, Partner, Peek
<1>5. /\ Sound(a) /\ a.position = it.position + 1 /\ a.depth = h.depth
      /\ Unfailed(a, it)
      /\ it.position < EndPosition + 3 /\ Clean(it) => Clean(a)
  BY AdvanceIs
<1> HIDE DEF a
<1>6. CASE Token(it.position) = Partner(h)
  <2>1. n = EndContainer(a, h)
    BY <1>4, <1>6
  <2>2. /\ Sound(n) /\ n.position = a.position /\ n.depth = h.depth - 1
        /\ Unfailed(n, a) /\ n.out = "no" /\ n.faults = a.faults
    BY <1>5, <2>1, EndContainerIs
  <2>3. QED
    BY <1>5, <1>6, <2>2 DEF Followed, Unfailed, Clean
<1>7. CASE Token(it.position) = ","
  <2> DEFINE y == IF IsArray(h) THEN down ELSE a
  <2>1. n = Yield(y, "yes")
    BY <1>1, <1>4, <1>7
  <2>2. /\ Sound(down) /\ down.position = a.position /\ down.depth = h.depth + 1
        /\ Unfailed(down, a) /\ down.faults = a.faults
    BY <1>5, GoDownIs
  <2> HIDE DEF down
  <2>3. /\ Sound(y) /\ y.position = a.position /\ y.depth = Level(h)
        /\ Unfailed(y, a) /\ y.faults = a.faults
    BY <1>5, <2>2 DEF Level, Unfailed
  <2> HIDE DEF y
  <2>4. /\ Sound(n) /\ InPlace(n, y) /\ Unfailed(n, y) /\ n.out = "yes" /\ n.faults = y.faults
    BY <1>3, <2>1, <2>3, YieldIs
  <2>5. QED
    BY <1>5, <1>7, <2>3, <2>4 DEF Followed, InPlace, Unfailed, Clean
<1>8. CASE Token(it.position) \notin {",", Partner(h)}
  <2>1. n = ReportError(a, "TAPE_ERROR")
    BY <1>4, <1>8
  <2>2. /\ Sound(n) /\ InPlace(n, a) /\ n.alive = a.alive
        /\ n.error = "TAPE_ERROR" /\ n.out = "TAPE_ERROR" /\ n.faults = a.faults
    BY <1>3, <1>5, <2>1, ReportErrorIs
  <2>3. QED
    BY <1>5, <1>8, <2>2 DEF Followed, InPlace, Unfailed, Clean
<1>9. QED
  BY <1>6, <1>7, <1>8

(* field_key() takes a key, field_value() the colon and what follows it.    *)
LEMMA FieldKeyIs ==
  ASSUME NEW it, Sound(it), NEW h, Point(h),
         it.position > h.start, it.depth = h.depth,
         NEW n, n = FieldKey(it, h)
  PROVE  /\ Sound(n) /\ n.position = it.position + 1 /\ n.depth = h.depth
         /\ n.alive = it.alive
         /\ IF Token(it.position) \in Strings
            THEN n.out = "yes" /\ n.error = it.error
            ELSE n.out = "TAPE_ERROR" /\ n.error = "TAPE_ERROR"
         /\ Clean(it) /\ it.position < EndPosition + 3 => Clean(n)
<1>1. h.depth > 0 /\ "yes" \in Outs /\ "TAPE_ERROR" \in Errors
  BY PointIs, OutsAre
<1>2. Assume(it, AtNext(it, h)) = it
  BY <1>1 DEF Assume, AtNext
<1> DEFINE a == Advance(it)
<1>3. n = IF Token(it.position) \in Strings THEN Yield(a, "yes")
                                           ELSE ReportError(a, "TAPE_ERROR")
  BY <1>2 DEF FieldKey, Peek
<1>4. /\ Sound(a) /\ a.position = it.position + 1 /\ a.depth = h.depth
      /\ Unfailed(a, it)
      /\ it.position < EndPosition + 3 /\ Clean(it) => Clean(a)
  BY AdvanceIs
<1> HIDE DEF a
<1>5. CASE Token(it.position) \in Strings
  <2>1. n = Yield(a, "yes")
    BY <1>3, <1>5
  <2>2. /\ Sound(n) /\ InPlace(n, a) /\ Unfailed(n, a) /\ n.out = "yes" /\ n.faults = a.faults
    BY <1>1, <1>4, <2>1, YieldIs
  <2>3. QED
    BY <1>4, <1>5, <2>2 DEF InPlace, Unfailed, Clean
<1>6. CASE Token(it.position) \notin Strings
  <2>1. n = ReportError(a, "TAPE_ERROR")
    BY <1>3, <1>6
  <2>2. /\ Sound(n) /\ InPlace(n, a) /\ n.alive = a.alive
        /\ n.error = "TAPE_ERROR" /\ n.out = "TAPE_ERROR" /\ n.faults = a.faults
    BY <1>1, <1>4, <2>1, ReportErrorIs
  <2>3. QED
    BY <1>4, <1>6, <2>2 DEF InPlace, Unfailed, Clean
<1>7. QED
  BY <1>5, <1>6

LEMMA FieldValueIs ==
  ASSUME NEW it, Sound(it), NEW h, Point(h),
         it.position > h.start, it.depth = h.depth,
         NEW n, n = FieldValue(it, h)
  PROVE  /\ Sound(n) /\ n.position = it.position + 1
         /\ n.alive = it.alive
         /\ IF Token(it.position) = ":"
            THEN n.out = "yes" /\ n.error = it.error /\ n.depth = h.depth + 1
            ELSE n.out = "TAPE_ERROR" /\ n.error = "TAPE_ERROR" /\ n.depth = h.depth
         /\ Clean(it) /\ it.position < EndPosition + 3 => Clean(n)
<1>1. h.depth > 0 /\ "yes" \in Outs /\ "TAPE_ERROR" \in Errors
  BY PointIs, OutsAre
<1>2. Assume(it, AtNext(it, h)) = it
  BY <1>1 DEF Assume, AtNext
<1> DEFINE a == Advance(it)
           down == DescendTo(a, h.depth + 1)
<1>3. n = IF Token(it.position) = ":" THEN Yield(down, "yes")
                                      ELSE ReportError(a, "TAPE_ERROR")
  BY <1>2 DEF FieldValue, Peek
<1>4. /\ Sound(a) /\ a.position = it.position + 1 /\ a.depth = h.depth
      /\ Unfailed(a, it)
      /\ it.position < EndPosition + 3 /\ Clean(it) => Clean(a)
  BY AdvanceIs
<1> HIDE DEF a
<1>5. CASE Token(it.position) = ":"
  <2>1. n = Yield(down, "yes")
    BY <1>3, <1>5
  <2>2. /\ Sound(down) /\ down.position = a.position /\ down.depth = h.depth + 1
        /\ Unfailed(down, a) /\ down.faults = a.faults
    BY <1>4, GoDownIs
  <2> HIDE DEF down
  <2>3. /\ Sound(n) /\ InPlace(n, down) /\ Unfailed(n, down) /\ n.out = "yes"
        /\ n.faults = down.faults
    BY <1>1, <2>1, <2>2, YieldIs
  <2>4. QED
    BY <1>4, <1>5, <2>2, <2>3 DEF InPlace, Unfailed, Clean
<1>6. CASE Token(it.position) # ":"
  <2>1. n = ReportError(a, "TAPE_ERROR")
    BY <1>3, <1>6
  <2>2. /\ Sound(n) /\ InPlace(n, a) /\ n.alive = a.alive
        /\ n.error = "TAPE_ERROR" /\ n.out = "TAPE_ERROR" /\ n.faults = a.faults
    BY <1>1, <1>4, <2>1, ReportErrorIs
  <2>3. QED
    BY <1>4, <1>6, <2>2 DEF InPlace, Unfailed, Clean
<1>7. QED
  BY <1>5, <1>6

(* Where taking an item leaves the iterator: at its value, which for a      *)
(* field is two tokens further on.                                          *)
Taken(n, it, h) ==
    /\ Sound(n)
    /\ n.alive = it.alive
    /\ n.position >= it.position
    /\ IF n.out = "yes"
       THEN /\ n.error = it.error /\ n.depth = h.depth + 1
            /\ IF IsArray(h) THEN n.position = it.position
               ELSE /\ n.position = it.position + 2
                    /\ Token(it.position) \in Strings /\ Token(it.position + 1) = ":"
       ELSE /\ ~IsArray(h)
            /\ n.out = "TAPE_ERROR" /\ n.error = "TAPE_ERROR"
            /\ n.position \in {it.position + 1, it.position + 2}
    /\ Clean(it) /\ (~IsArray(h) => it.position < EndPosition + 3)
         /\ (~IsArray(h) /\ Token(it.position) \in Strings => it.position < EndPosition + 2)
       => Clean(n)

(* One element, or one field with its key.                                  *)
LEMMA TakeItemIs ==
  ASSUME Len(doc) \in Nat, NEW it, Sound(it), NEW h, Point(h),
         it.position > h.start, it.depth = Level(h),
         NEW n, n = TakeItem(it, h)
  PROVE  Taken(n, it, h)
<1>1. /\ h.depth > 0 /\ "yes" \in Outs /\ EndPosition \in Nat
      /\ it.position \in Nat /\ h.start \in Nat
  BY PointIs, OutsAre, IteratorIs DEF EndPosition
<1>2. CASE IsArray(h)
  <2>1. it.depth = h.depth + 1
    BY <1>2 DEF Level
  <2>2. AssumeAtChild(it, h) = it
    BY <1>1, <2>1 DEF AssumeAtChild, Assume
  <2>3. n = Yield(it, "yes")
    BY <1>2, <2>2 DEF TakeItem, Fresh
  <2>4. /\ Sound(n) /\ InPlace(n, it) /\ Unfailed(n, it) /\ n.out = "yes" /\ n.faults = it.faults
    BY <1>1, <2>3, YieldIs
  <2>5. QED
    BY <1>1, <1>2, <2>1, <2>4 DEF Taken, InPlace, Unfailed, Clean
<1>3. CASE ~IsArray(h)
  <2> DEFINE key == FieldKey(it, h)
  <2>1. it.depth = h.depth
    BY <1>3 DEF Level
  <2>2. n = IF key.out \notin {"yes", "no"} THEN key ELSE FieldValue(key, h)
    BY <1>3 DEF TakeItem, Failed
  <2>3. /\ Sound(key) /\ key.position = it.position + 1 /\ key.depth = h.depth
        /\ key.alive = it.alive
        /\ IF Token(it.position) \in Strings
           THEN key.out = "yes" /\ key.error = it.error
           ELSE key.out = "TAPE_ERROR" /\ key.error = "TAPE_ERROR"
        /\ Clean(it) /\ it.position < EndPosition + 3 => Clean(key)
    BY <2>1, FieldKeyIs
  <2> HIDE DEF key
  <2>4. CASE Token(it.position) \notin Strings
    <3>1. n = key /\ key.out = "TAPE_ERROR"
      BY <2>2, <2>3, <2>4
    <3>2. QED
      BY <1>1, <1>3, <2>3, <2>4, <3>1 DEF Taken
  <2>5. CASE Token(it.position) \in Strings
    <3>1. n = FieldValue(key, h)
      BY <2>2, <2>3, <2>5
    <3>2. key.position > h.start
      BY <1>1, <2>3
    <3>3. /\ Sound(n) /\ n.position = key.position + 1
          /\ n.alive = key.alive
          /\ IF Token(key.position) = ":"
             THEN n.out = "yes" /\ n.error = key.error /\ n.depth = h.depth + 1
             ELSE n.out = "TAPE_ERROR" /\ n.error = "TAPE_ERROR" /\ n.depth = h.depth
          /\ Clean(key) /\ key.position < EndPosition + 3 => Clean(n)
      BY <2>3, <3>1, <3>2, FieldValueIs
    <3>4. n.position = it.position + 2 /\ n.position >= it.position
      BY <1>1, <2>3, <3>3
    <3>5. Clean(it) /\ it.position < EndPosition + 2 => Clean(n)
      BY <1>1, <2>3, <3>3
    <3>6. QED
      BY <1>3, <2>3, <2>5, <3>3, <3>4, <3>5 DEF Taken
  <2>6. QED
    BY <2>4, <2>5
<1>4. QED
  BY <1>2, <1>3
-----------------------------------------------------------------------------
(* The iterators of loops *)

(* operator* hands out a value or gives up. *)
Given(n, it, h) ==
    /\ Sound(n)
    /\ n.position >= it.position
    /\ IF n.out = "yes"
       THEN it.error = "SUCCESS" /\ Taken(n, it, h)
       ELSE /\ n.out \in Errors \ {"SUCCESS"} /\ n.error # "SUCCESS"
            /\ ~n.alive /\ n.depth = 0
            /\ n.position \in {it.position, it.position + 1, it.position + 2}
            /\ it.error # "SUCCESS" => n.position = it.position /\ n.faults = it.faults
    /\ it.error = "SUCCESS" /\ Clean(it)
         /\ (~IsArray(h) => it.position < EndPosition + 3)
         /\ (~IsArray(h) /\ Token(it.position) \in Strings => it.position < EndPosition + 2)
       => Clean(n)

(* operator* of an iterator over an array or an object.                     *)
LEMMA DereferenceIs ==
  ASSUME Len(doc) \in Nat, NEW it, Sound(it), NEW h, Point(h),
         it.error = "SUCCESS" => it.position > h.start /\ it.depth = Level(h),
         NEW n, n = Dereference(it, h)
  PROVE  Given(n, it, h)
<1>1. it.position \in Nat /\ it.error \in Errors /\ it.error \in Outs /\ it.error \notin {"yes"}
  BY IteratorIs, OutsAre
<1> DEFINE item == TakeItem(it, h)
<1>2. n = IF it.error # "SUCCESS" THEN Abandon(Yield(it, it.error))
          ELSE IF item.out \notin {"yes", "no"} THEN Abandon(item) ELSE item
  BY DEF Dereference, Failed
<1>3. CASE it.error # "SUCCESS"
  <2> DEFINE y == Yield(it, it.error)
  <2>1. /\ Sound(y) /\ InPlace(y, it) /\ Unfailed(y, it)
        /\ y.out = it.error /\ y.faults = it.faults
    BY <1>1, YieldIs
  <2>2. n = Abandon(y)
    BY <1>2, <1>3
  <2> HIDE DEF y
  <2>3. /\ Sound(n) /\ n.position = y.position /\ n.depth = 0 /\ ~n.alive
        /\ n.error = y.error /\ n.out = y.out /\ n.faults = y.faults
    BY <2>1, <2>2, AbandonIs
  <2>4. QED
    BY <1>1, <1>3, <2>1, <2>3 DEF Given, InPlace, Unfailed
<1>4. CASE it.error = "SUCCESS"
  <2>1. Taken(item, it, h)
    BY <1>4, TakeItemIs
  <2> HIDE DEF item
  <2>2. n = IF item.out \notin {"yes", "no"} THEN Abandon(item) ELSE item
    BY <1>2, <1>4
  <2>3. CASE item.out = "yes"
    <3>1. n = item
      BY <2>2, <2>3
    <3>2. QED
      BY <1>4, <2>1, <2>3, <3>1 DEF Given, Taken
  <2>4. CASE item.out # "yes"
    <3>1. /\ Sound(item) /\ item.out = "TAPE_ERROR" /\ item.error = "TAPE_ERROR"
          /\ item.position >= it.position
          /\ item.position \in {it.position + 1, it.position + 2}
          /\ Clean(it) /\ (~IsArray(h) => it.position < EndPosition + 3)
               /\ (~IsArray(h) /\ Token(it.position) \in Strings => it.position < EndPosition + 2)
             => Clean(item)
      BY <2>1, <2>4 DEF Taken
    <3>2. n = Abandon(item)
      BY <2>2, <3>1
    <3>3. /\ Sound(n) /\ n.position = item.position /\ n.depth = 0 /\ ~n.alive
          /\ n.error = item.error /\ n.out = item.out /\ n.faults = item.faults
      BY <3>1, <3>2, AbandonIs
    <3>4. n.out \in Errors \ {"SUCCESS"} /\ n.error # "SUCCESS" /\ n.out # "yes"
      BY <3>1, <3>3, OutsAre
    <3>5. Clean(item) => Clean(n)
      BY <3>3 DEF Clean
    <3>6. n.position \in {it.position, it.position + 1, it.position + 2}
          /\ n.position >= it.position
      BY <3>1, <3>3
    <3>7. QED
      BY <1>4, <3>1, <3>3, <3>4, <3>5, <3>6 DEF Given
  <2>5. QED
    BY <2>3, <2>4
<1>5. QED
  BY <1>3, <1>4

(* operator++ goes on to the next item, leaves the container, or fails. *)
Stepped(n, it, h) ==
    /\ Sound(n)
    /\ n.alive = it.alive
    /\ n.position >= it.position
    /\ IF n.error = "SUCCESS"
       THEN /\ it.error = "SUCCESS"
            /\ n.position > it.position
            /\ n.depth \in {Level(h), h.depth - 1}
       ELSE n.alive \/ n.depth = 0

(* operator++ of an iterator over an array or an object.                    *)
LEMMA IncrementIs ==
  ASSUME Len(doc) \in Nat \ {0}, NEW it, Sound(it), NEW h, Point(h),
         it.position > h.start,
         it.error = "SUCCESS" => it.alive /\ it.depth >= h.depth,
         it.alive \/ it.depth = 0,
         NEW n, n = Increment(it, h)
  PROVE  Stepped(n, it, h)
<1>1. /\ it.position \in Nat /\ it.depth \in Nat /\ it.alive \in BOOLEAN
      /\ h.start \in Nat /\ h.depth \in Nat /\ h.depth > 0
  BY IteratorIs, PointIs
<1> DEFINE skipped == SkipChild(it, h)
           quiet == IF IsArray(h) THEN it.error # "SUCCESS" ELSE ~(it.depth >= h.depth)
<1>2. n = IF quiet THEN it ELSE IF skipped.out \notin {"yes", "no"} THEN skipped
                                ELSE HasNext(skipped, h)
  BY DEF Increment, IsOpen, Failed
<1>3. CASE quiet
  <2>1. it.error # "SUCCESS"
    BY <1>3
  <2>2. n = it
    BY <1>2, <1>3
  <2>3. QED
    BY <1>1, <2>1, <2>2 DEF Stepped
<1>4. CASE ~quiet
  <2>1. it.alive /\ it.depth >= h.depth
    BY <1>1, <1>4
  <2>2. Skipped(skipped, it, h.depth)
    BY <2>1, SkipChildIs
  <2> HIDE DEF skipped
  <2>3. n = IF skipped.out \notin {"yes", "no"} THEN skipped ELSE HasNext(skipped, h)
    BY <1>2, <1>4
  <2>4. CASE skipped.out = "yes"
    <3>1. n = HasNext(skipped, h)
      BY <2>3, <2>4
    <3>2. /\ Sound(skipped) /\ skipped.depth = h.depth /\ skipped.error = it.error
          /\ skipped.alive = it.alive /\ skipped.position >= it.position
      BY <2>2, <2>4 DEF Skipped
    <3>3. skipped.position \in Nat
      BY <3>2, IteratorIs
    <3>4. skipped.position > h.start
      BY <1>1, <3>2, <3>3
    <3>5. Followed(n, skipped, h)
      BY <3>1, <3>2, <3>4, HasNextIs
    <3>6. Sound(n) /\ n.alive = it.alive /\ n.alive /\ n.position > it.position
          /\ n.position >= it.position
      <4>1. Sound(n) /\ n.alive = skipped.alive /\ n.position = skipped.position + 1
        BY <3>5 DEF Followed
      <4>2. n.position > it.position /\ n.position >= it.position
        BY <1>1, <3>2, <3>3, <4>1
      <4>3. QED
        BY <2>1, <3>2, <4>1, <4>2
    <3>7. n.error = "SUCCESS" => it.error = "SUCCESS" /\ n.depth \in {Level(h), h.depth - 1}
      BY <3>2, <3>5 DEF Followed
    <3>8. QED
      BY <3>6, <3>7 DEF Stepped
  <2>5. CASE skipped.out # "yes"
    <3>1. /\ Sound(skipped) /\ skipped.out = "TAPE_ERROR" /\ skipped.error = "TAPE_ERROR"
          /\ skipped.alive = it.alive /\ skipped.position >= it.position
      BY <2>2, <2>5 DEF Skipped
    <3>2. n = skipped
      BY <2>3, <3>1
    <3>3. QED
      BY <2>1, <3>1, <3>2 DEF Stepped
  <2>6. QED
    BY <2>4, <2>5
<1>5. QED
  BY <1>3, <1>4
-----------------------------------------------------------------------------
(* The handles the user holds, one inside the other *)

Kinds   == {"document", "value", "array", "object"}
Modes   == {"fresh", "spent", "looping", "used", "resumed"}
Handles == [kind : Kinds, depth : Nat \ {0}, start : Nat \ {0}, mode : Modes]

IsContainer(h) == h.kind \in {"array", "object"}
Resumable(h)   == IsContainer(h) \/ h.mode = "resumed"
Fields(h)      == h.kind = "object" \/ h.mode = "resumed"
Unopened(h)    == h.kind \in {"document", "value"} /\ h.mode = "fresh"

HandleOK(h) ==
    /\ h \in Handles
    /\ h.kind = "array" => Token(h.start) = "["
    /\ Fields(h) => Token(h.start) = "{"
    /\ h.mode = "resumed" => ~IsContainer(h)
    /\ h.mode = "looping" => IsContainer(h)

(* h is what the user took from g. *)
TakenFrom(g, h) ==
    /\ h.kind # "document"
    /\ g.mode # "fresh"
    /\ g.depth <= h.depth /\ g.start <= h.start
    /\ Resumable(g) => g.depth < h.depth /\ g.start < h.start
    /\ Fields(g) => g.start + 2 <= h.start

StackOK(s, r) ==
    /\ s \in Seq(Handles) /\ Len(s) \in Nat \ {0}
    /\ s[1].kind = "document" /\ s[1].depth = 1 /\ s[1].start = r
    /\ \A k \in 1..Len(s) : HandleOK(s[k])
    /\ \A k \in 1..Len(s)-1 : TakenFrom(s[k], s[k+1])

IteratorOK(it) == Sound(it) /\ (it.alive \/ it.error # "SUCCESS")

(* Where the iterator may be when the user has his turn and holds top. *)
Rests(it, top, counted) ==
    /\ it.position >= top.start
    /\ Resumable(top) => it.position > top.start
    /\ it.error = "SUCCESS" =>
         /\ it.depth >= top.depth - 1
         /\ top.mode = "looping" => it.depth >= top.depth
         /\ Unopened(top) => it.position = top.start /\ it.depth = top.depth
         /\ Fields(top) /\ it.position = top.start + 1 => it.depth = top.depth
         /\ IsContainer(top) /\ top.mode = "fresh" /\ it.depth >= top.depth
              => it.depth = Level(top)
    /\ it.alive \/ it.depth = 0 \/ (counted /\ top.kind = "value")

(* Where the iterator may be while the library is in a loop. *)
Steps == Keys \cup Range(Indexes)
CallFields == {"op", "asked", "key", "path", "h", "isRoot", "first", "stop", "n", "seen"}
Runs(c, it, top) ==
    /\ DOMAIN c = CallFields
    /\ c.op \in {"descend", "enter", "field", "again", "count", "at"}
    /\ c.isRoot \in BOOLEAN
    /\ Point(c.h)
    /\ c.h.depth >= top.depth /\ c.h.start >= top.start
    /\ it.position >= c.h.start
    /\ c.op # "descend" => it.position > c.h.start
    /\ top.mode # "looping"
    /\ c.op # "count" => top.mode # "fresh"
    /\ c.path # <<>> \/ c.op = "descend" => ~Resumable(top)
    /\ Resumable(top) => c.h.depth = top.depth /\ c.h.start = top.start
    /\ c.path \in Seq(Steps)
    /\ c.op = "descend" => c.path # <<>>
    /\ c.asked # <<"loop">>
    /\ c.op \in {"enter", "field", "again"} => ~IsArray(c.h) /\ it.error = "SUCCESS"
    /\ c.op = "at" => IsArray(c.h) /\ ~Fields(top)
    /\ c.op = "descend" =>
         it.error = "SUCCESS" /\ it.position = c.h.start /\ it.depth = c.h.depth
    /\ c.op = "enter" => /\ it.depth >= c.h.depth - 1
                         /\ it.position = c.h.start + 1 => it.depth = c.h.depth
    /\ c.op = "field" => it.depth = c.h.depth
    /\ c.op = "again" => it.out = "no" \/ it.depth = c.h.depth
    /\ c.op \in {"count", "at"} =>
         /\ it.alive \/ it.depth = 0
         /\ it.error = "SUCCESS" => it.depth \in {Level(c.h), c.h.depth - 1}
    /\ c.op = "count" => /\ c.h.depth = top.depth /\ c.h.start = top.start
                         /\ top.mode = "fresh" /\ c.asked[1] = "count"

(* The inductive invariant. *)
OnDemandInv ==
    /\ doc \in Docs
    /\ StackOK(held, root)
    /\ IteratorOK(iter)
    /\ call = Idle => Rests(iter, Top, answer.asked[1] = "count")
    /\ call # Idle => Runs(call, iter, Top)

(* What is left to show of a step that ends with the turn of the user.      *)
LEMMA TurnKeeps ==
  ASSUME doc \in Docs, NEW asked, NEW it, NEW handles, NEW r,
         doc' = doc, padding' = padding, root' = r, iter' = it, held' = handles,
         call' = Idle, answer'.asked = asked,
         IteratorOK(it), StackOK(handles, r),
         Rests(it, handles[Len(handles)], asked[1] = "count")
  PROVE  OnDemandInv'
<1>1. IteratorOK(iter)'
  BY DEF IteratorOK, Sound
<1>2. StackOK(held, root)'
  BY DEF StackOK, HandleOK, TakenFrom, Fields, Resumable, IsContainer, Token, EndPosition
<1>3. Rests(iter, Top, answer.asked[1] = "count")'
  BY DEF Rests, Top, Fields, Resumable, Unopened, IsContainer, Level, IsArray, Token, EndPosition
<1>4. QED
  BY <1>1, <1>2, <1>3 DEF OnDemandInv

(* The same of a call that returns.                                         *)
LEMMA ReturnKeeps ==
  ASSUME doc \in Docs, NEW asked, NEW it, NEW handles, NEW node,
         Return(asked, it, handles, node), IteratorOK(it), StackOK(handles, root),
         Rests(it, handles[Len(handles)], asked[1] = "count")
  PROVE  OnDemandInv'
<1>1. /\ doc' = doc /\ padding' = padding /\ root' = root /\ iter' = it
      /\ held' = handles /\ call' = Idle /\ answer'.asked = asked
  BY DEF Return, input
<1>2. QED
  BY <1>1, TurnKeeps

(* The same of a call that goes on in a loop of the library.                *)
LEMMA ContinueKeeps ==
  ASSUME doc \in Docs, NEW c, NEW it, NEW handles,
         Continue(c, it, handles), IteratorOK(it), StackOK(handles, root),
         Runs(c, it, handles[Len(handles)])
  PROVE  OnDemandInv'
<1>1. /\ doc' = doc /\ padding' = padding /\ root' = root /\ iter' = it
      /\ held' = handles /\ call' = c
  BY DEF Continue, input
<1>2. IteratorOK(iter)'
  BY <1>1 DEF IteratorOK, Sound
<1>3. StackOK(held, root)'
  BY <1>1 DEF StackOK, HandleOK, TakenFrom, Fields, Resumable, IsContainer, Token, EndPosition
<1>4. Runs(call, iter, Top)'
  BY <1>1 DEF Runs, Top, Fields, Resumable, IsContainer, Level, IsArray, Token, EndPosition
<1>5. call' # Idle
  <2>1. c.op # "none"
    BY DEF Runs
  <2>2. QED
    BY <1>1, <2>1 DEF Idle
<1>6. QED
  BY <1>1, <1>2, <1>3, <1>4, <1>5 DEF OnDemandInv

LEMMA HandleIs ==
  ASSUME NEW h, HandleOK(h)
  PROVE  /\ h.depth \in Nat \ {0} /\ h.start \in Nat \ {0}
         /\ h.kind \in Kinds /\ h.mode \in Modes /\ h \in Handles
BY DEF HandleOK, Handles

(* The handle on top is one of the handles.                                 *)
LEMMA TopIs ==
  ASSUME NEW r, StackOK(held, r)
  PROVE  /\ HandleOK(Top) /\ Len(held) \in Nat \ {0}
         /\ held \in Seq(Handles)
         /\ Top.kind = "document" => Len(held) = 1 /\ Top.depth = 1 /\ Top.start = r
<1>1. Len(held) \in 1..Len(held) /\ Len(held) \in Nat \ {0} /\ held \in Seq(Handles)
  BY DEF StackOK
<1>2. HandleOK(Top)
  BY <1>1 DEF StackOK, Top
<1>3. ASSUME Top.kind = "document"
      PROVE  Len(held) = 1
  <2>1. SUFFICES ASSUME Len(held) # 1
                 PROVE  FALSE
    OBVIOUS
  <2> DEFINE k == Len(held) - 1
  <2>2. k \in 1..Len(held)-1 /\ k + 1 = Len(held)
    BY <1>1, <2>1
  <2>3. TakenFrom(held[k], held[k+1])
    BY <2>2 DEF StackOK
  <2> HIDE DEF k
  <2>4. QED
    BY <1>3, <2>2, <2>3 DEF TakenFrom, Top
<1>4. Len(held) = 1 => Top = held[1]
  BY DEF Top
<1>5. QED
  BY <1>1, <1>2, <1>3, <1>4 DEF StackOK

(* The handle on top after a mark; a handle pushed on it; one dropped.      *)
LEMMA MarkIs ==
  ASSUME NEW r, StackOK(held, r), NEW mode \in Modes, NEW s, s = Mark(mode),
         NEW h, h = [Top EXCEPT !.mode = mode], HandleOK(h)
  PROVE  /\ StackOK(s, r) /\ Len(s) = Len(held) /\ s[Len(s)] = h
         /\ h.mode = mode /\ h.kind = Top.kind /\ h.depth = Top.depth /\ h.start = Top.start
<1>1. Len(held) \in Nat \ {0} /\ held \in Seq(Handles) /\ Top \in Handles
  BY TopIs, HandleIs
<1>2. h \in Handles /\ h.mode = mode /\ h.kind = Top.kind /\ h.depth = Top.depth
        /\ h.start = Top.start
  BY <1>1 DEF Handles
<1>3. s = [held EXCEPT ![Len(held)] = h]
  BY <1>1 DEF Mark, Top
<1>4. /\ s \in Seq(Handles) /\ Len(s) = Len(held)
      /\ \A k \in 1..Len(held) : s[k] = IF k = Len(held) THEN h ELSE held[k]
  BY <1>1, <1>2, <1>3
<1>5. s[Len(s)] = h
  BY <1>1, <1>4
<1>6. s[1].kind = held[1].kind /\ s[1].depth = held[1].depth /\ s[1].start = held[1].start
  <2>1. CASE Len(held) = 1
    <3>1. s[1] = h
      BY <1>4, <2>1
    <3>2. held[1] = Top
      BY <2>1 DEF Top
    <3>3. QED
      BY <1>2, <3>1, <3>2
  <2>2. CASE Len(held) # 1
    BY <1>1, <1>4, <2>2
  <2>3. QED
    BY <2>1, <2>2
<1>7. ASSUME NEW k \in 1..Len(s)
      PROVE  HandleOK(s[k])
  BY <1>4, <1>7 DEF StackOK
<1>8. ASSUME NEW k \in 1..Len(s)-1
      PROVE  TakenFrom(s[k], s[k+1])
  <2>1. TakenFrom(held[k], held[k+1])
    BY <1>4, <1>8 DEF StackOK
  <2>2. s[k] = held[k]
    BY <1>1, <1>4, <1>8
  <2>3. CASE k + 1 = Len(held)
    <3>1. s[k+1] = h /\ held[k+1] = Top
      BY <1>1, <1>4, <2>3 DEF Top
    <3>2. QED
      BY <1>2, <2>1, <2>2, <3>1 DEF TakenFrom
  <2>4. CASE k + 1 # Len(held)
    <3>1. s[k+1] = held[k+1]
      BY <1>1, <1>4, <1>8, <2>4
    <3>2. QED
      BY <2>1, <2>2, <3>1
  <2>5. QED
    BY <2>3, <2>4
<1>9. s[1].kind = "document" /\ s[1].depth = 1 /\ s[1].start = r
  BY <1>6 DEF StackOK
<1>10. StackOK(s, r)
  BY <1>1, <1>4, <1>7, <1>8, <1>9 DEF StackOK
<1>11. QED
  BY <1>2, <1>4, <1>5, <1>10

LEMMA PushIs ==
  ASSUME NEW r, NEW s, StackOK(s, r), NEW h, HandleOK(h), TakenFrom(s[Len(s)], h)
  PROVE  /\ StackOK(Append(s, h), r)
         /\ Append(s, h)[Len(Append(s, h))] = h
<1> DEFINE t == Append(s, h)
<1>1. s \in Seq(Handles) /\ Len(s) \in Nat \ {0} /\ h \in Handles
  BY HandleIs DEF StackOK
<1>2. /\ t \in Seq(Handles) /\ Len(t) = Len(s) + 1 /\ t[Len(s) + 1] = h
      /\ \A k \in 1..Len(s) : t[k] = s[k]
  BY <1>1
<1> HIDE DEF t
<1>3. ASSUME NEW k \in 1..Len(t)
      PROVE  HandleOK(t[k])
  <2>1. CASE k = Len(s) + 1
    BY <1>2, <2>1
  <2>2. CASE k # Len(s) + 1
    <3>1. k \in 1..Len(s)
      BY <1>1, <1>2, <2>2
    <3>2. QED
      BY <1>2, <3>1 DEF StackOK
  <2>3. QED
    BY <2>1, <2>2
<1>4. ASSUME NEW k \in 1..Len(t)-1
      PROVE  TakenFrom(t[k], t[k+1])
  <2>1. k \in 1..Len(s) /\ t[k] = s[k]
    BY <1>1, <1>2
  <2>2. CASE k = Len(s)
    BY <1>2, <2>1, <2>2
  <2>3. CASE k # Len(s)
    <3>1. k \in 1..Len(s)-1 /\ k + 1 \in 1..Len(s)
      BY <1>1, <2>1, <2>3
    <3>2. t[k+1] = s[k+1]
      BY <1>2, <3>1
    <3>3. QED
      BY <2>1, <3>1, <3>2 DEF StackOK
  <2>4. QED
    BY <2>2, <2>3
<1>5. t[1] = s[1] /\ Len(t) \in Nat \ {0}
  BY <1>1, <1>2
<1>6. StackOK(t, r)
  BY <1>2, <1>3, <1>4, <1>5 DEF StackOK
<1>7. t[Len(t)] = h
  BY <1>2
<1>8. QED
  BY <1>6, <1>7 DEF t

LEMMA DropIs ==
  ASSUME NEW r, StackOK(held, r), Len(held) > 1,
         NEW s, s = SubSeq(held, 1, Len(held) - 1)
  PROVE  StackOK(s, r) /\ TakenFrom(s[Len(s)], Top) /\ HandleOK(s[Len(s)])
<1>1. held \in Seq(Handles) /\ Len(held) \in Nat \ {0}
  BY DEF StackOK
<1>2. PICK m \in Nat \ {0} : m = Len(held) - 1
  BY <1>1
<1>3. /\ s \in Seq(Handles) /\ Len(s) = m
      /\ \A k \in 1..m : s[k] = held[k]
  BY <1>1, <1>2
<1>4. ASSUME NEW k \in 1..m
      PROVE  HandleOK(s[k]) /\ TakenFrom(s[k], held[k+1])
  <2>1. k \in 1..Len(held) /\ k \in 1..Len(held)-1
    BY <1>1, <1>2
  <2>2. HandleOK(held[k]) /\ TakenFrom(held[k], held[k+1])
    BY <2>1 DEF StackOK
  <2>3. QED
    BY <1>3, <2>2
<1>5. ASSUME NEW k \in 1..m-1
      PROVE  TakenFrom(s[k], s[k+1])
  <2>1. k \in 1..m /\ k + 1 \in 1..m
    BY <1>2
  <2>2. QED
    BY <1>3, <1>4, <2>1
<1>6. s[1] = held[1] /\ m \in 1..m
  BY <1>2, <1>3
<1>7. StackOK(s, r)
  BY <1>2, <1>3, <1>4, <1>5, <1>6 DEF StackOK
<1>8. held[m+1] = Top
  BY <1>1, <1>2 DEF Top
<1>9. QED
  BY <1>3, <1>4, <1>6, <1>7, <1>8
-----------------------------------------------------------------------------
(* The calls of the user *)

LEMMA TurnIs ==
  ASSUME OnDemandInv, UserMay, StopsAtErrors
  PROVE  /\ doc \in Docs /\ Len(doc) \in Nat \ {0} /\ call = Idle
         /\ StackOK(held, root) /\ HandleOK(Top) /\ Point(Top)
         /\ IteratorOK(iter) /\ Sound(iter) /\ iter.alive /\ iter.error = "SUCCESS"
         /\ Rests(iter, Top, answer.asked[1] = "count")
<1>1. doc \in Docs /\ StackOK(held, root) /\ IteratorOK(iter) /\ call = Idle
      /\ iter.error = "SUCCESS" /\ Rests(iter, Top, answer.asked[1] = "count")
  BY DEF OnDemandInv, UserMay
<1>2. HandleOK(Top)
  BY <1>1, TopIs
<1>3. Point(Top)
  BY <1>2, HandleIs DEF Point
<1>4. Len(doc) \in Nat \ {0}
  BY <1>1, OnDemandAssumption
<1>5. Sound(iter) /\ iter.alive
  BY <1>1 DEF IteratorOK
<1>6. QED
  BY <1>1, <1>2, <1>3, <1>4, <1>5

LEMMA RestsStill ==
  ASSUME NEW it, NEW n, NEW top, NEW a \in BOOLEAN, NEW b \in BOOLEAN,
         Rests(it, top, a), InPlace(n, it), Unfailed(n, it), it.alive \/ ~a
  PROVE  Rests(n, top, b)
BY DEF Rests, InPlace, Unfailed

LEMMA RestsInside ==
  ASSUME NEW it, NEW n, NEW top, NEW b \in BOOLEAN, HandleOK(top), IsContainer(top),
         Begun(n, it, top), it.alive, top.mode = "fresh"
  PROVE  Rests(n, top, b) /\ IteratorOK(n)
<1>1. /\ top.depth \in Nat \ {0} /\ top.start \in Nat \ {0}
      /\ Fields(top) => ~IsArray(top)
  BY HandleIs DEF HandleOK, IsArray
<1>2. n.alive /\ Sound(n)
  BY DEF Begun, Unfailed
<1>3. CASE n.position = top.start + 1 /\ n.depth = Level(top)
  BY <1>1, <1>2, <1>3 DEF Rests, IteratorOK, Level, Resumable, Unopened, IsContainer
<1>4. CASE n.position = top.start + 2 /\ n.depth = top.depth - 1
  BY <1>1, <1>2, <1>4 DEF Rests, IteratorOK, Level, Resumable, Unopened, IsContainer
<1>5. QED
  BY <1>3, <1>4 DEF Begun

(* The handle on top when the user has made something of it. *)
LEMMA SpentIs ==
  ASSUME NEW h, HandleOK(h), Unopened(h), NEW g, g = [h EXCEPT !.mode = "spent"]
  PROVE  HandleOK(g) /\ ~Resumable(g) /\ ~Fields(g) /\ ~IsContainer(g) /\ ~Unopened(g)
         /\ g.mode = "spent" /\ g.kind = h.kind /\ g.depth = h.depth /\ g.start = h.start
<1>1. "spent" \in Modes /\ h \in Handles
  BY HandleIs DEF Modes
<1>2. g \in Handles /\ g.mode = "spent" /\ g.kind = h.kind /\ g.depth = h.depth
        /\ g.start = h.start
  BY <1>1 DEF Handles
<1>3. QED
  BY <1>2 DEF HandleOK, Unopened, Resumable, Fields, IsContainer

(* A handle goes out of scope.                                              *)
LEMMA DropKeeps ==
  ASSUME OnDemandInv, StopsAtErrors, Drop
  PROVE  OnDemandInv'
<1>1. /\ call = Idle /\ Len(held) > 1
      /\ iter.error = "SUCCESS" \/ answer.asked[1] # "count"
      /\ Return(<<"drop">>, Yield(iter, "yes"), SubSeq(held, 1, Len(held) - 1), 0)
  BY DEF Drop, Fresh
<1>2. /\ doc \in Docs /\ StackOK(held, root) /\ IteratorOK(iter)
      /\ Rests(iter, Top, answer.asked[1] = "count")
  BY <1>1 DEF OnDemandInv
<1> DEFINE s == SubSeq(held, 1, Len(held) - 1)
           g == s[Len(s)]
           n == Yield(iter, "yes")
<1>3. StackOK(s, root) /\ TakenFrom(g, Top) /\ HandleOK(g)
  BY <1>1, <1>2, DropIs
<1>4. Sound(n) /\ InPlace(n, iter) /\ Unfailed(n, iter)
  BY <1>2, OutsAre, YieldIs DEF IteratorOK
<1> HIDE DEF s, g, n
<1>5. HandleOK(Top)
  BY <1>2, TopIs
<1>6. /\ g.depth \in Nat /\ g.start \in Nat /\ Top.depth \in Nat /\ Top.start \in Nat
      /\ iter.position \in Nat /\ iter.depth \in Nat
  BY <1>2, <1>3, <1>5, HandleIs, IteratorIs DEF IteratorOK
<1>7. iter.position >= Top.start /\ (iter.error = "SUCCESS" => iter.depth >= Top.depth - 1)
      /\ (iter.alive \/ iter.depth = 0)
  BY <1>1, <1>2 DEF Rests, IteratorOK
<1>8. Rests(iter, g, FALSE)
  <2>1. iter.position >= g.start /\ (Resumable(g) => iter.position > g.start)
    BY <1>3, <1>6, <1>7 DEF TakenFrom
  <2>2. iter.error = "SUCCESS" =>
          /\ iter.depth >= g.depth - 1
          /\ Resumable(g) => iter.depth >= g.depth
    BY <1>3, <1>6, <1>7 DEF TakenFrom
  <2>3. Fields(g) => iter.position # g.start + 1
    BY <1>3, <1>6, <1>7 DEF TakenFrom
  <2>4. g.mode # "fresh" /\ (g.mode = "looping" => Resumable(g))
    BY <1>3 DEF TakenFrom, HandleOK, Resumable
  <2>5. ~Unopened(g) /\ (iter.error = "SUCCESS" /\ g.mode = "looping" => iter.depth >= g.depth)
    BY <2>2, <2>4 DEF Unopened
  <2>6. QED
    BY <1>7, <2>1, <2>2, <2>3, <2>4, <2>5, Zenon DEF Rests
<1>9. Rests(n, g, <<"drop">>[1] = "count")
  BY <1>4, <1>8, RestsStill
<1>10. IteratorOK(n)
  BY <1>2, <1>4 DEF IteratorOK, Unfailed
<1>11. QED
  BY <1>1, <1>2, <1>3, <1>9, <1>10, ReturnKeeps DEF s, g, n

LEMMA UnreadIs ==
  ASSUME OnDemandInv, UserMay, StopsAtErrors, Unread
  PROVE  /\ Unopened(Top) /\ ~Resumable(Top)
         /\ iter.position = Top.start /\ iter.depth = Top.depth
<1>1. Rests(iter, Top, answer.asked[1] = "count") /\ iter.error = "SUCCESS"
  BY TurnIs
<1>2. Unopened(Top)
  BY DEF Unread, Unopened
<1>3. ~Resumable(Top)
  BY <1>2 DEF Unopened, Resumable, IsContainer
<1>4. QED
  BY <1>1, <1>2, <1>3 DEF Rests

(* The actions of the user, one by one: get_array() and get_object().       *)
LEMMA GetContainerKeeps ==
  ASSUME OnDemandInv, StopsAtErrors, NEW open \in Openers, GetContainer(open)
  PROVE  OnDemandInv'
<1>1. /\ doc \in Docs /\ Len(doc) \in Nat \ {0}
      /\ StackOK(held, root) /\ HandleOK(Top) /\ Point(Top)
      /\ Sound(iter) /\ iter.alive /\ iter.error = "SUCCESS"
      /\ Rests(iter, Top, answer.asked[1] = "count")
  BY TurnIs DEF GetContainer
<1>2. Unopened(Top) /\ ~Resumable(Top) /\ iter.position = Top.start /\ iter.depth = Top.depth
  BY UnreadIs DEF GetContainer
<1> DEFINE kind == IF open = "[" THEN "array" ELSE "object"
           it == StartContainer(iter, Top, open, IsRoot)
           g == [Top EXCEPT !.mode = "spent"]
           c == [kind |-> kind, depth |-> Top.depth, start |-> Top.start, mode |-> "fresh"]
           s == Mark("spent")
           b == <<"get", open>>[1] = "count"
<1>3. Return(<<"get", open>>, it,
             IF it.out \notin {"yes", "no"} THEN held ELSE Append(s, c), Top.start)
  BY DEF GetContainer, Push, Failed
<1>4. Opened(it, iter, Top, open, IsRoot)
  BY <1>1, <1>2, StartContainerIs DEF IsRoot
<1> HIDE DEF it
<1>5. CASE it.out \notin {"yes", "no"}
  <2>1. Return(<<"get", open>>, it, held, Top.start)
    BY <1>3, <1>5
  <2>2. Rests(it, Top, b) /\ IteratorOK(it)
    <3>1. CASE Sound(it) /\ InPlace(it, iter) /\ Unfailed(it, iter)
      BY <1>1, <3>1, RestsStill DEF IteratorOK, Unfailed
    <3>2. CASE /\ Sound(it) /\ it.position = Top.start + 1 /\ it.depth = 0 /\ ~it.alive
               /\ it.error = "INCOMPLETE_ARRAY_OR_OBJECT"
      <4>1. it.error # "SUCCESS" /\ it.position >= Top.start
        BY <1>1, <3>2, PointIs, OutsAre
      <4>2. QED
        BY <1>2, <3>2, <4>1 DEF Rests, IteratorOK
    <3>3. QED
      BY <1>4, <1>5, <3>1, <3>2 DEF Opened, Begun
  <2>3. QED
    BY <1>1, <2>1, <2>2, ReturnKeeps DEF Top
<1>6. CASE it.out \in {"yes", "no"}
  <2>1. Return(<<"get", open>>, it, Append(s, c), Top.start)
    BY <1>3, <1>6
  <2>2. Begun(it, iter, Top) /\ Token(Top.start) = open
    BY <1>4, <1>6, OutsAre DEF Opened
  <2>3. /\ HandleOK(g) /\ ~Resumable(g) /\ ~Fields(g) /\ g.mode = "spent"
        /\ g.depth = Top.depth /\ g.start = Top.start
    BY <1>1, <1>2, SpentIs
  <2>4. StackOK(s, root) /\ s[Len(s)] = g
    BY <1>1, <2>3, MarkIs DEF Modes
  <2>5. HandleOK(c) /\ IsContainer(c) /\ c.mode = "fresh" /\ c.kind # "document"
    BY <1>1, <2>2, HandleIs
       DEF HandleOK, Handles, Kinds, Modes, IsContainer, Fields, Openers
  <2>6. c.depth = Top.depth /\ c.start = Top.start
    OBVIOUS
  <2> HIDE DEF g, c, s
  <2>7. TakenFrom(s[Len(s)], c)
    <3>1. g.depth <= c.depth /\ g.start <= c.start
      BY <1>1, <2>3, <2>6 DEF Point
    <3>2. QED
      BY <2>3, <2>4, <2>5, <3>1 DEF TakenFrom
  <2>8. StackOK(Append(s, c), root) /\ Append(s, c)[Len(Append(s, c))] = c
    BY <2>4, <2>5, <2>7, PushIs
  <2>9. Begun(it, iter, c)
    BY <2>2, <2>6 DEF Begun, Level, IsArray, Partner
  <2>10. Rests(it, c, b) /\ IteratorOK(it)
    BY <1>1, <2>5, <2>9, RestsInside
  <2>11. QED
    BY <1>1, <2>1, <2>8, <2>10, ReturnKeeps
<1>7. QED
  BY <1>5, <1>6

(* document::get_value().                                                   *)
LEMMA GetValueKeeps ==
  ASSUME OnDemandInv, StopsAtErrors, GetValue
  PROVE  OnDemandInv'
<1>1. /\ doc \in Docs /\ Len(doc) \in Nat \ {0}
      /\ StackOK(held, root) /\ HandleOK(Top) /\ Point(Top)
      /\ Sound(iter) /\ iter.alive /\ iter.error = "SUCCESS"
      /\ Rests(iter, Top, answer.asked[1] = "count")
  BY TurnIs DEF GetValue
<1>2. Unopened(Top) /\ ~Resumable(Top) /\ iter.position = Top.start /\ iter.depth = Top.depth
  BY UnreadIs DEF GetValue
<1>3. Top.depth = 1
  BY <1>1, TopIs DEF GetValue, IsRoot
<1> DEFINE g == [Top EXCEPT !.mode = "spent"]
           c == [kind |-> "value", depth |-> Top.depth, start |-> Top.start, mode |-> "fresh"]
           s == Mark("spent")
           b == <<"get", "value">>[1] = "count"
           y == Yield(iter, "yes")
           e == Yield(iter, "SCALAR_DOCUMENT_AS_VALUE")
<1>4. Assume(iter, iter.depth = 1) = iter
  BY <1>2, <1>3 DEF Assume
<1>5. IF Peek(iter) \in Openers THEN Return(<<"get", "value">>, y, Append(s, c), Top.start)
                                ELSE Return(<<"get", "value">>, e, held, Top.start)
  BY <1>4 DEF GetValue, Push, Fresh
<1>6. CASE Peek(iter) \notin Openers
  <2>1. "SCALAR_DOCUMENT_AS_VALUE" \in Outs
    BY DEF Outs
  <2>2. Sound(e) /\ InPlace(e, iter) /\ Unfailed(e, iter)
    BY <1>1, <2>1, YieldIs
  <2> HIDE DEF e
  <2>3. Rests(e, Top, b) /\ IteratorOK(e)
    BY <1>1, <2>2, RestsStill DEF IteratorOK, Unfailed
  <2>4. QED
    BY <1>1, <1>5, <1>6, <2>3, ReturnKeeps DEF Top
<1>7. CASE Peek(iter) \in Openers
  <2>1. "yes" \in Outs
    BY OutsAre
  <2>2. Sound(y) /\ InPlace(y, iter) /\ Unfailed(y, iter)
    BY <1>1, <2>1, YieldIs
  <2> HIDE DEF y
  <2>3. /\ HandleOK(g) /\ ~Resumable(g) /\ ~Fields(g) /\ g.mode = "spent"
        /\ g.depth = Top.depth /\ g.start = Top.start
    BY <1>1, <1>2, SpentIs
  <2>4. StackOK(s, root) /\ s[Len(s)] = g
    BY <1>1, <2>3, MarkIs DEF Modes
  <2>5. HandleOK(c) /\ ~Resumable(c) /\ ~Fields(c) /\ ~IsContainer(c)
        /\ c.mode = "fresh" /\ c.kind = "value"
    BY <1>1, HandleIs DEF HandleOK, Handles, Kinds, Modes, IsContainer, Fields, Resumable
  <2>6. c.depth = Top.depth /\ c.start = Top.start
    OBVIOUS
  <2> HIDE DEF g, c, s
  <2>7. TakenFrom(s[Len(s)], c)
    <3>1. g.depth <= c.depth /\ g.start <= c.start
      BY <1>1, <2>3, <2>6 DEF Point
    <3>2. QED
      BY <2>3, <2>4, <2>5, <3>1 DEF TakenFrom
  <2>8. StackOK(Append(s, c), root) /\ Append(s, c)[Len(Append(s, c))] = c
    BY <2>4, <2>5, <2>7, PushIs
  <2>9. y.position = c.start /\ y.depth = c.depth /\ y.alive /\ y.error = "SUCCESS"
    BY <1>1, <1>2, <2>2, <2>6 DEF InPlace, Unfailed
  <2>10. Rests(y, c, b)
    <3>1. y.position >= c.start /\ y.depth >= c.depth - 1
      BY <1>1, <2>6, <2>9 DEF Point
    <3>2. QED
      BY <2>5, <2>9, <3>1 DEF Rests
  <2>11. IteratorOK(y)
    BY <2>2, <2>9 DEF IteratorOK
  <2>12. QED
    BY <1>1, <1>5, <1>7, <2>8, <2>10, <2>11, ReturnKeeps
<1>8. QED
  BY <1>6, <1>7

(* Where a getter of scalars leaves the iterator: it takes the token, or    *)
(* stays.                                                                   *)
LEMMA GetScalarIs ==
  ASSUME Len(doc) \in Nat \ {0}, NEW it, Sound(it), it.alive, NEW h, Point(h),
         it.position = h.start, it.depth = h.depth,
         NEW isRoot \in BOOLEAN, isRoot <=> h.depth = 1, NEW getter,
         NEW n, n = GetScalar(it, h, getter, isRoot)
  PROVE  /\ Sound(n) /\ Unfailed(n, it)
         /\ \/ InPlace(n, it) /\ n.faults = it.faults
            \/ /\ n.out = "yes" /\ n.position = it.position + 1 /\ n.depth = h.depth - 1
               /\ isRoot /\ ~streaming => Len(doc) = 1
               /\ Token(h.start) \in Strings \cup Numbers
               /\ Clean(it) /\ h.start < EndPosition + 3 => Clean(n)
<1> DEFINE up == AscendTo(Advance(it), h.depth - 1)
<1>1. PICK d \in Nat : d = h.depth - 1 /\ it.depth = d + 1
  BY PointIs
<1>2. Assume(it, it.depth = h.depth /\ (isRoot <=> h.depth = 1)) = it
  BY DEF Assume
<1>3. UseParser(it) = it
  BY UseParserIs
<1>4. n = IF Token(h.start) \notin Accepts(getter) THEN Yield(it, "INCORRECT_TYPE")
          ELSE IF isRoot /\ ~streaming /\ Len(doc) # 1 THEN Yield(it, "TRAILING_CONTENT")
          ELSE IF isRoot \/ getter # "get_number" THEN Yield(up, "yes") ELSE Yield(it, "yes")
  BY <1>2, <1>3 DEF GetScalar, AtStart
<1>5. CASE \/ n = Yield(it, "INCORRECT_TYPE") \/ n = Yield(it, "TRAILING_CONTENT")
           \/ n = Yield(it, "yes")
  <2>1. PICK o \in Outs : n = Yield(it, o)
    BY <1>5 DEF Outs
  <2>2. QED
    BY <2>1, YieldIs
<1>6. CASE /\ Token(h.start) \in Accepts(getter) /\ ~(isRoot /\ ~streaming /\ Len(doc) # 1)
           /\ n = Yield(up, "yes")
  <2> DEFINE a == Advance(it)
  <2>1. /\ Sound(a) /\ a.position = it.position + 1 /\ a.depth = it.depth
        /\ Unfailed(a, it)
        /\ it.position < EndPosition + 3 /\ Clean(it) => Clean(a)
    BY AdvanceIs
  <2> HIDE DEF a
  <2>2. a.depth = d + 1
    BY <1>1, <2>1
  <2>3. up = AscendTo(a, d)
    BY <1>1 DEF a
  <2> HIDE DEF up
  <2>4. /\ Sound(up) /\ up.position = a.position /\ up.depth = d
        /\ Unfailed(up, a) /\ up.faults = a.faults
    BY <2>1, <2>2, <2>3, AscendToIs
  <2>5. "yes" \in Outs
    BY OutsAre
  <2>6. /\ Sound(n) /\ InPlace(n, up) /\ Unfailed(n, up) /\ n.out = "yes" /\ n.faults = up.faults
    BY <1>6, <2>4, <2>5, YieldIs
  <2>7. Sound(n) /\ Unfailed(n, it) /\ n.out = "yes" /\ n.position = it.position + 1
        /\ n.depth = h.depth - 1
    BY <1>1, <2>1, <2>4, <2>6 DEF InPlace, Unfailed
  <2>8. Clean(it) /\ h.start < EndPosition + 3 => Clean(n)
    BY <2>1, <2>4, <2>6 DEF Clean
  <2>9. Token(h.start) \in Strings \cup Numbers
    BY <1>6 DEF Accepts
  <2>10. QED
    BY <1>6, <2>7, <2>8, <2>9
<1>7. QED
  BY <1>4, <1>5, <1>6

(* The getters of scalars.                                                  *)
LEMMA ScalarKeeps ==
  ASSUME OnDemandInv, StopsAtErrors, NEW getter, Scalar(getter)
  PROVE  OnDemandInv'
<1>1. /\ doc \in Docs /\ Len(doc) \in Nat \ {0}
      /\ StackOK(held, root) /\ HandleOK(Top) /\ Point(Top)
      /\ Sound(iter) /\ iter.alive /\ iter.error = "SUCCESS"
      /\ Rests(iter, Top, answer.asked[1] = "count")
  BY TurnIs DEF Scalar
<1>2. Unopened(Top) /\ ~Resumable(Top) /\ iter.position = Top.start /\ iter.depth = Top.depth
  BY UnreadIs DEF Scalar
<1>3. IsRoot <=> Top.depth = 1
  <2>1. IsRoot => Top.depth = 1
    BY <1>1, TopIs DEF IsRoot
  <2>2. IsRoot \/ Top.depth # 1
    BY <1>1 DEF Scalar, Point
  <2>3. QED
    BY <2>1, <2>2
<1> DEFINE n == GetScalar(iter, Top, getter, IsRoot)
           g == [Top EXCEPT !.mode = "spent"]
           s == Mark("spent")
           b == <<"scalar", getter>>[1] = "count"
<1>4. Return(<<"scalar", getter>>, n,
             IF n.out \notin {"yes", "no"} THEN held ELSE s, Top.start)
  BY DEF Scalar, Failed
<1>5. /\ Sound(n) /\ Unfailed(n, iter)
      /\ \/ InPlace(n, iter)
         \/ n.out = "yes" /\ n.position = iter.position + 1 /\ n.depth = Top.depth - 1
  <2>1. IsRoot \in BOOLEAN
    BY DEF IsRoot
  <2>2. QED
    BY <1>1, <1>2, <1>3, <2>1, GetScalarIs
<1> HIDE DEF n
<1>6. IteratorOK(n) /\ n.alive
  BY <1>1, <1>5 DEF IteratorOK, Unfailed
<1>7. CASE n.out \notin {"yes", "no"}
  <2>1. Rests(n, Top, b)
    BY <1>1, <1>5, <1>7, RestsStill
  <2>2. QED
    BY <1>1, <1>4, <1>6, <1>7, <2>1, ReturnKeeps DEF Top
<1>8. CASE n.out \in {"yes", "no"}
  <2>1. /\ HandleOK(g) /\ ~Resumable(g) /\ ~Fields(g) /\ ~IsContainer(g) /\ ~Unopened(g)
        /\ g.mode = "spent" /\ g.depth = Top.depth /\ g.start = Top.start
    BY <1>1, <1>2, SpentIs
  <2>2. StackOK(s, root) /\ s[Len(s)] = g
    BY <1>1, <2>1, MarkIs DEF Modes
  <2> HIDE DEF g, s
  <2>3. n.position >= g.start /\ n.depth >= g.depth - 1
    <3>1. CASE InPlace(n, iter)
      BY <1>1, <1>2, <2>1, <3>1 DEF InPlace, Point
    <3>2. CASE n.position = iter.position + 1 /\ n.depth = Top.depth - 1
      BY <1>1, <1>2, <2>1, <3>2 DEF Point
    <3>3. QED
      BY <1>5, <3>1, <3>2
  <2>4. Rests(n, g, b)
    BY <1>6, <2>1, <2>3 DEF Rests
  <2>5. QED
    BY <1>1, <1>4, <1>6, <1>8, <2>2, <2>4, ReturnKeeps
<1>9. QED
  BY <1>7, <1>8

(* reset() of arrays and objects.                                           *)
LEMMA ResetContainerKeeps ==
  ASSUME OnDemandInv, StopsAtErrors, ResetContainer
  PROVE  OnDemandInv'
<1>1. /\ doc \in Docs /\ Len(doc) \in Nat \ {0}
      /\ StackOK(held, root) /\ HandleOK(Top) /\ Point(Top)
      /\ Sound(iter) /\ iter.alive /\ iter.error = "SUCCESS"
  BY TurnIs DEF ResetContainer
<1> DEFINE n == Reset(iter, Top)
           g == [Top EXCEPT !.mode = "fresh"]
           s == Mark("fresh")
           b == <<"reset">>[1] = "count"
<1>2. Return(<<"reset">>, n, s, Top.start)
  BY DEF ResetContainer
<1>3. Begun(n, iter, Top)
  BY <1>1, ResetIs
<1> HIDE DEF n
<1>4. /\ g \in Handles /\ g.mode = "fresh" /\ g.kind = Top.kind /\ g.depth = Top.depth
      /\ g.start = Top.start
  BY <1>1, HandleIs DEF Handles, Modes
<1>5. IsContainer(Top)
  BY DEF ResetContainer, IsContainer
<1> HIDE DEF g
<1>6. HandleOK(g) /\ IsContainer(g)
  BY <1>1, <1>4, <1>5 DEF HandleOK, IsContainer, Fields
<1>7. StackOK(s, root) /\ s[Len(s)] = g
  BY <1>1, <1>6, MarkIs DEF Modes, g
<1>8. Begun(n, iter, g)
  BY <1>3, <1>4 DEF Begun, Level, IsArray, Partner
<1> HIDE DEF s
<1>9. Rests(n, g, b) /\ IteratorOK(n)
  BY <1>1, <1>4, <1>6, <1>8, RestsInside
<1>10. QED
  BY <1>1, <1>2, <1>7, <1>9, ReturnKeeps

LEMMA DocumentIs ==
  ASSUME NEW r \in Nat \ {0}
  PROVE  LET h == Document(r)
             s == <<h>>
         IN  /\ StackOK(s, r) /\ s[Len(s)] = h /\ HandleOK(h)
             /\ h.depth = 1 /\ h.start = r /\ h.kind = "document" /\ h.mode = "fresh"
             /\ ~Resumable(h) /\ ~Fields(h) /\ ~IsContainer(h)
<1> DEFINE h == Document(r)
           s == <<h>>
<1>1. /\ h \in Handles
      /\ h.depth = 1 /\ h.start = r /\ h.kind = "document" /\ h.mode = "fresh"
  BY DEF Document, Handles, Kinds, Modes
<1> HIDE DEF h
<1>2. ~Resumable(h) /\ ~Fields(h) /\ ~IsContainer(h)
  BY <1>1 DEF Resumable, Fields, IsContainer
<1>3. HandleOK(h)
  BY <1>1, <1>2 DEF HandleOK
<1>4. s \in Seq(Handles) /\ Len(s) = 1 /\ s[1] = h
  BY <1>1
<1> HIDE DEF s
<1>5. StackOK(s, r) /\ s[Len(s)] = h
  BY <1>1, <1>3, <1>4 DEF StackOK
<1>6. QED
  BY <1>1, <1>2, <1>3, <1>5 DEF h, s

LEMMA RestartedIs ==
  ASSUME NEW it, Sound(it), it.alive, root \in Nat \ {0}, NEW n, n = Restarted(it)
  PROVE  /\ Sound(n) /\ n.position = root /\ n.depth = 1 /\ Unfailed(n, it)
         /\ n.out = "yes" /\ n.faults = it.faults
<1> DEFINE y == Yield(it, "yes")
<1>1. "yes" \in Outs
  BY OutsAre
<1>2. Sound(y) /\ Unfailed(y, it) /\ y.out = "yes" /\ y.faults = it.faults
  BY <1>1, YieldIs
<1>3. y.alive
  BY <1>2 DEF Unfailed
<1>4. n = MoveTo(UseParser(y), root, 1)
  BY DEF Restarted, Fresh
<1> HIDE DEF y
<1>5. n = MoveTo(y, root, 1)
  BY <1>3, <1>4, UseParserIs, <1>2
<1>6. /\ Sound(n) /\ n.position = root /\ n.depth = 1
      /\ Unfailed(n, y) /\ n.out = y.out /\ n.faults = y.faults
  BY <1>2, <1>5, MoveToIs
<1>7. QED
  BY <1>2, <1>6 DEF Unfailed

LEMMA RestsAtDocument ==
  ASSUME NEW r \in Nat \ {0}, NEW it, it.position = r, it.depth = 1, it.alive,
         NEW b \in BOOLEAN
  PROVE  Rests(it, Document(r), b)
<1> DEFINE h == Document(r)
<1>1. /\ h.depth = 1 /\ h.start = r /\ h.mode = "fresh"
      /\ ~Resumable(h) /\ ~Fields(h) /\ ~IsContainer(h)
  BY DocumentIs
<1> HIDE DEF h
<1>2. Rests(it, h, b)
  BY <1>1 DEF Rests
<1>3. QED
  BY <1>2 DEF h

LEMMA RootIs ==
  ASSUME StackOK(held, root)
  PROVE  root \in Nat \ {0}
<1>1. 1 \in 1..Len(held)
  BY DEF StackOK
<1>2. HandleOK(held[1]) /\ held[1].start = root
  BY <1>1 DEF StackOK
<1>3. QED
  BY <1>2, HandleIs

(* document::rewind().                                                      *)
LEMMA RewindKeeps ==
  ASSUME OnDemandInv, StopsAtErrors, Rewind
  PROVE  OnDemandInv'
<1>1. /\ doc \in Docs /\ StackOK(held, root) /\ root \in Nat \ {0}
      /\ Sound(iter) /\ iter.alive /\ iter.error = "SUCCESS"
  BY TurnIs, RootIs DEF Rewind
<1> DEFINE n == Restarted(iter)
           s == <<Document(root)>>
<1>2. Return(<<"rewind">>, n, s, root)
  BY DEF Rewind
<1>3. Sound(n) /\ n.position = root /\ n.depth = 1 /\ Unfailed(n, iter)
  BY <1>1, RestartedIs
<1> HIDE DEF n
<1>4. n.alive
  BY <1>1, <1>3 DEF Unfailed
<1>5. StackOK(s, root) /\ s[Len(s)] = Document(root)
  BY <1>1, DocumentIs
<1> HIDE DEF s
<1>6. Rests(n, s[Len(s)], <<"rewind">>[1] = "count")
  BY <1>1, <1>3, <1>4, <1>5, RestsAtDocument
<1>7. QED
  BY <1>1, <1>2, <1>3, <1>4, <1>5, <1>6, ReturnKeeps DEF IteratorOK

(* The next document of a batch.                                            *)
LEMMA NextDocumentKeeps ==
  ASSUME OnDemandInv, StopsAtErrors, NextDocument
  PROVE  OnDemandInv'
<1>1. /\ doc \in Docs /\ Len(doc) \in Nat \ {0} /\ StackOK(held, root) /\ call = Idle
      /\ Sound(iter) /\ iter.alive /\ iter.error = "SUCCESS"
  BY TurnIs DEF NextDocument
<1> DEFINE it == SkipTo(iter, 0)
           n  == IF it.out \notin {"yes", "no"} THEN it ELSE MoveTo(it, it.position, 1)
           r  == IF it.out \notin {"yes", "no"} THEN EndPosition ELSE it.position
           s  == <<Document(r)>>
<1>2. /\ doc' = doc /\ padding' = padding /\ call' = Idle
      /\ iter' = n /\ root' = r /\ held' = s /\ answer'.asked = <<"next">>
  BY <1>1 DEF NextDocument, Failed, input
<1>3. Skipped(it, iter, 0)
  <2>1. /\ iter.depth <= 0 => /\ Sound(it) /\ InPlace(it, iter) /\ Unfailed(it, iter)
                              /\ it.out = "yes"
        /\ iter.depth > 0 => Skipped(it, iter, 0)
    BY <1>1, SkipToIs
  <2>2. iter.depth \in Nat /\ iter.position \in Nat
    BY <1>1, IteratorIs
  <2> HIDE DEF it
  <2>3. CASE iter.depth <= 0
    BY <2>1, <2>2, <2>3 DEF Skipped, InPlace, Unfailed
  <2>4. QED
    BY <2>1, <2>2, <2>3
<1> HIDE DEF it
<1>4. Sound(it) /\ it.alive /\ it.position \in Nat \ {0}
  <2>1. Sound(it) /\ it.alive
    BY <1>1, <1>3 DEF Skipped
  <2>2. QED
    BY <2>1, IteratorIs
<1>5. EndPosition \in Nat \ {0}
  BY <1>1 DEF EndPosition
<1>6. r \in Nat \ {0}
  BY <1>4, <1>5
<1>7. StackOK(s, r) /\ s[Len(s)] = Document(r)
  BY <1>6, DocumentIs
<1>8. IteratorOK(n) /\ Rests(n, Document(r), <<"next">>[1] = "count")
  <2>1. CASE it.out \notin {"yes", "no"}
    <3>1. n = it /\ r = EndPosition
      BY <2>1
    <3>2. it.error = "TAPE_ERROR" /\ it.error # "SUCCESS" /\ it.position >= EndPosition
      BY <1>3, <2>1 DEF Skipped
    <3> DEFINE h == Document(r)
    <3>3. h.start = r /\ ~Resumable(h)
      BY <1>6, DocumentIs
    <3> HIDE DEF n, r, h
    <3>4. Rests(n, h, <<"next">>[1] = "count")
      BY <1>4, <3>1, <3>2, <3>3 DEF Rests
    <3>5. QED
      BY <1>4, <3>1, <3>4 DEF IteratorOK, h
  <2>2. CASE it.out \in {"yes", "no"}
    <3>0. PICK p \in Nat \ {0} : p = it.position
      BY <1>4
    <3>1. n = MoveTo(it, p, 1) /\ r = it.position
      BY <2>2, <3>0
    <3>2. Sound(n) /\ n.position = it.position /\ n.depth = 1 /\ Unfailed(n, it)
      <4>1. 1 \in Nat /\ Sound(it)
        BY <1>4
      <4>2. Sound(n) /\ n.position = p /\ n.depth = 1 /\ Unfailed(n, it)
        BY <3>1, <4>1, MoveToIs
      <4>3. QED
        BY <3>0, <4>2
    <3> HIDE DEF n, r
    <3>3. n.alive /\ n.position = r
      BY <1>4, <3>1, <3>2 DEF Unfailed
    <3>4. QED
      BY <1>6, <3>2, <3>3, RestsAtDocument DEF IteratorOK
  <2>3. QED
    BY <2>1, <2>2
<1> HIDE DEF n, r, s
<1>9. QED
  BY <1>1, <1>2, <1>7, <1>8, TurnKeeps

LEMMA SkipToEnds ==
  ASSUME Len(doc) \in Nat \ {0}, NEW it, Sound(it), it.alive,
         NEW depth \in Nat, NEW n, n = SkipTo(it, depth)
  PROVE  /\ it.depth <= depth => /\ Sound(n) /\ InPlace(n, it) /\ Unfailed(n, it)
                                 /\ n.out = "yes"
         /\ it.depth > depth => Skipped(n, it, depth) /\ n.position > it.position
BY SkipToIs

(* raw_json() leaves the container, or gives up.                            *)
LEMMA ConsumeIs ==
  ASSUME Len(doc) \in Nat \ {0}, NEW it, Sound(it), it.alive, it.error = "SUCCESS",
         NEW h, Point(h), h.kind = "object" => it.position > h.start,
         it.depth >= h.depth - 1,
         NEW n, n = Consume(it, h)
  PROVE  /\ Sound(n) /\ n.position >= it.position
         /\ IF n.error = "SUCCESS"
            THEN /\ n.alive /\ n.depth = h.depth - 1
                 /\ it.depth >= h.depth => n.position > it.position
            ELSE n.depth = 0
<1>1. /\ it.position \in Nat /\ it.depth \in Nat /\ h.depth \in Nat /\ h.depth > 0
      /\ h.start \in Nat
  BY IteratorIs, PointIs
<1>2. PICK d \in Nat : d = h.depth - 1
  BY PointIs
<1> DEFINE atKey == h.kind = "object" /\ it.depth = h.depth /\ Peek(it) \in Strings
           key == FieldKey(it, h)
           eat == IF atKey THEN FieldValue(key, h) ELSE Yield(it, "yes")
           end == IF eat.out \notin {"yes", "no"} THEN eat ELSE SkipTo(eat, d)
<1>3. n = IF end.out \notin {"yes", "no"} THEN Abandon(end) ELSE end
  BY <1>2 DEF Consume, Failed, Fresh
<1>4. /\ Sound(eat) /\ eat.alive /\ eat.position >= it.position
      /\ \/ eat.out = "yes" /\ eat.error = "SUCCESS" /\ eat.depth \in {it.depth, h.depth + 1}
         \/ eat.out = "TAPE_ERROR" /\ eat.error = "TAPE_ERROR"
  <2>1. CASE atKey
    <3>0. it.position > h.start /\ it.depth = h.depth
      BY <2>1
    <3>1. /\ Sound(key) /\ key.position = it.position + 1 /\ key.depth = h.depth
          /\ key.alive = it.alive
          /\ IF Token(it.position) \in Strings
             THEN key.out = "yes" /\ key.error = it.error
             ELSE key.out = "TAPE_ERROR" /\ key.error = "TAPE_ERROR"
      BY <3>0, FieldKeyIs
    <3>2. eat = FieldValue(key, h)
      BY <2>1
    <3> HIDE DEF key, eat
    <3>3. key.position > h.start /\ key.error = "SUCCESS"
      BY <1>1, <2>1, <3>1 DEF Peek
    <3>7. Sound(key) /\ key.depth = h.depth /\ key.position > h.start
      BY <3>1, <3>3
    <3>4. /\ Sound(eat) /\ eat.position = key.position + 1
          /\ eat.alive = key.alive
          /\ IF Token(key.position) = ":"
             THEN eat.out = "yes" /\ eat.error = key.error /\ eat.depth = h.depth + 1
             ELSE eat.out = "TAPE_ERROR" /\ eat.error = "TAPE_ERROR" /\ eat.depth = h.depth
      BY <3>2, <3>7, FieldValueIs
    <3>5. eat.position >= it.position
      BY <1>1, <3>1, <3>4
    <3>6. QED
      BY <3>1, <3>3, <3>4, <3>5
  <2>2. CASE ~atKey
    <3>1. eat = Yield(it, "yes") /\ "yes" \in Outs
      BY <2>2, OutsAre
    <3> HIDE DEF eat
    <3>2. Sound(eat) /\ InPlace(eat, it) /\ Unfailed(eat, it) /\ eat.out = "yes"
      BY <3>1, YieldIs
    <3>3. QED
      BY <1>1, <3>2 DEF InPlace, Unfailed
  <2>3. QED
    BY <2>1, <2>2
<1> HIDE DEF eat
<1>5. eat.position \in Nat /\ eat.depth \in Nat
  BY <1>4, IteratorIs
<1>6. CASE eat.out = "TAPE_ERROR" /\ eat.error = "TAPE_ERROR"
  <2>1. end = eat /\ n = Abandon(end)
    BY <1>3, <1>6
  <2>2. n = Abandon(eat)
    BY <2>1
  <2>3. Sound(n) /\ n.position = eat.position /\ n.depth = 0 /\ n.error = eat.error
    BY <1>4, <2>2, AbandonIs
  <2>4. QED
    BY <1>4, <1>6, <2>3
<1>7. CASE /\ eat.out = "yes" /\ eat.error = "SUCCESS" /\ eat.depth \in {it.depth, h.depth + 1}
  <2>1. end = SkipTo(eat, d)
    BY <1>7
  <2>7. Sound(eat) /\ eat.alive
    BY <1>4
  <2>2. /\ eat.depth <= d => /\ Sound(end) /\ InPlace(end, eat) /\ Unfailed(end, eat)
                             /\ end.out = "yes"
        /\ eat.depth > d => Skipped(end, eat, d) /\ end.position > eat.position
    BY <2>1, <2>7, SkipToEnds
  <2> HIDE DEF end
  <2>3. eat.depth >= d /\ (it.depth >= h.depth => eat.depth > d)
    BY <1>1, <1>2, <1>7
  <2>4. CASE eat.depth <= d
    <3>1. Sound(end) /\ InPlace(end, eat) /\ Unfailed(end, eat) /\ end.out = "yes"
      BY <2>2, <2>4
    <3>2. n = end
      BY <1>3, <3>1
    <3>3. ~(it.depth >= h.depth) /\ eat.depth = d
      BY <1>2, <1>5, <2>3, <2>4
    <3>4. QED
      BY <1>2, <1>4, <1>7, <3>1, <3>2, <3>3 DEF InPlace, Unfailed
  <2>5. CASE eat.depth > d
    <3>1. Skipped(end, eat, d) /\ end.position > eat.position
      BY <2>2, <2>5
    <3>2. Sound(end) /\ end.position \in Nat
      BY <3>1, IteratorIs DEF Skipped
    <3>3. end.position > it.position /\ end.position >= it.position
      BY <1>1, <1>4, <1>5, <3>1, <3>2
    <3>4. CASE end.out = "yes"
      <4>1. n = end
        BY <1>3, <3>4
      <4>2. end.error = "SUCCESS" /\ end.depth = d /\ end.alive
        BY <1>4, <1>7, <3>1, <3>4 DEF Skipped
      <4>3. QED
        BY <1>2, <3>2, <3>3, <4>1, <4>2
    <3>5. CASE end.out # "yes"
      <4>1. end.out = "TAPE_ERROR" /\ end.error = "TAPE_ERROR"
        BY <3>1, <3>5 DEF Skipped
      <4>2. n = Abandon(end)
        BY <1>3, <4>1
      <4>3. Sound(n) /\ n.position = end.position /\ n.depth = 0 /\ n.error = end.error
        BY <3>2, <4>2, AbandonIs
      <4>4. QED
        BY <3>3, <4>1, <4>3
    <3>6. QED
      BY <3>4, <3>5
  <2>6. QED
    BY <1>2, <1>5, <2>4, <2>5
<1>8. QED
  BY <1>4, <1>6, <1>7

(* raw_json() of arrays, objects and documents.                             *)
LEMMA RawJsonKeeps ==
  ASSUME OnDemandInv, StopsAtErrors, RawJson
  PROVE  OnDemandInv'
<1>1. /\ doc \in Docs /\ Len(doc) \in Nat \ {0}
      /\ StackOK(held, root) /\ HandleOK(Top) /\ Point(Top)
      /\ Sound(iter) /\ iter.alive /\ iter.error = "SUCCESS"
      /\ Rests(iter, Top, answer.asked[1] = "count")
  BY TurnIs DEF RawJson
<1> DEFINE n == Consume(iter, Top)
           g == [Top EXCEPT !.mode = "used"]
           s == Mark("used")
           b == <<"raw">>[1] = "count"
<1>2. Return(<<"raw">>, n, s, n.position) /\ Top.kind # "value"
  BY DEF RawJson
<1>3. /\ iter.position >= Top.start /\ iter.depth >= Top.depth - 1
      /\ Resumable(Top) => iter.position > Top.start
      /\ Fields(Top) /\ iter.position = Top.start + 1 => iter.depth = Top.depth
  BY <1>1 DEF Rests
<1>4. Top.kind = "object" => Resumable(Top)
  BY DEF Resumable, IsContainer
<1>5. /\ Sound(n) /\ n.position >= iter.position
      /\ IF n.error = "SUCCESS"
         THEN /\ n.alive /\ n.depth = Top.depth - 1
              /\ iter.depth >= Top.depth => n.position > iter.position
         ELSE n.depth = 0
  BY <1>1, <1>3, <1>4, ConsumeIs
<1> HIDE DEF n
<1>6. /\ g \in Handles /\ g.mode = "used" /\ g.kind = Top.kind /\ g.depth = Top.depth
      /\ g.start = Top.start
  BY <1>1, HandleIs DEF Handles, Modes
<1> HIDE DEF g
<1>7. /\ HandleOK(g) /\ ~Unopened(g) /\ (Fields(g) => Fields(Top))
      /\ (Resumable(g) => Resumable(Top))
  BY <1>1, <1>6 DEF HandleOK, Unopened, Fields, Resumable, IsContainer
<1>8. StackOK(s, root) /\ s[Len(s)] = g
  BY <1>1, <1>7, MarkIs DEF Modes, g
<1> HIDE DEF s
<1>9. /\ iter.position \in Nat /\ iter.depth \in Nat /\ n.position \in Nat
      /\ Top.start \in Nat /\ Top.depth \in Nat
  BY <1>1, <1>5, IteratorIs, PointIs
<1>10. n.position >= g.start /\ (Resumable(g) => n.position > g.start)
  BY <1>3, <1>5, <1>6, <1>7, <1>9
<1>11. n.error = "SUCCESS" /\ Fields(g) => n.position # g.start + 1
  <2>1. SUFFICES ASSUME n.error = "SUCCESS", Fields(g), n.position = g.start + 1
                 PROVE  FALSE
    OBVIOUS
  <2>2. Resumable(Top)
    BY <1>7, <2>1 DEF Fields, Resumable, IsContainer
  <2>3. iter.position = Top.start + 1
    BY <1>3, <1>5, <1>6, <1>9, <2>1, <2>2
  <2>4. iter.depth = Top.depth
    BY <1>3, <1>7, <2>1, <2>3
  <2>5. n.position > iter.position
    BY <1>5, <1>9, <2>1, <2>4
  <2>6. QED
    BY <1>6, <1>9, <2>1, <2>3, <2>5
<1>12. n.error = "SUCCESS" => n.depth >= g.depth - 1
  BY <1>5, <1>6, <1>9
<1>13. n.alive \/ n.depth = 0
  BY <1>5
<1>14. Rests(n, g, b)
  BY <1>6, <1>7, <1>10, <1>11, <1>12, <1>13 DEF Rests
<1>15. IteratorOK(n)
  BY <1>5 DEF IteratorOK
<1>16. QED
  BY <1>1, <1>2, <1>8, <1>14, <1>15, ReturnKeeps
-----------------------------------------------------------------------------
(* Loops of the user *)

(* What the handle a loop runs over is afterwards. *)
LEMMA LoopedIs ==
  ASSUME NEW h, HandleOK(h), IsContainer(h), NEW mode \in {"looping", "used"},
         NEW g, g = [h EXCEPT !.mode = mode]
  PROVE  /\ HandleOK(g) /\ IsContainer(g) /\ ~Unopened(g) /\ (Fields(g) <=> Fields(h))
         /\ g.mode = mode /\ g.mode # "fresh" /\ g.kind = h.kind
         /\ g.depth = h.depth /\ g.start = h.start
<1>1. mode \in Modes /\ h \in Handles /\ mode \notin {"fresh", "resumed"}
  BY HandleIs DEF Modes
<1>2. g \in Handles /\ g.mode = mode /\ g.kind = h.kind /\ g.depth = h.depth
        /\ g.start = h.start
  BY <1>1 DEF Handles
<1>3. h.mode # "resumed"
  BY DEF HandleOK
<1> HIDE DEF Handles
<1>4. IsContainer(g) /\ ~Unopened(g) /\ (Fields(g) <=> Fields(h))
  BY <1>1, <1>2, <1>3 DEF IsContainer, Unopened, Fields
<1>5. HandleOK(g)
  BY <1>1, <1>2, <1>4 DEF HandleOK
<1>6. QED
  BY <1>1, <1>2, <1>4, <1>5

(* A round of a range-for loop.                                             *)
LEMMA RoundKeeps ==
  ASSUME doc \in Docs, Len(doc) \in Nat \ {0}, StackOK(held, root), IsContainer(Top),
         NEW it, IteratorOK(it), it.position > Top.start, it.alive \/ it.depth = 0,
         it.error = "SUCCESS" => /\ it.depth \in {Level(Top), Top.depth - 1}
                                 /\ Fields(Top) /\ it.position = Top.start + 1
                                      => it.depth = Top.depth,
         Round(it)
  PROVE  OnDemandInv'
<1>1. HandleOK(Top) /\ Point(Top) /\ Sound(it)
  BY TopIs, HandleIs DEF Point, IteratorOK
<1>2. /\ Top.depth \in Nat /\ Top.start \in Nat /\ it.position \in Nat /\ it.depth \in Nat
      /\ Top.depth > 0 /\ Level(Top) \in Nat /\ Level(Top) >= Top.depth
  BY <1>1, PointIs, IteratorIs DEF Level
<1> DEFINE b == <<"loop">>[1] = "count"
<1>3. CASE ~(it.depth >= Top.depth)
  <2> DEFINE n == Yield(it, "no")
             g == [Top EXCEPT !.mode = "used"]
             s == Mark("used")
  <2>1. Return(<<"loop">>, n, s, 0)
    BY <1>3 DEF Round, IsOpen
  <2>2. "no" \in Outs
    BY OutsAre
  <2>3. Sound(n) /\ InPlace(n, it) /\ Unfailed(n, it)
    BY <1>1, <2>2, YieldIs
  <2> HIDE DEF n
  <2>4. /\ HandleOK(g) /\ IsContainer(g) /\ ~Unopened(g) /\ (Fields(g) <=> Fields(Top))
        /\ g.mode = "used" /\ g.depth = Top.depth /\ g.start = Top.start
    BY <1>1, LoopedIs
  <2>5. StackOK(s, root) /\ s[Len(s)] = g
    BY <2>4, MarkIs DEF Modes
  <2> HIDE DEF g, s
  <2>6. it.error = "SUCCESS" => /\ it.depth >= g.depth - 1
                                /\ ~(Fields(g) /\ it.position = g.start + 1)
    BY <1>2, <1>3, <2>4
  <2>7. Rests(it, g, FALSE)
    <3>1. it.position >= g.start /\ it.position > g.start
      BY <1>2, <2>4
    <3>2. g.mode # "looping" /\ g.mode # "fresh" /\ (it.alive \/ it.depth = 0)
      BY <2>4
    <3>3. QED
      BY <2>4, <2>6, <3>1, <3>2, Zenon DEF Rests
  <2>8. Rests(n, g, b)
    BY <2>3, <2>7, RestsStill
  <2>9. IteratorOK(n)
    BY <2>3 DEF IteratorOK, Unfailed
  <2>10. QED
    BY <2>1, <2>5, <2>8, <2>9, ReturnKeeps
<1>4. CASE it.depth >= Top.depth
  <2> DEFINE n == Dereference(it, Top)
             g == [Top EXCEPT !.mode = "looping"]
             s == Mark("looping")
             c == [kind |-> "value", depth |-> Top.depth + 1, start |-> n.position,
                   mode |-> "fresh"]
  <2>1. Return(<<"loop">>, n, IF n.out \notin {"yes", "no"} THEN s ELSE Append(s, c),
               n.position)
    BY <1>4 DEF Round, IsOpen, Failed, Push, Child
  <2>2. it.error = "SUCCESS" => it.depth = Level(Top)
    BY <1>2, <1>4
  <2>3. Given(n, it, Top)
    BY <1>1, <2>2, DereferenceIs
  <2> HIDE DEF n
  <2>4. /\ HandleOK(g) /\ IsContainer(g) /\ ~Unopened(g) /\ (Fields(g) <=> Fields(Top))
        /\ g.mode = "looping" /\ g.depth = Top.depth /\ g.start = Top.start
    BY <1>1, LoopedIs
  <2>5. StackOK(s, root) /\ s[Len(s)] = g
    BY <2>4, MarkIs DEF Modes
  <2> HIDE DEF g, s
  <2>6. Sound(n) /\ n.position >= it.position
    BY <2>3 DEF Given
  <2>7. n.position \in Nat \ {0} /\ n.position > Top.start
    BY <1>2, <2>6, IteratorIs
  <2>8. CASE n.out = "yes"
    <3>1. Return(<<"loop">>, n, Append(s, c), n.position)
      BY <2>1, <2>8
    <3>2. /\ it.error = "SUCCESS" /\ n.error = it.error /\ n.alive = it.alive
          /\ n.depth = Top.depth + 1
          /\ ~IsArray(Top) => n.position = it.position + 2
      BY <2>3, <2>8 DEF Given, Taken
    <3>3. n.alive
      BY <3>2 DEF IteratorOK
    <3>4. /\ c \in Handles /\ c.kind = "value" /\ c.mode = "fresh"
          /\ c.depth = Top.depth + 1 /\ c.start = n.position
      BY <1>2, <2>7 DEF Handles, Kinds, Modes
    <3> HIDE DEF c
    <3>5. HandleOK(c) /\ ~Resumable(c) /\ ~Fields(c) /\ ~IsContainer(c)
      BY <3>4 DEF HandleOK, IsContainer, Fields, Resumable
    <3>6. TakenFrom(g, c)
      <4>1. Fields(Top) => ~IsArray(Top)
        BY <1>1 DEF HandleOK, IsArray
      <4>2. g.depth < c.depth /\ g.start < c.start /\ g.depth <= c.depth /\ g.start <= c.start
        BY <1>2, <2>4, <2>7, <3>4
      <4>3. Fields(g) => g.start + 2 <= c.start
        BY <1>2, <2>4, <3>2, <3>4, <4>1
      <4>4. QED
        BY <2>4, <3>4, <4>2, <4>3 DEF TakenFrom
    <3>7. StackOK(Append(s, c), root) /\ Append(s, c)[Len(Append(s, c))] = c
      BY <2>5, <3>5, <3>6, PushIs
    <3>8. Rests(n, c, b)
      <4>1. n.position >= c.start /\ n.depth >= c.depth - 1
        BY <1>2, <2>7, <3>2, <3>4
      <4>2. n.position = c.start /\ n.depth = c.depth
        BY <3>2, <3>4
      <4>3. QED
        BY <3>3, <3>4, <3>5, <4>1, <4>2 DEF Rests
    <3>9. IteratorOK(n)
      BY <2>6, <3>3 DEF IteratorOK
    <3>10. QED
      BY <3>1, <3>7, <3>8, <3>9, ReturnKeeps
  <2>9. CASE n.out # "yes"
    <3>1. /\ n.out \in Errors /\ n.error # "SUCCESS" /\ n.depth = 0
      BY <2>3, <2>9 DEF Given
    <3>2. Return(<<"loop">>, n, s, n.position)
      BY <2>1, <3>1, OutsAre
    <3>3. n.position >= g.start /\ n.position > g.start
      BY <1>2, <2>4, <2>7
    <3>4. Rests(n, g, b)
      BY <3>1, <3>3 DEF Rests
    <3>5. IteratorOK(n)
      BY <2>6, <3>1 DEF IteratorOK
    <3>6. QED
      BY <2>5, <3>2, <3>4, <3>5, ReturnKeeps
  <2>10. QED
    BY <2>8, <2>9
<1>5. QED
  BY <1>3, <1>4

(* begin() of a range-for loop.                                             *)
LEMMA BeginLoopKeeps ==
  ASSUME OnDemandInv, StopsAtErrors, BeginLoop
  PROVE  OnDemandInv'
<1>1. /\ doc \in Docs /\ Len(doc) \in Nat \ {0} /\ StackOK(held, root) /\ Point(Top)
      /\ IteratorOK(iter) /\ Sound(iter) /\ iter.alive /\ iter.error = "SUCCESS"
      /\ Rests(iter, Top, answer.asked[1] = "count")
  BY TurnIs DEF BeginLoop
<1>2. IsContainer(Top) /\ Resumable(Top) /\ Top.mode = "fresh"
  BY DEF BeginLoop, IsContainer, Resumable
<1>3. /\ iter.position > Top.start /\ iter.depth >= Top.depth - 1
      /\ iter.depth >= Top.depth => iter.depth = Level(Top)
      /\ Fields(Top) /\ iter.position = Top.start + 1 => iter.depth = Top.depth
  BY <1>1, <1>2 DEF Rests
<1>4. iter.depth \in Nat /\ Top.depth \in Nat
  BY <1>1, IteratorIs, PointIs
<1>5. iter.depth \in {Level(Top), Top.depth - 1}
  BY <1>3, <1>4
<1>6. Round(iter)
  BY DEF BeginLoop
<1>7. QED
  BY <1>1, <1>2, <1>3, <1>5, <1>6, RoundKeeps

(* Its further rounds, after an error as well.                              *)
LEMMA NextRoundKeeps ==
  ASSUME OnDemandInv, NextRound
  PROVE  OnDemandInv'
<1>1. /\ doc \in Docs /\ StackOK(held, root) /\ IteratorOK(iter) /\ Sound(iter)
      /\ Rests(iter, Top, answer.asked[1] = "count") /\ Top.mode = "looping"
  BY DEF NextRound, OnDemandInv, IteratorOK
<1>2. Len(doc) \in Nat \ {0} /\ HandleOK(Top) /\ Point(Top)
  BY <1>1, OnDemandAssumption, TopIs, HandleIs DEF Point
<1>3. IsContainer(Top) /\ Resumable(Top)
  BY <1>1, <1>2 DEF HandleOK, Resumable
<1>4. /\ iter.position > Top.start
      /\ iter.error = "SUCCESS" => iter.alive /\ iter.depth >= Top.depth
      /\ iter.alive \/ iter.depth = 0
  BY <1>1, <1>3 DEF Rests, IteratorOK, IsContainer
<1> DEFINE n == Increment(iter, Top)
<1>5. Stepped(n, iter, Top)
  BY <1>1, <1>2, <1>4, IncrementIs
<1>6. Round(n)
  BY DEF NextRound
<1> HIDE DEF n
<1>7. Sound(n) /\ n.alive = iter.alive /\ n.position >= iter.position
  BY <1>5 DEF Stepped
<1>8. n.error = "SUCCESS" => /\ iter.error = "SUCCESS" /\ n.position > iter.position
                             /\ n.depth \in {Level(Top), Top.depth - 1}
  BY <1>5 DEF Stepped
<1>9. n.alive \/ n.depth = 0
  BY <1>1, <1>5, <1>8 DEF Stepped, IteratorOK
<1>10. /\ n.position \in Nat /\ iter.position \in Nat /\ Top.start \in Nat
  BY <1>1, <1>2, <1>7, IteratorIs, PointIs
<1>11. n.position > Top.start /\ (n.error = "SUCCESS" => n.position # Top.start + 1)
  BY <1>4, <1>7, <1>8, <1>10
<1>12. IteratorOK(n)
  BY <1>4, <1>7, <1>8 DEF IteratorOK
<1>13. QED
  BY <1>1, <1>2, <1>3, <1>6, <1>8, <1>9, <1>11, <1>12, RoundKeeps
-----------------------------------------------------------------------------
(* The loops of the library *)

LEMMA CallIs ==
  ASSUME OnDemandInv, call.op # "none"
  PROVE  /\ doc \in Docs /\ Len(doc) \in Nat \ {0} /\ StackOK(held, root)
         /\ HandleOK(Top) /\ Point(call.h) /\ IteratorOK(iter) /\ Sound(iter)
         /\ Runs(call, iter, Top) /\ (iter.error = "SUCCESS" => iter.alive)
<1>1. call # Idle
  BY DEF Idle
<1>2. doc \in Docs /\ StackOK(held, root) /\ IteratorOK(iter) /\ Runs(call, iter, Top)
  BY <1>1 DEF OnDemandInv
<1>3. Len(doc) \in Nat \ {0} /\ HandleOK(Top)
  BY <1>2, OnDemandAssumption, TopIs
<1>4. Point(call.h) /\ Sound(iter) /\ (iter.error = "SUCCESS" => iter.alive)
  BY <1>2 DEF Runs, IteratorOK
<1>5. QED
  BY <1>2, <1>3, <1>4

LEMMA RestsInCall ==
  ASSUME HandleOK(Top), call.op # "count", Runs(call, iter, Top),
         NEW it, Sound(it), it.position >= call.h.start,
         call.op # "descend" => it.position > call.h.start,
         it.alive \/ it.depth = 0,
         it.error = "SUCCESS" => /\ it.depth >= call.h.depth - 1
                                 /\ Fields(Top) /\ it.position = call.h.start + 1
                                      => it.depth = call.h.depth
  PROVE  Rests(it, Top, FALSE)
<1>1. /\ Top.mode # "looping" /\ Top.mode # "fresh" /\ Point(call.h)
      /\ call.h.depth >= Top.depth /\ call.h.start >= Top.start
      /\ Resumable(Top) => /\ call.op # "descend"
                           /\ call.h.depth = Top.depth /\ call.h.start = Top.start
  BY DEF Runs
<1>2. /\ Top.depth \in Nat /\ Top.start \in Nat /\ call.h.depth \in Nat /\ call.h.start \in Nat
      /\ it.position \in Nat /\ it.depth \in Nat
  BY <1>1, HandleIs, PointIs, IteratorIs
<1>3. it.position >= Top.start /\ (Resumable(Top) => it.position > Top.start)
  BY <1>1, <1>2
<1>4. it.error = "SUCCESS" => it.depth >= Top.depth - 1
  BY <1>1, <1>2
<1>5. Fields(Top) => Resumable(Top)
  BY DEF Fields, Resumable, IsContainer
<1>6. it.error = "SUCCESS" /\ Fields(Top) /\ it.position = Top.start + 1
        => it.depth = Top.depth
  BY <1>1, <1>5
<1>7. ~Unopened(Top)
  BY <1>1 DEF Unopened
<1>8. QED
  BY <1>1, <1>3, <1>4, <1>6, <1>7, Zenon DEF Rests

(* A call of the library ends with an error that leaves the iterator as it  *)
(* is.                                                                      *)
LEMMA FailKeeps ==
  ASSUME doc \in Docs, StackOK(held, root), NEW it, IteratorOK(it), NEW e \in Outs,
         Rests(it, Top, FALSE), Fail(it, e)
  PROVE  OnDemandInv'
<1> DEFINE n == Yield(it, e)
           b == call.asked[1] = "count"
<1>1. Return(call.asked, n, held, 0)
  BY DEF Fail
<1>2. Sound(n) /\ InPlace(n, it) /\ Unfailed(n, it)
  BY YieldIs DEF IteratorOK
<1> HIDE DEF n
<1>3. b \in BOOLEAN
  OBVIOUS
<1>4. Rests(n, Top, b)
  BY <1>2, <1>3, RestsStill
<1>5. IteratorOK(n)
  BY <1>2 DEF IteratorOK, Unfailed
<1>6. QED
  BY <1>1, <1>4, <1>5, ReturnKeeps DEF Top

(* It ends with an error that takes the parser away.                        *)
LEMMA GiveUpKeeps ==
  ASSUME doc \in Docs, StackOK(held, root), HandleOK(Top),
         call.op \notin {"count", "descend"}, Runs(call, iter, Top),
         NEW it, Sound(it), it.error # "SUCCESS", it.out \in Outs,
         it.position > call.h.start, GiveUp(it)
  PROVE  OnDemandInv'
<1> DEFINE a == Abandon(it)
<1>1. Fail(a, it.out)
  BY DEF GiveUp
<1>2. /\ Sound(a) /\ a.position = it.position /\ a.depth = 0 /\ a.error = it.error
  BY AbandonIs
<1> HIDE DEF a
<1>3. Point(call.h)
  BY DEF Runs
<1>4. a.position > call.h.start /\ a.position >= call.h.start
  BY <1>2, <1>3, IteratorIs, PointIs
<1>5. IteratorOK(a) /\ a.error # "SUCCESS"
  BY <1>2 DEF IteratorOK
<1>6. Rests(a, Top, FALSE)
  BY <1>2, <1>4, <1>5, RestsInCall
<1>7. QED
  BY <1>1, <1>5, <1>6, FailKeeps

(* The value looked for is found in an object or an array. *)
LEMMA FoundKeeps ==
  ASSUME doc \in Docs, StackOK(held, root), HandleOK(Top),
         call.op \notin {"count", "descend"}, Runs(call, iter, Top),
         NEW it, Sound(it), it.alive, it.error = "SUCCESS",
         it.position > call.h.start, it.depth = call.h.depth + 1,
         ~IsArray(call.h) => it.position >= call.h.start + 2,
         Found(it)
  PROVE  OnDemandInv'
<1> DEFINE child == Child(it, call.h)
           at == Fresh(AssumeAtChild(it, call.h))
           c == [kind |-> "value", depth |-> child.depth, start |-> child.start,
                 mode |-> "fresh"]
           b == call.asked[1] = "count"
           p == [call EXCEPT !.op = "descend", !.h = child, !.isRoot = FALSE]
<1>1. /\ Point(call.h) /\ Top.mode # "fresh" /\ Top.mode # "looping"
      /\ call.h.depth >= Top.depth /\ call.h.start >= Top.start
      /\ Resumable(Top) => /\ call.path = <<>>
                           /\ call.h.depth = Top.depth /\ call.h.start = Top.start
      /\ DOMAIN call = CallFields /\ call.path \in Seq(Steps) /\ call.asked # <<"loop">>
  BY DEF Runs
<1>2. /\ Top.depth \in Nat \ {0} /\ Top.start \in Nat \ {0} /\ call.h.depth \in Nat \ {0}
      /\ call.h.start \in Nat \ {0} /\ it.position \in Nat \ {0} /\ it.depth \in Nat
  BY <1>1, HandleIs, PointIs, IteratorIs
<1>3. IF call.path = <<>>
      THEN Return(call.asked, at, Append(held, c), child.start)
      ELSE Continue(p, at, held)
  BY DEF Found, Push
<1>4. AssumeAtChild(it, call.h) = it
  BY <1>2 DEF AssumeAtChild, Assume
<1>5. Sound(at) /\ InPlace(at, it) /\ Unfailed(at, it)
  BY <1>4, OutsAre, YieldIs DEF Fresh
<1> HIDE DEF at
<1>6. /\ child.depth = call.h.depth + 1 /\ child.start = it.position
      /\ at.position = it.position /\ at.depth = child.depth
      /\ at.alive /\ at.error = "SUCCESS"
  BY <1>5 DEF Child, InPlace, Unfailed
<1>7. /\ child.depth \in Nat \ {0} /\ child.start \in Nat \ {0}
      /\ child.depth > Top.depth /\ child.start > Top.start
      /\ child.depth >= Top.depth /\ child.start >= Top.start
  BY <1>1, <1>2, <1>6
<1> HIDE DEF child
<1>8. IteratorOK(at)
  BY <1>5, <1>6 DEF IteratorOK
<1>9. CASE call.path = <<>>
  <2>1. /\ c \in Handles /\ c.kind = "value" /\ c.mode = "fresh"
        /\ c.depth = child.depth /\ c.start = child.start
    BY <1>7 DEF Handles, Kinds, Modes
  <2> HIDE DEF c
  <2>2. HandleOK(c) /\ ~Resumable(c) /\ ~Fields(c) /\ ~IsContainer(c)
    BY <2>1 DEF HandleOK, IsContainer, Fields, Resumable
  <2>3. ASSUME Fields(Top)
        PROVE  Top.start + 2 <= c.start
    <3>1. Token(Top.start) = "{" /\ Resumable(Top)
      BY <2>3 DEF HandleOK, Fields, Resumable, IsContainer
    <3>2. call.h.start = Top.start /\ ~IsArray(call.h)
      BY <1>1, <3>1 DEF IsArray
    <3>3. QED
      BY <1>2, <1>6, <2>1, <3>2
  <2>4. /\ Top.depth <= c.depth /\ Top.start <= c.start
        /\ Top.depth < c.depth /\ Top.start < c.start
    BY <1>2, <1>7, <2>1
  <2>5. TakenFrom(Top, c)
    BY <1>1, <2>1, <2>3, <2>4 DEF TakenFrom
  <2>6. StackOK(Append(held, c), root) /\ Append(held, c)[Len(Append(held, c))] = c
    BY <2>2, <2>5, PushIs DEF Top
  <2>7. at.position >= c.start /\ at.depth >= c.depth - 1
    BY <1>2, <1>6, <1>7, <2>1
  <2>8. at.position = c.start /\ at.depth = c.depth
    BY <1>6, <2>1
  <2>9. Rests(at, c, b)
    BY <1>6, <2>1, <2>2, <2>7, <2>8 DEF Rests
  <2>10. Return(call.asked, at, Append(held, c), child.start)
    BY <1>3, <1>9
  <2>11. QED
    BY <1>8, <2>6, <2>9, <2>10, ReturnKeeps
<1>10. CASE call.path # <<>>
  <2>1. ~Resumable(Top)
    BY <1>1, <1>10
  <2>2. /\ DOMAIN p = CallFields /\ p.op = "descend" /\ p.h = child /\ p.isRoot = FALSE
        /\ p.path = call.path /\ p.asked = call.asked
    BY <1>1 DEF CallFields
  <2> HIDE DEF p
  <2>3. Point(p.h) /\ p.h.depth >= Top.depth /\ p.h.start >= Top.start
        /\ at.position >= p.h.start
    BY <1>2, <1>6, <1>7, <2>2 DEF Point
  <2>4. Runs(p, at, Top)
    BY <1>1, <1>6, <1>10, <2>1, <2>2, <2>3 DEF Runs
  <2>5. Continue(p, at, held)
    BY <1>3, <1>10
  <2>6. QED
    BY <1>8, <2>4, <2>5, ContinueKeeps DEF Top
<1>11. QED
  BY <1>9, <1>10

(* Where a search for a field begins or goes on. *)
LEMMA SearchKeeps ==
  ASSUME doc \in Docs, Len(doc) \in Nat \ {0}, StackOK(held, root), HandleOK(Top),
         call.op \in {"enter", "field"}, Runs(call, iter, Top),
         NEW h, h = call.h,
         NEW it, Sound(it), it.alive, it.error = "SUCCESS", it.position > h.start,
         it.out = "yes" => it.depth = h.depth,
         it.out # "yes" => it.depth = h.depth - 1 /\ it.position # h.start + 1,
         NEW first, NEW stop, Search(it, h, first, stop)
  PROVE  OnDemandInv'
<1> DEFINE f == [call EXCEPT !.op = "field", !.first = first, !.stop = stop]
           a == [call EXCEPT !.op = "again", !.stop = stop]
           r == Reset(it, h)
<1>1. /\ Point(h) /\ DOMAIN call = CallFields /\ ~IsArray(h) /\ ~IsArray(call.h)
      /\ call.isRoot \in BOOLEAN /\ h.depth >= Top.depth /\ h.start >= Top.start
      /\ Top.mode # "looping" /\ Top.mode # "fresh"
      /\ call.path # <<>> => ~Resumable(Top)
      /\ Resumable(Top) => h.depth = Top.depth /\ h.start = Top.start
      /\ call.path \in Seq(Steps) /\ call.asked # <<"loop">>
  BY DEF Runs
<1>2. /\ h.depth \in Nat \ {0} /\ h.start \in Nat \ {0} /\ it.position \in Nat
      /\ it.depth \in Nat
  BY <1>1, PointIs, IteratorIs
<1>3. it.position >= h.start /\ IteratorOK(it)
  BY <1>2 DEF IteratorOK
<1>4. CASE it.out = "yes"
  <2>1. Continue(f, it, held)
    BY <1>4 DEF Search
  <2>2. /\ DOMAIN f = CallFields /\ f.op = "field" /\ f.h = h /\ f.isRoot = call.isRoot
        /\ f.path = call.path /\ f.asked = call.asked
    BY <1>1 DEF CallFields
  <2> HIDE DEF f
  <2>3. Runs(f, it, Top)
    BY <1>1, <1>3, <1>4, <2>2 DEF Runs
  <2>4. QED
    BY <1>3, <2>1, <2>3, ContinueKeeps DEF Top
<1>5. CASE it.out # "yes" /\ Fail(it, "NO_SUCH_FIELD")
  <2>1. it.depth >= call.h.depth - 1 /\ it.position # call.h.start + 1
        /\ it.position > call.h.start /\ it.position >= call.h.start
    BY <1>2, <1>3, <1>5
  <2>2. Rests(it, Top, FALSE)
    BY <2>1, RestsInCall
  <2>3. "NO_SUCH_FIELD" \in Outs
    BY DEF Outs
  <2>4. QED
    BY <1>3, <1>5, <2>2, <2>3, FailKeeps
<1>6. CASE it.out # "yes" /\ Continue(a, r, held)
  <2>1. Begun(r, it, h)
    BY <1>1, ResetIs
  <2> HIDE DEF r
  <2>2. /\ Sound(r) /\ r.alive /\ r.error = "SUCCESS"
        /\ r.out = "no" \/ r.depth = h.depth
        /\ r.position \in {h.start + 1, h.start + 2}
    BY <1>1, <2>1 DEF Begun, Unfailed, Level
  <2>3. r.position > h.start /\ r.position >= h.start
    BY <1>2, <2>2
  <2>4. /\ DOMAIN a = CallFields /\ a.op = "again" /\ a.h = h /\ a.isRoot = call.isRoot
        /\ a.path = call.path /\ a.asked = call.asked
    BY <1>1 DEF CallFields
  <2> HIDE DEF a
  <2>5. Runs(a, r, Top)
    BY <1>1, <2>2, <2>3, <2>4 DEF Runs
  <2>6. IteratorOK(r)
    BY <2>2 DEF IteratorOK
  <2>7. QED
    BY <1>6, <2>5, <2>6, ContinueKeeps DEF Top
<1>7. QED
  BY <1>4, <1>5, <1>6 DEF Search

(* One step of a search: past the value, and to what follows it. *)
LEMMA LeftIs ==
  ASSUME Len(doc) \in Nat \ {0}, NEW it, Sound(it), it.alive, it.error = "SUCCESS",
         NEW h, Point(h), it.position > h.start, it.depth >= h.depth,
         NEW n, n = SkipChild(it, h)
  PROVE  /\ Sound(n) /\ n.alive /\ n.out \in Outs
         /\ n.position > h.start /\ n.position >= it.position
         /\ Failed(n) <=> n.error # "SUCCESS"
         /\ ~Failed(n) => n.depth = h.depth
<1>1. Skipped(n, it, h.depth)
  BY SkipChildIs
<1>2. Sound(n) /\ n.alive /\ n.position >= it.position
  BY <1>1 DEF Skipped
<1>3. n.position > h.start
  <2>1. n.position \in Nat /\ it.position \in Nat /\ h.start \in Nat
    BY <1>2, IteratorIs, PointIs
  <2>2. QED
    BY <1>2, <2>1
<1>4. \/ n.out = "yes" /\ n.error = "SUCCESS" /\ n.depth = h.depth
      \/ n.out = "TAPE_ERROR" /\ n.error = "TAPE_ERROR"
  BY <1>1 DEF Skipped
<1>5. (Failed(n) <=> n.error # "SUCCESS") /\ (~Failed(n) => n.depth = h.depth)
  BY <1>4 DEF Failed
<1>6. n.out \in Outs
  BY <1>2, IteratorIs
<1>7. QED
  BY <1>2, <1>3, <1>5, <1>6

(* And to what follows the field.                                           *)
LEMMA NextFieldIs ==
  ASSUME NEW it, Sound(it), it.alive, it.error = "SUCCESS",
         NEW h, Point(h), ~IsArray(h), it.position > h.start, it.depth = h.depth,
         NEW n, n = HasNext(it, h)
  PROVE  /\ Sound(n) /\ n.alive /\ n.out \in Outs
         /\ n.position > h.start /\ n.position # h.start + 1
         /\ n.position = it.position + 1
         /\ Failed(n) <=> n.error # "SUCCESS"
         /\ n.out = "yes" => n.depth = h.depth
         /\ n.out # "yes" /\ ~Failed(n) => n.depth = h.depth - 1
<1>1. Followed(n, it, h)
  BY HasNextIs
<1>2. Sound(n) /\ n.alive /\ n.position = it.position + 1
  BY <1>1 DEF Followed
<1>3. n.position > h.start /\ n.position # h.start + 1
  <2>1. n.position \in Nat /\ it.position \in Nat /\ h.start \in Nat
    BY <1>2, IteratorIs, PointIs
  <2>2. QED
    BY <1>2, <2>1
<1>4. \/ n.out = "yes" /\ n.error = "SUCCESS" /\ n.depth = h.depth
      \/ n.out = "no" /\ n.error = "SUCCESS" /\ n.depth = h.depth - 1
      \/ n.out = "TAPE_ERROR" /\ n.error = "TAPE_ERROR"
  BY <1>1 DEF Followed, Level
<1>5. /\ Failed(n) <=> n.error # "SUCCESS"
      /\ n.out = "yes" => n.depth = h.depth
      /\ n.out # "yes" /\ ~Failed(n) => n.depth = h.depth - 1
  BY <1>4 DEF Failed
<1>6. n.out \in Outs
  BY <1>2, IteratorIs
<1>7. QED
  BY <1>2, <1>3, <1>5, <1>6

(* Where the search of a field begins.                                      *)
LEMMA EnterFieldKeeps ==
  ASSUME OnDemandInv, EnterField
  PROVE  OnDemandInv'
<1> DEFINE h == call.h
           it == Fresh(Assume(iter, iter.position > call.h.start))
           left == SkipChild(it, h)
           next == HasNext(left, h)
           r == Reset(it, h)
<1>1. call.op = "enter"
  BY DEF EnterField
<1>2. /\ doc \in Docs /\ Len(doc) \in Nat \ {0} /\ StackOK(held, root)
      /\ HandleOK(Top) /\ Point(h) /\ Sound(iter) /\ Runs(call, iter, Top)
      /\ iter.error = "SUCCESS" => iter.alive
  BY <1>1, CallIs
<1>3. /\ ~IsArray(h) /\ iter.error = "SUCCESS" /\ iter.alive /\ iter.position > h.start
      /\ iter.depth >= h.depth - 1
      /\ iter.position = h.start + 1 => iter.depth = h.depth
  BY <1>1, <1>2 DEF Runs
<1>4. /\ Sound(it) /\ it.alive /\ it.error = "SUCCESS" /\ it.position > h.start
      /\ it.depth >= h.depth - 1 /\ it.out = "yes"
      /\ it.position = h.start + 1 => it.depth = h.depth
  <2>1. Assume(iter, iter.position > call.h.start) = iter
    BY <1>3 DEF Assume
  <2>2. Sound(it) /\ InPlace(it, iter) /\ Unfailed(it, iter) /\ it.out = "yes"
    BY <1>2, <2>1, OutsAre, YieldIs DEF Fresh
  <2>3. QED
    BY <1>3, <2>2 DEF InPlace, Unfailed
<1>5. /\ h.depth \in Nat \ {0} /\ h.start \in Nat \ {0} /\ it.position \in Nat
      /\ it.depth \in Nat
  BY <1>2, <1>4, PointIs, IteratorIs
<1>6. IF it.position = h.start + 1 THEN Search(it, h, TRUE, it.position)
      ELSE IF ~(it.depth >= h.depth)
      THEN IF Unordered THEN Search(r, h, TRUE, it.position) ELSE Fail(it, "NO_SUCH_FIELD")
      ELSE IF Failed(left) THEN GiveUp(left)
      ELSE IF Failed(next) THEN GiveUp(next)
      ELSE Search(next, h, FALSE, left.position)
  BY DEF EnterField, IsOpen
<1> HIDE DEF it, left, next, r
<1>7. CASE it.position = h.start + 1
  <2>1. Search(it, h, TRUE, it.position)
    BY <1>6, <1>7
  <2>2. QED
    BY <1>1, <1>2, <1>4, <1>7, <2>1, SearchKeeps
<1>8. CASE it.position # h.start + 1 /\ ~(it.depth >= h.depth)
  <2>1. CASE Search(r, h, TRUE, it.position)
    <3>1. Begun(r, it, h)
      BY <1>2, <1>4, ResetIs DEF r
    <3>2. /\ Sound(r) /\ r.alive /\ r.error = "SUCCESS"
          /\ r.position \in {h.start + 1, h.start + 2}
          /\ r.out = "yes" => r.depth = h.depth
          /\ r.out # "yes" => r.depth = h.depth - 1 /\ r.position = h.start + 2
      BY <1>3, <1>4, <3>1 DEF Begun, Unfailed, Level
    <3>3. r.position > h.start /\ (r.out # "yes" => r.position # h.start + 1)
      BY <1>5, <3>2
    <3>4. QED
      BY <1>1, <1>2, <2>1, <3>2, <3>3, SearchKeeps
  <2>2. CASE Fail(it, "NO_SUCH_FIELD")
    <3>1. it.position >= h.start
      BY <1>4, <1>5
    <3>2. Rests(it, Top, FALSE)
      BY <1>1, <1>2, <1>4, <1>8, <3>1, RestsInCall
    <3>3. IteratorOK(it) /\ "NO_SUCH_FIELD" \in Outs
      BY <1>4 DEF IteratorOK, Outs
    <3>4. QED
      BY <1>2, <2>2, <3>2, <3>3, FailKeeps
  <2>3. QED
    BY <1>6, <1>8, <2>1, <2>2
<1>9. CASE it.position # h.start + 1 /\ it.depth >= h.depth
  <2>1. /\ Sound(left) /\ left.alive /\ left.out \in Outs /\ left.position > h.start
        /\ Failed(left) <=> left.error # "SUCCESS"
        /\ ~Failed(left) => left.depth = h.depth
    BY <1>2, <1>4, <1>9, LeftIs DEF left
  <2>2. IF Failed(left) THEN GiveUp(left)
        ELSE IF Failed(next) THEN GiveUp(next) ELSE Search(next, h, FALSE, left.position)
    BY <1>6, <1>9
  <2>3. CASE Failed(left)
    BY <1>1, <1>2, <2>1, <2>2, <2>3, GiveUpKeeps
  <2>4. CASE ~Failed(left)
    <3>1. /\ Sound(next) /\ next.alive /\ next.out \in Outs
          /\ next.position > h.start /\ next.position # h.start + 1
          /\ Failed(next) <=> next.error # "SUCCESS"
          /\ next.out = "yes" => next.depth = h.depth
          /\ next.out # "yes" /\ ~Failed(next) => next.depth = h.depth - 1
      BY <1>2, <1>3, <2>1, <2>4, NextFieldIs DEF next
    <3>2. CASE Failed(next)
      <4>1. GiveUp(next)
        BY <2>2, <2>4, <3>2
      <4>2. QED
        BY <1>1, <1>2, <3>1, <3>2, <4>1, GiveUpKeeps
    <3>3. CASE ~Failed(next)
      <4>1. Search(next, h, FALSE, left.position)
        BY <2>2, <2>4, <3>3
      <4>2. QED
        BY <1>1, <1>2, <3>1, <3>3, <4>1, SearchKeeps
    <3>4. QED
      BY <3>2, <3>3
  <2>5. QED
    BY <2>3, <2>4
<1>10. QED
  BY <1>7, <1>8, <1>9

(* A search takes the field it has come to. *)
LEMMA FieldIs ==
  ASSUME Len(doc) \in Nat, NEW it, Sound(it), it.alive, it.error = "SUCCESS",
         NEW h, Point(h), ~IsArray(h), it.position > h.start, it.depth = h.depth,
         NEW n, n = TakeItem(it, h)
  PROVE  /\ Sound(n) /\ n.alive /\ n.out \in Outs /\ n.position > h.start
         /\ n.position >= it.position
         /\ Failed(n) <=> n.error # "SUCCESS"
         /\ ~Failed(n) => n.depth = h.depth + 1 /\ n.position >= h.start + 2
<1>1. Taken(n, it, h)
  BY TakeItemIs DEF Level
<1>2. Sound(n) /\ n.alive /\ n.position >= it.position
  BY <1>1 DEF Taken
<1>3. n.position \in Nat /\ it.position \in Nat /\ h.start \in Nat
  BY <1>2, IteratorIs, PointIs
<1>4. \/ /\ n.out = "yes" /\ n.error = "SUCCESS" /\ n.depth = h.depth + 1
         /\ n.position = it.position + 2
      \/ n.out = "TAPE_ERROR" /\ n.error = "TAPE_ERROR"
  BY <1>1 DEF Taken
<1>5. n.position = it.position + 2 => n.position >= h.start + 2
  BY <1>3
<1>6. n.position > h.start
  BY <1>2, <1>3
<1>7. /\ Failed(n) <=> n.error # "SUCCESS"
      /\ ~Failed(n) => n.depth = h.depth + 1 /\ n.position = it.position + 2
  BY <1>4 DEF Failed
<1>8. n.out \in Outs
  BY <1>2, IteratorIs
<1>9. QED
  BY <1>2, <1>5, <1>6, <1>7, <1>8

(* A round of the first search.                                             *)
LEMMA SearchFieldKeeps ==
  ASSUME OnDemandInv, SearchField
  PROVE  OnDemandInv'
<1> DEFINE h == call.h
           item == TakeItem(iter, h)
           left == SkipChild(item, h)
           next == HasNext(left, h)
<1>1. call.op = "field"
  BY DEF SearchField
<1>2. /\ doc \in Docs /\ Len(doc) \in Nat \ {0} /\ StackOK(held, root)
      /\ HandleOK(Top) /\ Point(h) /\ Sound(iter) /\ Runs(call, iter, Top)
      /\ iter.error = "SUCCESS" => iter.alive
  BY <1>1, CallIs
<1>3. /\ ~IsArray(h) /\ iter.error = "SUCCESS" /\ iter.alive /\ iter.position > h.start
      /\ iter.depth = h.depth
  BY <1>1, <1>2 DEF Runs
<1>4. IF Failed(item) THEN GiveUp(item)
      ELSE IF Peek(iter) = call.key THEN Found(item)
      ELSE IF Failed(left) THEN Fail(left, left.out)
      ELSE IF Failed(next) THEN GiveUp(next)
      ELSE Search(next, h, call.first, call.stop)
  BY DEF SearchField
<1>5. /\ Sound(item) /\ item.alive /\ item.out \in Outs /\ item.position > h.start
      /\ Failed(item) <=> item.error # "SUCCESS"
      /\ ~Failed(item) => item.depth = h.depth + 1 /\ item.position >= h.start + 2
  BY <1>2, <1>3, FieldIs
<1> HIDE DEF item, left, next
<1>6. CASE Failed(item)
  BY <1>1, <1>2, <1>4, <1>5, <1>6, GiveUpKeeps
<1>7. CASE ~Failed(item) /\ Peek(iter) = call.key
  <2>1. Found(item)
    BY <1>4, <1>7
  <2>2. QED
    BY <1>1, <1>2, <1>5, <1>7, <2>1, FoundKeeps
<1>8. CASE ~Failed(item) /\ Peek(iter) # call.key
  <2>1. item.error = "SUCCESS" /\ item.depth >= h.depth
    BY <1>2, <1>5, <1>8, PointIs
  <2>2. /\ Sound(left) /\ left.alive /\ left.out \in Outs /\ left.position > h.start
        /\ Failed(left) <=> left.error # "SUCCESS"
        /\ ~Failed(left) => left.depth = h.depth
    BY <1>2, <1>5, <2>1, LeftIs DEF left
  <2>3. IF Failed(left) THEN Fail(left, left.out)
        ELSE IF Failed(next) THEN GiveUp(next) ELSE Search(next, h, call.first, call.stop)
    BY <1>4, <1>8
  <2>4. CASE Failed(left)
    <3>1. left.position >= h.start
      BY <1>2, <2>2, PointIs, IteratorIs
    <3>2. Rests(left, Top, FALSE)
      BY <1>1, <1>2, <2>2, <2>4, <3>1, RestsInCall
    <3>3. IteratorOK(left)
      BY <2>2 DEF IteratorOK
    <3>4. QED
      BY <1>2, <2>2, <2>3, <2>4, <3>2, <3>3, FailKeeps
  <2>5. CASE ~Failed(left)
    <3>1. /\ Sound(next) /\ next.alive /\ next.out \in Outs
          /\ next.position > h.start /\ next.position # h.start + 1
          /\ Failed(next) <=> next.error # "SUCCESS"
          /\ next.out = "yes" => next.depth = h.depth
          /\ next.out # "yes" /\ ~Failed(next) => next.depth = h.depth - 1
      BY <1>2, <1>3, <2>2, <2>5, NextFieldIs DEF next
    <3>2. CASE Failed(next)
      <4>1. GiveUp(next)
        BY <2>3, <2>5, <3>2
      <4>2. QED
        BY <1>1, <1>2, <3>1, <3>2, <4>1, GiveUpKeeps
    <3>3. CASE ~Failed(next)
      <4>1. Search(next, h, call.first, call.stop)
        BY <2>3, <2>5, <3>3
      <4>2. QED
        BY <1>1, <1>2, <3>1, <3>3, <4>1, SearchKeeps
    <3>4. QED
      BY <3>2, <3>3
  <2>6. QED
    BY <2>4, <2>5
<1>9. QED
  BY <1>6, <1>7, <1>8

(* What the code leaves undefined: it gives up with a fault of the search. *)
LEMMA UndefinedIs ==
  ASSUME NEW it, Sound(it), NEW n, n = Undefined(it)
  PROVE  /\ Sound(n) /\ n.position = it.position /\ n.error = "UNDEFINED"
         /\ n.out = "UNDEFINED" /\ n.error # "SUCCESS" /\ n.out \in Outs
BY DEF Undefined, ReportError, Fault, Sound, Iterators, Errors, Outs, Faults

(* A round of the second search, from the start of the object.              *)
LEMMA SearchAgainKeeps ==
  ASSUME OnDemandInv, SearchAgain
  PROVE  OnDemandInv'
<1> DEFINE h == call.h
           item == TakeItem(iter, h)
           left == SkipChild(item, h)
           next == HasNext(left, h)
           lost == Undefined(iter)
           astray == Undefined(left)
<1>1. call.op = "again"
  BY DEF SearchAgain
<1>2. /\ doc \in Docs /\ Len(doc) \in Nat \ {0} /\ StackOK(held, root)
      /\ HandleOK(Top) /\ Point(h) /\ Sound(iter) /\ Runs(call, iter, Top)
      /\ iter.error = "SUCCESS" => iter.alive
  BY <1>1, CallIs
<1>3. /\ ~IsArray(h) /\ iter.error = "SUCCESS" /\ iter.alive /\ iter.position > h.start
      /\ iter.out = "no" \/ iter.depth = h.depth
  BY <1>1, <1>2 DEF Runs
<1>4. IF iter.out = "no" \/ Failed(item) THEN GiveUp(lost)
      ELSE IF Peek(iter) = call.key THEN Found(item)
      ELSE IF Failed(left) THEN Fail(left, left.out)
      ELSE IF left.position = call.stop THEN Fail(left, "NO_SUCH_FIELD")
      ELSE IF Failed(next) THEN GiveUp(astray) ELSE Continue(call, next, held)
  BY DEF SearchAgain
<1> HIDE DEF item, left, next, lost, astray
<1>5. CASE iter.out = "no" \/ Failed(item)
  <2>1. /\ Sound(lost) /\ lost.position = iter.position /\ lost.error # "SUCCESS"
        /\ lost.out \in Outs
    BY <1>2, UndefinedIs DEF lost
  <2>2. GiveUp(lost)
    BY <1>4, <1>5
  <2>3. QED
    BY <1>1, <1>2, <1>3, <2>1, <2>2, GiveUpKeeps
<1>6. CASE iter.out # "no" /\ ~Failed(item)
  <2>1. iter.depth = h.depth
    BY <1>3, <1>6
  <2>2. /\ Sound(item) /\ item.alive /\ item.error = "SUCCESS" /\ item.position > h.start
        /\ item.depth = h.depth + 1 /\ item.position >= h.start + 2
    BY <1>2, <1>3, <1>6, <2>1, FieldIs DEF item
  <2>3. CASE Peek(iter) = call.key
    <3>1. Found(item)
      BY <1>4, <1>6, <2>3
    <3>2. QED
      BY <1>1, <1>2, <2>2, <3>1, FoundKeeps
  <2>4. CASE Peek(iter) # call.key
    <3>1. item.depth >= h.depth
      BY <1>2, <2>2, PointIs
    <3>2. /\ Sound(left) /\ left.alive /\ left.out \in Outs /\ left.position > h.start
          /\ Failed(left) <=> left.error # "SUCCESS"
          /\ ~Failed(left) => left.depth = h.depth
      BY <1>2, <2>2, <3>1, LeftIs DEF left
    <3>3. IF Failed(left) THEN Fail(left, left.out)
          ELSE IF left.position = call.stop THEN Fail(left, "NO_SUCH_FIELD")
          ELSE IF Failed(next) THEN GiveUp(astray) ELSE Continue(call, next, held)
      BY <1>4, <1>6, <2>4
    <3>4. left.position >= h.start /\ IteratorOK(left)
          /\ (~Failed(left) => left.depth >= h.depth - 1)
      BY <1>2, <3>2, PointIs, IteratorIs DEF IteratorOK
    <3>5. Rests(left, Top, FALSE)
      BY <1>1, <1>2, <3>2, <3>4, RestsInCall
    <3>6. CASE Fail(left, left.out)
      BY <1>2, <3>2, <3>4, <3>5, <3>6, FailKeeps
    <3>7. CASE Fail(left, "NO_SUCH_FIELD")
      <4>1. "NO_SUCH_FIELD" \in Outs
        BY DEF Outs
      <4>2. QED
        BY <1>2, <3>4, <3>5, <3>7, <4>1, FailKeeps
    <3>8. CASE GiveUp(astray)
      <4>1. /\ Sound(astray) /\ astray.position = left.position
            /\ astray.error # "SUCCESS" /\ astray.out \in Outs
        BY <3>2, UndefinedIs DEF astray
      <4>2. QED
        BY <1>1, <1>2, <3>2, <3>8, <4>1, GiveUpKeeps
    <3>9. CASE ~Failed(left) /\ ~Failed(next) /\ Continue(call, next, held)
      <4>1. /\ Sound(next) /\ next.alive /\ next.position > h.start
            /\ next.error = "SUCCESS"
            /\ next.out = "yes" => next.depth = h.depth
        BY <1>2, <1>3, <3>2, <3>9, NextFieldIs DEF next
      <4>2. next.out = "no" \/ next.depth = h.depth
        BY <3>9, <4>1 DEF Failed
      <4>3. next.position >= h.start
        BY <1>2, <4>1, PointIs, IteratorIs
      <4>4. Runs(call, next, Top)
        BY <1>1, <1>2, <4>1, <4>2, <4>3 DEF Runs
      <4>5. IteratorOK(next)
        BY <4>1 DEF IteratorOK
      <4>6. QED
        BY <1>2, <3>9, <4>4, <4>5, ContinueKeeps DEF Top
    <3>10. QED
      BY <3>3, <3>6, <3>7, <3>8, <3>9
  <2>5. QED
    BY <2>3, <2>4
<1>7. QED
  BY <1>5, <1>6

(* A round of counting, or of at(): to the next item. *)
LEMMA RoundIs ==
  ASSUME Len(doc) \in Nat \ {0}, NEW it, IteratorOK(it), it.alive \/ it.depth = 0,
         NEW h, Point(h), it.position > h.start, it.depth >= h.depth,
         it.error = "SUCCESS" => it.depth \in {Level(h), h.depth - 1},
         NEW item, item = Dereference(it, h), NEW n, n = Increment(item, h)
  PROVE  /\ Given(item, it, h) /\ item.position > h.start
         /\ item.alive \/ item.depth = 0
         /\ item.error = "SUCCESS" => item.alive /\ item.depth = h.depth + 1
         /\ IteratorOK(item)
         /\ IteratorOK(n) /\ n.position > h.start
         /\ n.alive \/ n.depth = 0
         /\ n.error = "SUCCESS" => n.depth \in {Level(h), h.depth - 1}
<1>1. Sound(it) /\ (it.error = "SUCCESS" => it.alive)
  BY DEF IteratorOK
<1>2. it.depth \in Nat /\ it.position \in Nat /\ h.depth \in Nat /\ h.start \in Nat
  BY <1>1, IteratorIs, PointIs
<1>3. it.error = "SUCCESS" => it.depth = Level(h)
  BY <1>2
<1>4. Given(item, it, h)
  BY <1>1, <1>3, DereferenceIs
<1>5. Sound(item) /\ item.position >= it.position
  BY <1>4 DEF Given
<1>6. \/ /\ item.out = "yes" /\ it.error = "SUCCESS" /\ item.error = "SUCCESS"
         /\ item.alive = it.alive /\ item.depth = h.depth + 1
      \/ item.error # "SUCCESS" /\ item.depth = 0
  BY <1>4 DEF Given, Taken
<1>7. /\ item.error = "SUCCESS" => item.alive /\ item.depth = h.depth + 1
      /\ item.alive \/ item.depth = 0
  BY <1>1, <1>6
<1>8. item.position > h.start /\ (item.error = "SUCCESS" => item.depth >= h.depth)
  BY <1>2, <1>5, <1>7, IteratorIs
<1>9. IteratorOK(item)
  BY <1>5, <1>7 DEF IteratorOK
<1>10. Stepped(n, item, h)
  BY <1>5, <1>7, <1>8, IncrementIs
<1>11. /\ Sound(n) /\ n.alive = item.alive /\ n.position >= item.position
       /\ n.error = "SUCCESS" => /\ item.error = "SUCCESS"
                                 /\ n.depth \in {Level(h), h.depth - 1}
       /\ n.error # "SUCCESS" => n.alive \/ n.depth = 0
  BY <1>10 DEF Stepped
<1>12. n.position > h.start
  BY <1>2, <1>5, <1>8, <1>11, IteratorIs
<1>13. IteratorOK(n) /\ (n.alive \/ n.depth = 0)
  BY <1>7, <1>11 DEF IteratorOK
<1>14. QED
  BY <1>4, <1>7, <1>8, <1>9, <1>11, <1>12, <1>13

(* The call of a loop over items, one round further on. *)
LEMMA LaterIs ==
  ASSUME HandleOK(Top), call.op \in {"count", "at"}, Runs(call, iter, Top),
         NEW it, Sound(it), it.alive \/ it.depth = 0, it.position > call.h.start,
         it.error = "SUCCESS" => it.depth \in {Level(call.h), call.h.depth - 1},
         NEW c, c = [call EXCEPT !.n = @ + 1]
  PROVE  Runs(c, it, Top)
<1>1. /\ DOMAIN c = CallFields /\ c.op = call.op /\ c.h = call.h /\ c.isRoot = call.isRoot
      /\ c.path = call.path /\ c.asked = call.asked
  BY DEF Runs, CallFields
<1>2. it.position >= call.h.start
  <2>1. Point(call.h)
    BY DEF Runs
  <2>2. QED
    BY <2>1, PointIs, IteratorIs
<1>3. QED
  BY <1>1, <1>2 DEF Runs

(* A round of array::at().                                                  *)
LEMMA AtRoundKeeps ==
  ASSUME OnDemandInv, AtRound
  PROVE  OnDemandInv'
<1> DEFINE h == call.h
           item == Dereference(iter, h)
           n == Increment(item, h)
           c == [call EXCEPT !.n = @ + 1]
<1>1. call.op = "at"
  BY DEF AtRound
<1>2. /\ doc \in Docs /\ Len(doc) \in Nat \ {0} /\ StackOK(held, root)
      /\ HandleOK(Top) /\ Point(h) /\ Sound(iter) /\ IteratorOK(iter)
      /\ Runs(call, iter, Top)
  BY <1>1, CallIs
<1>3. /\ IsArray(h) /\ ~Fields(Top) /\ iter.position > h.start /\ iter.position >= h.start
      /\ iter.alive \/ iter.depth = 0
      /\ iter.error = "SUCCESS" => iter.depth \in {Level(h), h.depth - 1}
  BY <1>1, <1>2 DEF Runs
<1>4. IF ~(iter.depth >= h.depth) THEN Fail(iter, "INDEX_OUT_OF_BOUNDS")
      ELSE IF Indexes[call.n + 1] # call.key THEN Continue(c, n, held)
      ELSE IF Failed(item) THEN Fail(item, item.out) ELSE Found(item)
  BY DEF AtRound, IsOpen
<1>5. CASE ~(iter.depth >= h.depth)
  <2>1. iter.error = "SUCCESS" => iter.depth >= h.depth - 1
    BY <1>2, <1>3, PointIs DEF Level
  <2>2. Rests(iter, Top, FALSE)
    BY <1>1, <1>2, <1>3, <2>1, RestsInCall
  <2>3. "INDEX_OUT_OF_BOUNDS" \in Outs
    BY DEF Outs
  <2>4. Fail(iter, "INDEX_OUT_OF_BOUNDS")
    BY <1>4, <1>5
  <2>5. QED
    BY <1>2, <2>2, <2>3, <2>4, FailKeeps
<1>6. CASE iter.depth >= h.depth
  <2>1. /\ Given(item, iter, h) /\ item.position > h.start
        /\ item.alive \/ item.depth = 0
        /\ item.error = "SUCCESS" => item.alive /\ item.depth = h.depth + 1
        /\ IteratorOK(item)
        /\ IteratorOK(n) /\ n.position > h.start
        /\ n.alive \/ n.depth = 0
        /\ n.error = "SUCCESS" => n.depth \in {Level(h), h.depth - 1}
    BY <1>2, <1>3, <1>6, RoundIs
  <2> HIDE DEF item, n
  <2>2. CASE Continue(c, n, held)
    <3>1. Sound(n)
      BY <2>1 DEF IteratorOK
    <3>2. Runs(c, n, Top)
      BY <1>1, <1>2, <2>1, <3>1, LaterIs
    <3> HIDE DEF c
    <3>3. QED
      BY <1>2, <2>1, <2>2, <3>2, ContinueKeeps DEF Top
  <2>3. CASE Failed(item) /\ Fail(item, item.out)
    <3>1. item.out # "yes"
      BY <2>3 DEF Failed
    <3>2. Sound(item) /\ item.error # "SUCCESS" /\ item.depth = 0
      BY <2>1, <3>1 DEF Given
    <3>3. item.position >= h.start /\ item.out \in Outs
      BY <1>2, <2>1, <3>2, PointIs, IteratorIs
    <3>4. Rests(item, Top, FALSE)
      BY <1>1, <1>2, <2>1, <3>2, <3>3, RestsInCall
    <3>5. QED
      BY <1>2, <2>1, <2>3, <3>3, <3>4, FailKeeps
  <2>4. CASE ~Failed(item) /\ Found(item)
    <3>1. item.out = "yes"
      <4>1. item.out \in {"yes"} \/ item.out \in Errors
        BY <2>1 DEF Given
      <4>2. QED
        BY <2>4, <4>1, OutsAre DEF Failed
    <3>2. Sound(item) /\ item.error = "SUCCESS"
      BY <2>1, <3>1 DEF Given, Taken
    <3>3. QED
      BY <1>1, <1>2, <1>3, <2>1, <2>4, <3>2, FoundKeeps
  <2>5. QED
    BY <1>4, <1>6, <2>2, <2>3, <2>4
<1>7. QED
  BY <1>5, <1>6

(* The iterator goes back to where a value starts. *)
LEMMA BackIs ==
  ASSUME NEW it, Sound(it), NEW h, Point(h), NEW n, n = MoveTo(it, h.start, h.depth)
  PROVE  /\ Sound(n) /\ n.position = h.start /\ n.depth = h.depth /\ Unfailed(n, it)
<1>1. PICK p \in Nat \ {0}, d \in Nat : p = h.start /\ d = h.depth
  BY PointIs
<1>2. n = MoveTo(it, p, d)
  BY <1>1
<1>3. QED
  BY <1>1, <1>2, MoveToIs

(* The end of count_elements() and count_fields(). *)
LEMMA CountedKeeps ==
  ASSUME doc \in Docs, Len(doc) \in Nat \ {0}, StackOK(held, root), HandleOK(Top),
         IteratorOK(iter), call.op = "count", Runs(call, iter, Top),
         NEW it, it = (IF iter.error # "SUCCESS" THEN Yield(iter, iter.error)
                       ELSE Fresh(Reset(iter, call.h))),
         NEW n, n = (IF Top.kind = "value" THEN MoveTo(it, call.h.start, call.h.depth)
                     ELSE IF IsRoot /\ ~Failed(it) THEN Restarted(it) ELSE it),
         Return(call.asked, n, held, call.n)
  PROVE  OnDemandInv'
<1> DEFINE h == call.h
           r == Reset(iter, h)
           b == call.asked[1] = "count"
<1>1. /\ Point(h) /\ h.depth = Top.depth /\ h.start = Top.start /\ Top.mode = "fresh"
      /\ iter.position > h.start /\ (iter.alive \/ iter.depth = 0) /\ b
  BY DEF Runs
<1>2. Sound(iter) /\ (iter.error = "SUCCESS" => iter.alive)
  BY DEF IteratorOK
<1>3. /\ h.depth \in Nat \ {0} /\ h.start \in Nat \ {0} /\ iter.position \in Nat
      /\ iter.depth \in Nat /\ iter.error \in Outs
  BY <1>1, <1>2, PointIs, IteratorIs, OutsAre
<1>4. /\ Top.start \in Nat /\ Top.start >= Top.start /\ Top.depth >= Top.depth - 1
      /\ Top.kind = "document" => Top.start = root /\ Top.depth = 1
  BY <1>1, <1>3, TopIs
<1>5. CASE iter.error # "SUCCESS"
  <2>1. it = Yield(iter, iter.error)
    BY <1>5
  <2>2. Sound(it) /\ InPlace(it, iter) /\ Unfailed(it, iter) /\ it.out = iter.error
    BY <1>2, <1>3, <2>1, YieldIs
  <2>3. Failed(it)
    BY <1>2, <2>2, IteratorIs, OutsAre DEF Failed
  <2>4. it.error # "SUCCESS" /\ it.position > h.start /\ (it.alive \/ it.depth = 0)
    BY <1>1, <1>5, <2>2 DEF InPlace, Unfailed
  <2>5. CASE Top.kind = "value"
    <3>1. n = MoveTo(it, h.start, h.depth)
      BY <2>5
    <3>2. Sound(n) /\ n.position = h.start /\ n.depth = h.depth /\ Unfailed(n, it)
      BY <1>1, <2>2, <3>1, BackIs
    <3>3. n.error # "SUCCESS" /\ n.position >= Top.start
      BY <1>1, <1>4, <2>4, <3>2 DEF Unfailed
    <3>4. ~Resumable(Top)
      BY <1>1, <2>5 DEF Resumable, IsContainer
    <3>5. Rests(n, Top, b)
      BY <1>1, <2>5, <3>3, <3>4, Zenon DEF Rests
    <3>6. IteratorOK(n)
      BY <3>2, <3>3 DEF IteratorOK
    <3>7. QED
      BY <3>5, <3>6, ReturnKeeps DEF Top
  <2>6. CASE Top.kind # "value"
    <3>1. n = it
      BY <2>3, <2>6
    <3>2. n.position >= Top.start /\ n.position > Top.start
      BY <1>1, <1>3, <2>2, <2>4, <3>1, IteratorIs
    <3>3. Rests(n, Top, b)
      BY <2>4, <3>1, <3>2, Zenon DEF Rests
    <3>4. IteratorOK(n)
      BY <2>2, <2>4, <3>1 DEF IteratorOK
    <3>5. QED
      BY <3>3, <3>4, ReturnKeeps DEF Top
  <2>7. QED
    BY <2>5, <2>6
<1>6. CASE iter.error = "SUCCESS"
  <2>1. Begun(r, iter, h)
    BY <1>1, <1>2, ResetIs
  <2>2. it = Yield(r, "yes")
    BY <1>6 DEF Fresh
  <2> HIDE DEF r
  <2>3. Sound(r) /\ Unfailed(r, iter)
    BY <2>1 DEF Begun
  <2>4. Sound(it) /\ InPlace(it, r) /\ Unfailed(it, r) /\ it.out = "yes"
    <3> DEFINE y == Yield(r, "yes")
    <3>1. "yes" \in Outs
      BY OutsAre
    <3>2. Sound(y) /\ InPlace(y, r) /\ Unfailed(y, r) /\ y.out = "yes"
      BY <2>3, <3>1, YieldIs
    <3> HIDE DEF y
    <3>3. it = y
      BY <2>2 DEF y
    <3>4. QED
      BY <3>2, <3>3
  <2>5. it.alive /\ it.error = "SUCCESS" /\ ~Failed(it) /\ IteratorOK(it)
    BY <1>2, <1>6, <2>3, <2>4 DEF Unfailed, Failed, IteratorOK
  <2>6. CASE Top.kind = "value"
    <3>1. n = MoveTo(it, h.start, h.depth)
      BY <2>6
    <3>2. Sound(n) /\ n.position = h.start /\ n.depth = h.depth /\ Unfailed(n, it)
      BY <1>1, <2>4, <3>1, BackIs
    <3>3. /\ n.alive /\ n.position >= Top.start /\ n.position = Top.start
          /\ n.depth = Top.depth /\ n.depth >= Top.depth - 1
      BY <1>1, <1>4, <2>5, <3>2 DEF Unfailed
    <3>4. ~Resumable(Top) /\ ~Fields(Top) /\ ~IsContainer(Top)
      BY <1>1, <2>6 DEF Resumable, Fields, IsContainer
    <3>5. Rests(n, Top, b)
      BY <1>1, <3>3, <3>4, Zenon DEF Rests
    <3>6. IteratorOK(n)
      BY <3>2, <3>3 DEF IteratorOK
    <3>7. QED
      BY <3>5, <3>6, ReturnKeeps DEF Top
  <2>7. CASE Top.kind = "document"
    <3>1. n = Restarted(it) /\ root \in Nat \ {0}
      BY <2>5, <2>7, RootIs DEF IsRoot
    <3>2. Sound(n) /\ n.position = root /\ n.depth = 1 /\ Unfailed(n, it)
      BY <2>4, <2>5, <3>1, RestartedIs
    <3>3. /\ n.alive /\ n.position >= Top.start /\ n.position = Top.start
          /\ n.depth = Top.depth /\ n.depth >= Top.depth - 1
      BY <1>4, <2>5, <2>7, <3>1, <3>2 DEF Unfailed
    <3>4. ~Resumable(Top) /\ ~Fields(Top) /\ ~IsContainer(Top)
      BY <1>1, <2>7 DEF Resumable, Fields, IsContainer
    <3>5. Rests(n, Top, b)
      BY <1>1, <3>3, <3>4, Zenon DEF Rests
    <3>6. IteratorOK(n)
      BY <3>2, <3>3 DEF IteratorOK
    <3>7. QED
      BY <3>5, <3>6, ReturnKeeps DEF Top
  <2>8. CASE IsContainer(Top)
    <3>1. n = it
      BY <2>8 DEF IsContainer, IsRoot
    <3>2. Begun(r, iter, Top)
      BY <1>1, <2>1 DEF Begun, Level, Partner, IsArray
    <3>3. Rests(r, Top, FALSE)
      BY <1>1, <1>2, <1>6, <2>8, <3>2, RestsInside
    <3>4. b \in BOOLEAN
      OBVIOUS
    <3>5. Rests(it, Top, b)
      BY <2>4, <3>3, <3>4, RestsStill
    <3>6. QED
      BY <2>5, <3>1, <3>5, ReturnKeeps DEF Top
  <2>9. QED
    <3>1. Top.kind \in Kinds
      BY HandleIs
    <3>2. QED
      BY <2>6, <2>7, <2>8, <3>1 DEF Kinds, IsContainer
<1>7. QED
  BY <1>5, <1>6

(* A round of count_elements() and count_fields().                          *)
LEMMA CountRoundKeeps ==
  ASSUME OnDemandInv, CountRound
  PROVE  OnDemandInv'
<1> DEFINE h == call.h
           item == Dereference(iter, h)
           n == Increment(item, h)
           c == [call EXCEPT !.n = @ + 1]
<1>1. call.op = "count"
  BY DEF CountRound
<1>2. /\ doc \in Docs /\ Len(doc) \in Nat \ {0} /\ StackOK(held, root)
      /\ HandleOK(Top) /\ Point(h) /\ Sound(iter) /\ IteratorOK(iter)
      /\ Runs(call, iter, Top)
  BY <1>1, CallIs
<1>3. CASE iter.depth >= h.depth
  <2>1. Continue(c, n, held)
    BY <1>3 DEF CountRound, IsOpen
  <2>2. /\ iter.position > h.start /\ (iter.alive \/ iter.depth = 0)
        /\ iter.error = "SUCCESS" => iter.depth \in {Level(h), h.depth - 1}
    BY <1>1, <1>2 DEF Runs
  <2>3. /\ IteratorOK(n) /\ n.position > h.start
        /\ n.alive \/ n.depth = 0
        /\ n.error = "SUCCESS" => n.depth \in {Level(h), h.depth - 1}
    BY <1>2, <1>3, <2>2, RoundIs
  <2> HIDE DEF n
  <2>4. Sound(n)
    BY <2>3 DEF IteratorOK
  <2>5. Runs(c, n, Top)
    BY <1>1, <1>2, <2>3, <2>4, LaterIs
  <2> HIDE DEF c
  <2>6. QED
    BY <1>2, <2>1, <2>3, <2>5, ContinueKeeps DEF Top
<1>4. CASE ~(iter.depth >= h.depth)
  <2> DEFINE it == IF iter.error # "SUCCESS" THEN Yield(iter, iter.error)
                   ELSE Fresh(Reset(iter, call.h))
             m == IF Top.kind = "value" THEN MoveTo(it, call.h.start, call.h.depth)
                  ELSE IF IsRoot /\ ~Failed(it) THEN Restarted(it) ELSE it
  <2>1. Return(call.asked, m, held, call.n)
    BY <1>4 DEF CountRound, IsOpen
  <2>2. QED
    BY <1>1, <1>2, <2>1, CountedKeeps
<1>5. QED
  BY <1>3, <1>4

(* at_pointer() comes to a value, or goes into it. *)
LEMMA EnterKeeps ==
  ASSUME doc \in Docs, Len(doc) \in Nat \ {0}, StackOK(held, root),
         call.op = "descend", Runs(call, iter, Top), iter.alive,
         NEW it, Begun(it, iter, call.h), NEW op \in {"enter", "at"},
         IsArray(call.h) <=> op = "at", Enter(op, it)
  PROVE  OnDemandInv'
<1> DEFINE h == call.h
           c == [call EXCEPT !.op = op, !.key = Head(call.path), !.n = 0, !.path = Tail(@)]
<1>1. /\ Point(h) /\ DOMAIN call = CallFields /\ call.isRoot \in BOOLEAN
      /\ h.depth >= Top.depth /\ h.start >= Top.start
      /\ Top.mode # "looping" /\ Top.mode # "fresh" /\ ~Resumable(Top)
      /\ iter.error = "SUCCESS"
      /\ call.path \in Seq(Steps) /\ call.path # <<>> /\ call.asked # <<"loop">>
  BY DEF Runs
<1>2. h.depth \in Nat \ {0} /\ h.start \in Nat \ {0}
  BY <1>1, PointIs
<1>3. /\ Sound(it) /\ it.alive /\ it.error = "SUCCESS"
      /\ it.position \in {h.start + 1, h.start + 2}
      /\ it.depth \in {Level(h), h.depth - 1}
      /\ it.position = h.start + 1 => it.depth = Level(h)
  BY <1>1, <1>2 DEF Begun, Unfailed
<1>4. /\ it.position >= h.start /\ it.position > h.start
      /\ it.depth >= h.depth - 1
      /\ ~IsArray(h) /\ it.position = h.start + 1 => it.depth = h.depth
  BY <1>2, <1>3 DEF Level
<1>5. Continue(c, it, held)
  BY DEF Enter
<1>6. DOMAIN c = CallFields /\ c.op = op /\ c.h = h /\ c.isRoot = call.isRoot
      /\ c.path = Tail(call.path) /\ c.asked = call.asked
  BY <1>1 DEF CallFields
<1> HIDE DEF c
<1>11. c.path \in Seq(Steps) /\ c.asked # <<"loop">>
  BY <1>1, <1>6
<1>7. ~Fields(Top)
  BY <1>1 DEF Fields, Resumable, IsContainer
<1>8. Runs(c, it, Top)
  <2>1. CASE op = "at"
    BY <1>1, <1>3, <1>4, <1>6, <1>7, <1>11, <2>1 DEF Runs
  <2>2. CASE op = "enter"
    BY <1>1, <1>3, <1>4, <1>6, <1>7, <1>11, <2>2 DEF Runs
  <2>3. QED
    BY <2>1, <2>2
<1>9. IteratorOK(it)
  BY <1>3 DEF IteratorOK
<1>10. QED
  BY <1>5, <1>8, <1>9, ContinueKeeps DEF Top

(* A step of a JSON pointer.                                                *)
LEMMA DescendKeeps ==
  ASSUME OnDemandInv, Descend
  PROVE  OnDemandInv'
<1> DEFINE h == call.h
           open == Token(h.start)
           it == IF open \in Openers THEN StartContainer(iter, h, open, call.isRoot)
                 ELSE Fresh(iter)
<1>1. call.op = "descend"
  BY DEF Descend
<1>2. /\ doc \in Docs /\ Len(doc) \in Nat \ {0} /\ StackOK(held, root)
      /\ HandleOK(Top) /\ Point(h) /\ Sound(iter) /\ Runs(call, iter, Top)
      /\ iter.error = "SUCCESS" => iter.alive
  BY <1>1, CallIs
<1>3. /\ iter.error = "SUCCESS" /\ iter.alive /\ call.isRoot \in BOOLEAN
      /\ iter.position = h.start /\ iter.depth = h.depth /\ ~Resumable(Top)
  BY <1>1, <1>2 DEF Runs
<1>4. ~Fields(Top)
  BY <1>3 DEF Fields, Resumable, IsContainer
<1>5. h.depth \in Nat \ {0} /\ h.start \in Nat \ {0}
  BY <1>2, PointIs
<1>6. \/ open \notin Openers /\ (Fail(it, "TAPE_ERROR") \/ Fail(it, "INVALID_JSON_POINTER"))
      \/ /\ open \in Openers
         /\ \/ Failed(it) /\ Fail(it, it.out)
            \/ ~Failed(it) /\ open = "{" /\ Enter("enter", it)
            \/ ~Failed(it) /\ open = "[" /\ (Fail(it, "INCORRECT_TYPE") \/ Enter("at", it))
  BY DEF Descend, Openers, Closers
<1>7. {"TAPE_ERROR", "INVALID_JSON_POINTER", "INCORRECT_TYPE"} \subseteq Outs
  BY DEF Outs, Errors
<1>8. CASE open \notin Openers
  <2>1. it = Yield(iter, "yes")
    BY <1>8 DEF Fresh
  <2> HIDE DEF it
  <2>2. Sound(it) /\ InPlace(it, iter) /\ Unfailed(it, iter)
    BY <1>2, <2>1, OutsAre, YieldIs
  <2>3. /\ it.position >= h.start /\ it.alive /\ it.depth >= h.depth - 1
    BY <1>3, <1>5, <2>2 DEF InPlace, Unfailed
  <2>4. Rests(it, Top, FALSE)
    BY <1>1, <1>2, <1>4, <2>2, <2>3, RestsInCall
  <2>5. IteratorOK(it)
    BY <2>2, <2>3 DEF IteratorOK
  <2>6. CASE Fail(it, "TAPE_ERROR")
    BY <1>2, <1>7, <2>4, <2>5, <2>6, FailKeeps
  <2>7. CASE Fail(it, "INVALID_JSON_POINTER")
    BY <1>2, <1>7, <2>4, <2>5, <2>7, FailKeeps
  <2>8. QED
    BY <1>6, <1>8, <2>6, <2>7
<1>9. CASE open \in Openers
  <2>1. Opened(it, iter, h, open, call.isRoot)
    BY <1>2, <1>3, <1>9, StartContainerIs
  <2> HIDE DEF it
  <2>2. \/ /\ Sound(it) /\ it.position = h.start + 1 /\ it.depth = 0 /\ ~it.alive
           /\ it.error = "INCOMPLETE_ARRAY_OR_OBJECT" /\ it.out = it.error
        \/ Begun(it, iter, h)
    BY <2>1 DEF Opened
  <2>3. CASE Begun(it, iter, h)
    <3>1. /\ Sound(it) /\ it.alive /\ it.out \in {"yes", "no"}
          /\ it.position \in {h.start + 1, h.start + 2}
          /\ it.depth \in {Level(h), h.depth - 1}
      BY <1>3, <2>3 DEF Begun, Unfailed
    <3>2. ~Failed(it)
      BY <3>1 DEF Failed
    <3>3. it.position >= h.start /\ it.depth >= h.depth - 1
      BY <1>5, <3>1 DEF Level
    <3>4. CASE Fail(it, "INCORRECT_TYPE")
      <4>1. Rests(it, Top, FALSE)
        BY <1>1, <1>2, <1>4, <3>1, <3>3, RestsInCall
      <4>2. IteratorOK(it)
        BY <3>1 DEF IteratorOK
      <4>3. QED
        BY <1>2, <1>7, <3>4, <4>1, <4>2, FailKeeps
    <3>5. CASE open = "{" /\ Enter("enter", it)
      <4>1. ~IsArray(h)
        BY <3>5 DEF IsArray
      <4>2. QED
        BY <1>1, <1>2, <1>3, <2>3, <3>5, <4>1, EnterKeeps
    <3>6. CASE open = "[" /\ Enter("at", it)
      <4>1. IsArray(h)
        BY <3>6 DEF IsArray
      <4>2. QED
        BY <1>1, <1>2, <1>3, <2>3, <3>6, <4>1, EnterKeeps
    <3>7. QED
      BY <1>6, <1>9, <3>2, <3>4, <3>5, <3>6
  <2>4. CASE ~Begun(it, iter, h)
    <3>1. /\ Sound(it) /\ it.position = h.start + 1 /\ it.depth = 0
          /\ it.error # "SUCCESS" /\ it.out = "INCOMPLETE_ARRAY_OR_OBJECT"
      BY <2>2, <2>4
    <3>2. Failed(it) /\ it.out \in Outs
      BY <3>1, OutsAre DEF Failed
    <3>3. it.position >= h.start
      BY <1>5, <3>1
    <3>4. Rests(it, Top, FALSE)
      BY <1>1, <1>2, <3>1, <3>3, RestsInCall
    <3>5. IteratorOK(it)
      BY <3>1 DEF IteratorOK
    <3>6. Fail(it, it.out)
      BY <1>6, <1>9, <3>2
    <3>7. QED
      BY <1>2, <3>2, <3>4, <3>5, <3>6, FailKeeps
  <2>5. QED
    BY <2>3, <2>4
<1>10. QED
  BY <1>8, <1>9
-----------------------------------------------------------------------------
(* The calls of the user that begin such a loop *)

(* No call of the library is a round of a user's loop. *)
LEMMA PairIsNoLoop ==
  ASSUME NEW a, NEW b
  PROVE  <<a, b>> # <<"loop">>
<1>1. Len(<<a, b>>) = 2 /\ Len(<<"loop">>) = 1
  OBVIOUS
<1>2. QED
  BY <1>1

LEMMA PointerIsNoLoop ==
  ASSUME NEW S, NEW path \in Seq(S), path # <<>>
  PROVE  <<"pointer">> \o path # <<"loop">>
<1>1. Len(path) \in Nat /\ Len(path) # 0
  OBVIOUS
<1>2. <<"pointer">> \in Seq({"pointer"} \cup S) /\ path \in Seq({"pointer"} \cup S)
  OBVIOUS
<1>3. Len(<<"pointer">> \o path) = 1 + Len(path) /\ Len(<<"loop">>) = 1
  BY <1>2
<1>4. SUFFICES ASSUME <<"pointer">> \o path = <<"loop">>
               PROVE  FALSE
  OBVIOUS
<1>5. Len(<<"pointer">> \o path) = Len(<<"loop">>)
  BY <1>4, Zenon
<1>6. QED
  BY <1>1, <1>3, <1>5

LEMMA NothingLeft == <<>> \in Seq(Steps)
OBVIOUS

LEMMA CallOfIs ==
  ASSUME NEW op, NEW asked, NEW path, NEW c, c = Call(op, asked, path)
  PROVE  /\ DOMAIN c = CallFields /\ c.op = op /\ c.asked = asked /\ c.path = path
         /\ c.h.depth = Top.depth /\ c.h.start = Top.start /\ c.isRoot \in BOOLEAN
BY DEF Call, CallFields, IsRoot

(* The handle such a call is made of, when it has begun. *)
LEMMA ResumedIs ==
  ASSUME NEW h, HandleOK(h), ~IsContainer(h), NEW mode \in {"spent", "resumed"},
         Token(h.start) = "{" \/ mode = "spent",
         NEW g, g = [h EXCEPT !.mode = mode]
  PROVE  /\ HandleOK(g) /\ g.mode = mode /\ g.depth = h.depth /\ g.start = h.start
         /\ ~IsContainer(g)
<1>1. mode \in Modes /\ h \in Handles /\ mode \notin {"fresh", "looping"}
  BY HandleIs DEF Modes
<1>2. g \in Handles /\ g.mode = mode /\ g.kind = h.kind /\ g.depth = h.depth
        /\ g.start = h.start
  BY <1>1 DEF Handles
<1>3. ~IsContainer(g)
  BY <1>2 DEF IsContainer
<1>4. HandleOK(g)
  BY <1>1, <1>2, <1>3 DEF HandleOK, Fields, IsContainer
<1>5. QED
  BY <1>2, <1>3, <1>4

(* at_pointer() of documents and values.                                    *)
LEMMA AtPointerKeeps ==
  ASSUME OnDemandInv, StopsAtErrors, NEW path \in Paths, AtPointer(path)
  PROVE  OnDemandInv'
<1>1. /\ doc \in Docs /\ StackOK(held, root) /\ HandleOK(Top) /\ Point(Top)
      /\ Sound(iter) /\ iter.alive /\ iter.error = "SUCCESS"
  BY TurnIs DEF AtPointer
<1> DEFINE it == IF IsRoot THEN Restarted(iter) ELSE iter
           c == Call("descend", <<"pointer">> \o path, path)
           g == [Top EXCEPT !.mode = "spent"]
           s == Mark("spent")
<1>2. Continue(c, it, s) /\ (IsRoot \/ Unread)
  BY DEF AtPointer
<1>3. ~IsContainer(Top)
  BY <1>2 DEF IsRoot, Unread, IsContainer
<1>4. Sound(it) /\ it.alive /\ it.error = "SUCCESS"
      /\ it.position = Top.start /\ it.depth = Top.depth
  <2>1. CASE IsRoot
    <3>1. root \in Nat \ {0} /\ Top.depth = 1 /\ Top.start = root
      BY <1>1, <2>1, RootIs, TopIs DEF IsRoot
    <3> DEFINE n == Restarted(iter)
    <3>2. Sound(n) /\ n.position = root /\ n.depth = 1 /\ Unfailed(n, iter)
      BY <1>1, <3>1, RestartedIs
    <3> HIDE DEF n
    <3>3. it = n
      BY <2>1 DEF n
    <3>4. QED
      BY <1>1, <3>1, <3>2, <3>3 DEF Unfailed
  <2>2. CASE ~IsRoot
    <3>1. it = iter /\ Unread
      BY <1>2, <2>2
    <3>2. iter.position = Top.start /\ iter.depth = Top.depth
      BY <3>1, UnreadIs DEF AtPointer
    <3>3. QED
      BY <1>1, <3>1, <3>2
  <2>3. QED
    BY <2>1, <2>2
<1> HIDE DEF it
<1>5. /\ HandleOK(g) /\ g.mode = "spent" /\ g.depth = Top.depth /\ g.start = Top.start
      /\ ~IsContainer(g)
  <2>1. HandleOK(Top)
    BY <1>1
  <2>2. QED
    BY <1>3, <2>1, ResumedIs
<1>6. StackOK(s, root) /\ s[Len(s)] = g
  BY <1>1, <1>5, MarkIs DEF Modes
<1>7. /\ DOMAIN c = CallFields /\ c.op = "descend" /\ c.isRoot \in BOOLEAN
      /\ c.h.depth = Top.depth /\ c.h.start = Top.start
      /\ c.path = path /\ c.asked = <<"pointer">> \o path
  <2> DEFINE asked == <<"pointer">> \o path
  <2>1. c = Call("descend", asked, path)
    OBVIOUS
  <2> HIDE DEF c, asked
  <2>2. /\ DOMAIN c = CallFields /\ c.op = "descend" /\ c.isRoot \in BOOLEAN
        /\ c.h.depth = Top.depth /\ c.h.start = Top.start
        /\ c.path = path /\ c.asked = asked
    BY <2>1, CallOfIs
  <2>3. QED
    BY <2>2 DEF asked
<1> HIDE DEF c, g, s
<1>13. c.path \in Seq(Steps) /\ c.path # <<>> /\ c.asked # <<"loop">>
  <2>1. path \in Seq(Steps) /\ path # <<>>
    BY OnDemandAssumption DEF Steps
  <2>2. <<"pointer">> \o path # <<"loop">>
    BY <2>1, PointerIsNoLoop
  <2>3. QED
    BY <1>7, <2>1, <2>2
<1>8. Point(c.h) /\ c.h.depth >= g.depth /\ c.h.start >= g.start
      /\ it.position >= c.h.start
  BY <1>1, <1>4, <1>5, <1>7 DEF Point
<1>9. ~Resumable(g)
  BY <1>5 DEF Resumable
<1>10. Runs(c, it, g)
  BY <1>4, <1>5, <1>7, <1>8, <1>9, <1>13 DEF Runs
<1>11. IteratorOK(it)
  BY <1>4 DEF IteratorOK
<1>12. QED
  BY <1>1, <1>2, <1>6, <1>10, <1>11, ContinueKeeps

(* at() of an array.                                                        *)
LEMMA AtKeeps ==
  ASSUME OnDemandInv, StopsAtErrors, NEW index, At(index)
  PROVE  OnDemandInv'
<1>1. /\ doc \in Docs /\ StackOK(held, root) /\ HandleOK(Top) /\ Point(Top)
      /\ IteratorOK(iter) /\ Sound(iter) /\ iter.alive /\ iter.error = "SUCCESS"
      /\ Rests(iter, Top, answer.asked[1] = "count")
  BY TurnIs DEF At
<1> DEFINE c == Call("at", <<"at", index>>, <<>>)
           g == [Top EXCEPT !.mode = "used"]
           s == Mark("used")
<1>2. Continue(c, iter, s) /\ Top.kind = "array" /\ Top.mode = "fresh"
  BY DEF At
<1>3. IsContainer(Top) /\ Resumable(Top) /\ IsArray(Top)
  BY <1>1, <1>2 DEF IsContainer, Resumable, IsArray, HandleOK
<1>4. /\ iter.position > Top.start /\ iter.depth >= Top.depth - 1
      /\ iter.depth >= Top.depth => iter.depth = Level(Top)
  BY <1>1, <1>2, <1>3 DEF Rests
<1>5. /\ iter.depth \in Nat /\ iter.position \in Nat
      /\ Top.depth \in Nat \ {0} /\ Top.start \in Nat \ {0}
  BY <1>1, IteratorIs DEF Point
<1>6. iter.depth \in {Level(Top), Top.depth - 1} /\ iter.position >= Top.start
  BY <1>4, <1>5
<1>7. /\ HandleOK(g) /\ g.mode = "used" /\ g.kind = "array" /\ g.depth = Top.depth
      /\ g.start = Top.start
  BY <1>1, <1>2, <1>3, LoopedIs
<1>8. StackOK(s, root) /\ s[Len(s)] = g
  BY <1>1, <1>7, MarkIs DEF Modes
<1>9. /\ DOMAIN c = CallFields /\ c.op = "at" /\ c.isRoot \in BOOLEAN /\ c.path = <<>>
      /\ c.h.depth = Top.depth /\ c.h.start = Top.start /\ c.asked = <<"at", index>>
  BY CallOfIs
<1>14. c.path \in Seq(Steps) /\ c.asked # <<"loop">>
  BY <1>9, PairIsNoLoop, NothingLeft, Zenon
<1> HIDE DEF c, g, s
<1>10. Point(c.h) /\ c.h.depth >= g.depth /\ c.h.start >= g.start
  BY <1>5, <1>7, <1>9 DEF Point
<1>11. IsArray(c.h) /\ Level(c.h) = Level(Top) /\ ~Fields(g)
  BY <1>3, <1>7, <1>9 DEF IsArray, Level, Fields
<1>12. Runs(c, iter, g)
  BY <1>1, <1>4, <1>6, <1>7, <1>9, <1>10, <1>11, <1>14 DEF Runs
<1>13. QED
  BY <1>1, <1>2, <1>8, <1>12, ContinueKeeps

(* A field is looked up from inside the object. *)
LEMMA LookUpKeeps ==
  ASSUME doc \in Docs, HandleOK(Top), Point(Top), NEW s, StackOK(s, root),
         NEW g, s[Len(s)] = g, g.mode \in {"used", "resumed"}, ~IsArray(Top),
         g.depth = Top.depth, g.start = Top.start,
         NEW it, IteratorOK(it), it.error = "SUCCESS", it.position > Top.start,
         it.depth >= Top.depth - 1,
         it.position = Top.start + 1 => it.depth = Top.depth,
         NEW c, DOMAIN c = CallFields, c.op = "enter", c.path = <<>>, c.isRoot \in BOOLEAN,
         c.asked # <<"loop">>, c.h.depth = Top.depth, c.h.start = Top.start, Continue(c, it, s)
  PROVE  OnDemandInv'
<1>2. /\ Top.depth \in Nat \ {0} /\ Top.start \in Nat \ {0} /\ it.position \in Nat
  BY IteratorIs DEF Point, IteratorOK
<1>1. Top.depth >= Top.depth /\ Top.start >= Top.start /\ it.position >= Top.start
  BY <1>2
<1>3. Point(c.h) /\ c.h.depth >= g.depth /\ c.h.start >= g.start /\ it.position >= c.h.start
  <2>1. Point(c.h)
    BY <1>2, Zenon DEF Point
  <2>2. QED
    BY <1>1, <2>1, Zenon
<1>4. ~IsArray(c.h)
  BY DEF IsArray
<1>5. /\ it.position > c.h.start /\ it.depth >= c.h.depth - 1
      /\ it.position = c.h.start + 1 => it.depth = c.h.depth
      /\ c.h.depth = g.depth /\ c.h.start = g.start
  OBVIOUS
<1>8. c.path \in Seq(Steps)
  BY NothingLeft
<1>6. Runs(c, it, g)
  BY <1>3, <1>4, <1>5, <1>8 DEF Runs
<1>7. QED
  BY <1>6, ContinueKeeps

(* find_field() and find_field_unordered().                                 *)
LEMMA FindKeeps ==
  ASSUME OnDemandInv, StopsAtErrors, NEW how, NEW key, Find(how, key)
  PROVE  OnDemandInv'
<1>1. /\ doc \in Docs /\ Len(doc) \in Nat \ {0} /\ StackOK(held, root)
      /\ HandleOK(Top) /\ Point(Top)
      /\ IteratorOK(iter) /\ Sound(iter) /\ iter.alive /\ iter.error = "SUCCESS"
      /\ Rests(iter, Top, answer.asked[1] = "count")
  BY TurnIs DEF Find
<1> DEFINE open == StartContainer(iter, Top, "{", IsRoot)
           in == Fresh(iter)
           c == Call("enter", <<how, key>>, <<>>)
           resumed == [Top EXCEPT !.mode = "resumed"]
           used == [Top EXCEPT !.mode = "used"]
           b == <<how, key>>[1] = "count"
<1>2. /\ Top.kind # "object" => /\ Top.kind \in {"document", "value"}
                                /\ Top.mode \in {"fresh", "resumed"}
      /\ IF Top.kind # "object" /\ iter.position = Top.start
         THEN IF Failed(open) THEN Return(<<how, key>>, open, held, 0)
              ELSE Continue(c, open, Mark("resumed"))
         ELSE IF Failed(in) THEN Return(<<how, key>>, in, held, 0)
              ELSE Continue(c, in, Mark(IF Top.kind = "object" THEN "used" ELSE "resumed"))
  BY Zenon DEF Find, AtStart
<1>9. /\ DOMAIN c = CallFields /\ c.op = "enter" /\ c.isRoot \in BOOLEAN /\ c.path = <<>>
      /\ c.h.depth = Top.depth /\ c.h.start = Top.start /\ c.asked = <<how, key>>
  BY CallOfIs
<1>10. c.asked # <<"loop">>
  BY <1>9, PairIsNoLoop, Zenon
<1> HIDE DEF c
<1>3. /\ Top.depth \in Nat \ {0} /\ Top.start \in Nat \ {0} /\ iter.position \in Nat
  BY <1>1, IteratorIs DEF Point
<1>4. Sound(in) /\ InPlace(in, iter) /\ Unfailed(in, iter) /\ in.out = "yes"
  BY <1>1, OutsAre, YieldIs DEF Fresh
<1> HIDE DEF open, in
<1>5. in.error = "SUCCESS" /\ in.alive /\ ~Failed(in) /\ IteratorOK(in)
  BY <1>1, <1>4 DEF Unfailed, Failed, IteratorOK
<1>6. CASE Top.kind = "object"
  <2>1. Continue(c, in, Mark("used"))
    BY <1>2, <1>5, <1>6
  <2>2. IsContainer(Top) /\ Resumable(Top) /\ Fields(Top) /\ ~IsArray(Top)
    BY <1>1, <1>6 DEF IsContainer, Resumable, Fields, HandleOK, IsArray
  <2>3. /\ HandleOK(used) /\ used.mode = "used" /\ used.depth = Top.depth
        /\ used.start = Top.start
    BY <1>1, <2>2, LoopedIs
  <2> DEFINE s == Mark("used")
  <2>4. StackOK(s, root) /\ s[Len(s)] = used
    BY <1>1, <2>3, MarkIs DEF Modes
  <2> HIDE DEF s, used
  <2>5. /\ in.position > Top.start /\ in.depth >= Top.depth - 1
        /\ in.position = Top.start + 1 => in.depth = Top.depth
    BY <1>1, <1>4, <2>2 DEF Rests, InPlace
  <2>6. QED
    BY <1>1, <1>5, <2>1, <2>2, <2>3, <2>4, <2>5, <1>9, <1>10, LookUpKeeps DEF s
<1>7. CASE Top.kind # "object"
  <2>1. ~IsContainer(Top) /\ Top.mode \in {"fresh", "resumed"}
        /\ (Top.mode = "fresh" => Unopened(Top) /\ ~Resumable(Top))
        /\ (Top.mode = "resumed" => Resumable(Top) /\ Fields(Top))
    BY <1>2, <1>7 DEF IsContainer, Unopened, Resumable, Fields
  <2> DEFINE s == Mark("resumed")
  <2>2. ASSUME Token(Top.start) = "{"
        PROVE  /\ HandleOK(resumed) /\ resumed.mode = "resumed"
               /\ resumed.depth = Top.depth /\ resumed.start = Top.start
               /\ StackOK(s, root) /\ s[Len(s)] = resumed
    <3>1. /\ HandleOK(resumed) /\ resumed.mode = "resumed"
          /\ resumed.depth = Top.depth /\ resumed.start = Top.start
      BY <1>1, <2>1, <2>2, ResumedIs
    <3>2. QED
      BY <1>1, <3>1, MarkIs DEF Modes
  <2>3. CASE iter.position = Top.start
    <3>1. Top.mode = "fresh"
      BY <1>1, <1>3, <2>1, <2>3 DEF Rests
    <3>2. iter.depth = Top.depth
      BY <1>1, <2>1, <3>1 DEF Rests
    <3>3. Opened(open, iter, Top, "{", IsRoot)
      BY <1>1, <2>3, <3>2, StartContainerIs DEF open, IsRoot
    <3>4. CASE Failed(open)
      <4>1. Return(<<how, key>>, open, held, 0)
        BY <1>2, <1>7, <2>3, <3>4
      <4>2. Rests(open, Top, b) /\ IteratorOK(open)
        <5>1. CASE Sound(open) /\ InPlace(open, iter) /\ Unfailed(open, iter)
          BY <1>1, <5>1, RestsStill DEF IteratorOK, Unfailed
        <5>2. CASE /\ Sound(open) /\ open.position = Top.start + 1 /\ open.depth = 0
                   /\ open.error = "INCOMPLETE_ARRAY_OR_OBJECT"
          <6>1. open.error # "SUCCESS" /\ open.position >= Top.start
            BY <1>3, <5>2, OutsAre
          <6>2. QED
            BY <2>1, <3>1, <5>2, <6>1 DEF Rests, IteratorOK
        <5>3. QED
          BY <3>3, <3>4, <5>1, <5>2 DEF Opened, Begun, Failed
      <4>3. QED
        BY <1>1, <4>1, <4>2, ReturnKeeps DEF Top
    <3>5. CASE ~Failed(open)
      <4>1. Continue(c, open, s)
        BY <1>2, <1>7, <2>3, <3>5
      <4>2. Begun(open, iter, Top) /\ Token(Top.start) = "{"
        BY <3>3, <3>5, OutsAre DEF Opened, Failed
      <4>3. Level(Top) = Top.depth /\ ~IsArray(Top)
        BY <4>2 DEF Level, IsArray
      <4>4. /\ Sound(open) /\ open.alive /\ open.error = "SUCCESS"
            /\ open.position \in {Top.start + 1, Top.start + 2}
            /\ open.depth \in {Top.depth, Top.depth - 1}
            /\ open.position = Top.start + 1 => open.depth = Top.depth
        <5>1. Sound(open) /\ open.alive /\ open.error = "SUCCESS"
          BY <1>1, <4>2 DEF Begun, Unfailed
        <5>2. \/ open.position = Top.start + 1 /\ open.depth = Level(Top)
              \/ open.position = Top.start + 2 /\ open.depth = Top.depth - 1
          BY <4>2 DEF Begun
        <5>3. QED
          BY <1>3, <4>3, <5>1, <5>2
      <4>5. /\ IteratorOK(open) /\ open.position > Top.start /\ open.depth >= Top.depth - 1
        BY <1>3, <4>4 DEF IteratorOK
      <4>6. /\ resumed.mode = "resumed"
            /\ resumed.depth = Top.depth /\ resumed.start = Top.start
            /\ StackOK(s, root) /\ s[Len(s)] = resumed
        BY <2>2, <4>2
      <4> HIDE DEF s, resumed
      <4>7. QED
        BY <1>1, <4>1, <4>3, <4>4, <4>5, <4>6, <1>9, <1>10, LookUpKeeps
    <3>6. QED
      BY <3>4, <3>5
  <2>4. CASE iter.position # Top.start
    <3>1. Continue(c, in, s)
      BY <1>2, <1>5, <1>7, <2>4
    <3>2. Resumable(Top) /\ Fields(Top)
      BY <1>1, <2>1, <2>4 DEF Rests
    <3>3. Token(Top.start) = "{" /\ ~IsArray(Top)
      BY <1>1, <3>2 DEF HandleOK, IsArray
    <3>4. /\ in.position > Top.start /\ in.depth >= Top.depth - 1
          /\ in.position = Top.start + 1 => in.depth = Top.depth
      BY <1>1, <1>4, <3>2 DEF Rests, InPlace
    <3>5. /\ resumed.mode = "resumed"
          /\ resumed.depth = Top.depth /\ resumed.start = Top.start
          /\ StackOK(s, root) /\ s[Len(s)] = resumed
      BY <2>2, <3>3
    <3> HIDE DEF s, resumed
    <3>6. QED
      BY <1>1, <1>5, <3>1, <3>3, <3>4, <3>5, <1>9, <1>10, LookUpKeeps
  <2>5. QED
    BY <2>3, <2>4
<1>8. QED
  BY <1>6, <1>7

(* count_elements() and count_fields().                                     *)
LEMMA CountKeeps ==
  ASSUME OnDemandInv, StopsAtErrors, NEW open \in Openers, Count(open)
  PROVE  OnDemandInv'
<1>1. /\ doc \in Docs /\ Len(doc) \in Nat \ {0} /\ StackOK(held, root)
      /\ HandleOK(Top) /\ Point(Top)
      /\ IteratorOK(iter) /\ Sound(iter) /\ iter.alive /\ iter.error = "SUCCESS"
      /\ Rests(iter, Top, answer.asked[1] = "count")
  BY TurnIs DEF Count
<1> DEFINE st == StartContainer(iter, Top, open, IsRoot)
           in == Fresh(iter)
           it == IF Unread THEN st ELSE in
           back == MoveTo(it, Top.start, Top.depth)
           asked == <<"count", open>>
           c == Call("count", asked, <<>>)
           b == asked[1] = "count"
<1>2. IF Failed(it)
      THEN Return(asked, IF Top.kind = "value" THEN back ELSE it, held, 0)
      ELSE Continue(c, it, held)
  BY Zenon DEF Count
<1>11. ~Unread => IsContainer(Top) /\ Top.mode = "fresh"
  BY DEF Count, IsContainer
<1>3. /\ Top.depth \in Nat \ {0} /\ Top.start \in Nat \ {0}
      /\ iter.position \in Nat /\ iter.depth \in Nat
  BY <1>1, IteratorIs DEF Point
<1>4. /\ DOMAIN c = CallFields /\ c.op = "count" /\ c.isRoot \in BOOLEAN /\ c.path = <<>>
      /\ c.asked = asked /\ c.h.depth = Top.depth /\ c.h.start = Top.start
  BY CallOfIs
<1>5. b /\ c.asked[1] = "count"
  BY <1>4
<1>12. c.asked # <<"loop">> /\ c.path \in Seq(Steps)
  BY <1>4, PairIsNoLoop, NothingLeft, Zenon
<1> HIDE DEF c, asked
<1>6. /\ Point(c.h) /\ c.h.depth >= Top.depth /\ c.h.start >= Top.start
      /\ Level(c.h) = Level(Top)
  BY <1>3, <1>4 DEF Point, Level, IsArray
<1>7. ASSUME Continue(c, it, held), Top.mode = "fresh", Sound(it), it.alive,
             it.error = "SUCCESS", it.position > Top.start,
             it.depth \in {Level(Top), Top.depth - 1}
      PROVE  OnDemandInv'
  <2> HIDE DEF it
  <2>1. it.position \in Nat
    BY <1>7, IteratorIs
  <2>2. it.position >= c.h.start /\ it.position > c.h.start
        /\ it.depth \in {Level(c.h), c.h.depth - 1}
    BY <1>3, <1>4, <1>6, <1>7, <2>1
  <2>3. Runs(c, it, Top)
    BY <1>4, <1>5, <1>6, <1>7, <1>12, <2>2 DEF Runs
  <2>4. IteratorOK(it)
    BY <1>7 DEF IteratorOK
  <2>5. QED
    BY <1>1, <1>7, <2>3, <2>4, ContinueKeeps DEF Top
<1>8. CASE Unread
  <2>1. /\ Unopened(Top) /\ ~Resumable(Top)
        /\ iter.position = Top.start /\ iter.depth = Top.depth
    BY <1>8, UnreadIs DEF Count
  <2>2. ~IsContainer(Top) /\ Top.mode = "fresh" /\ ~Fields(Top)
    BY <2>1 DEF Resumable, Unopened, Fields, IsContainer
  <2>3. it = st
    BY <1>8
  <2>4. Opened(st, iter, Top, open, IsRoot)
    BY <1>1, <2>1, StartContainerIs DEF IsRoot
  <2> HIDE DEF st
  <2>5. Sound(it)
    BY <2>3, <2>4 DEF Opened, Begun
  <2>6. CASE Failed(it)
    <3>1. \/ InPlace(it, iter) /\ Unfailed(it, iter)
          \/ /\ it.position = Top.start + 1 /\ it.depth = 0
             /\ it.error = "INCOMPLETE_ARRAY_OR_OBJECT"
      BY <2>3, <2>4, <2>6 DEF Opened, Begun, Failed
    <3>2. IteratorOK(it)
      BY <1>1, <2>5, <3>1 DEF IteratorOK, Unfailed
    <3> HIDE DEF it
    <3>3. CASE Top.kind = "value"
      <4>1. Return(asked, back, held, 0)
        BY <1>2, <2>6, <3>3
      <4>2. /\ Sound(back) /\ back.position = Top.start /\ back.depth = Top.depth
            /\ Unfailed(back, it)
        BY <1>1, <2>5, BackIs
      <4> HIDE DEF back
      <4>3. IteratorOK(back) /\ back.position >= Top.start /\ back.depth >= Top.depth - 1
        BY <1>3, <3>2, <4>2 DEF IteratorOK, Unfailed
      <4>4. Rests(back, Top, b)
        BY <1>5, <2>1, <2>2, <3>3, <4>2, <4>3, Zenon DEF Rests
      <4>5. QED
        BY <1>1, <4>1, <4>3, <4>4, ReturnKeeps DEF Top
    <3>4. CASE Top.kind # "value"
      <4>1. Return(asked, it, held, 0)
        BY <1>2, <2>6, <3>4
      <4>2. CASE InPlace(it, iter) /\ Unfailed(it, iter)
        <5>1. Rests(it, Top, b)
          BY <1>1, <1>5, <4>2, RestsStill
        <5>2. QED
          BY <1>1, <3>2, <4>1, <5>1, ReturnKeeps DEF Top
      <4>3. CASE /\ it.position = Top.start + 1 /\ it.depth = 0
                 /\ it.error = "INCOMPLETE_ARRAY_OR_OBJECT"
        <5>1. it.position >= Top.start /\ it.error # "SUCCESS"
          BY <1>3, <4>3, OutsAre
        <5>2. Rests(it, Top, b)
          BY <2>1, <4>3, <5>1, Zenon DEF Rests
        <5>3. QED
          BY <1>1, <3>2, <4>1, <5>2, ReturnKeeps DEF Top
      <4>4. QED
        BY <3>1, <4>2, <4>3
    <3>5. QED
      BY <3>3, <3>4
  <2>7. CASE ~Failed(it)
    <3>1. Begun(it, iter, Top)
      BY <2>3, <2>4, <2>7, OutsAre DEF Opened, Failed
    <3>2. Continue(c, it, held)
      BY <1>2, <2>7
    <3> HIDE DEF it
    <3>3. /\ it.alive /\ it.error = "SUCCESS"
          /\ it.position \in {Top.start + 1, Top.start + 2}
          /\ it.depth \in {Level(Top), Top.depth - 1}
      BY <1>1, <3>1 DEF Begun, Unfailed
    <3>4. it.position > Top.start
      BY <1>3, <3>3
    <3>5. QED
      BY <1>7, <2>2, <2>5, <3>2, <3>3, <3>4 DEF it
  <2>8. QED
    BY <2>6, <2>7
<1>9. CASE ~Unread
  <2>1. it = in /\ IsContainer(Top) /\ Resumable(Top) /\ Top.mode = "fresh"
    BY <1>9, <1>11 DEF Resumable
  <2>2. Sound(in) /\ InPlace(in, iter) /\ Unfailed(in, iter) /\ in.out = "yes"
    BY <1>1, OutsAre, YieldIs DEF Fresh
  <2> HIDE DEF in
  <2>3. /\ iter.position > Top.start /\ iter.depth >= Top.depth - 1
        /\ iter.depth >= Top.depth => iter.depth = Level(Top)
    BY <1>1, <2>1 DEF Rests
  <2>4. iter.depth \in {Level(Top), Top.depth - 1}
    BY <1>3, <2>3
  <2>5. ~Failed(it)
    BY <2>1, <2>2 DEF Failed
  <2>6. Continue(c, it, held)
    BY <1>2, <2>5
  <2>7. /\ Sound(it) /\ it.alive /\ it.error = "SUCCESS" /\ it.position > Top.start
        /\ it.depth \in {Level(Top), Top.depth - 1}
    BY <1>1, <2>1, <2>2, <2>3, <2>4 DEF InPlace, Unfailed
  <2>8. QED
    BY <1>7, <2>1, <2>6, <2>7
<1>10. QED
  BY <1>8, <1>9
-----------------------------------------------------------------------------
(* The theorems *)

LEMMA InitHolds ==
  ASSUME Init
  PROVE  OnDemandInv
<1>1. doc \in Docs /\ root = 1 /\ held = <<Document(1)>> /\ call = Idle
      /\ answer.asked = <<"iterate">>
  BY DEF Init
<1>2. /\ iter \in Iterators /\ iter.faults = {} /\ iter.alive
      /\ iter.position = 1 /\ iter.depth = 1
  BY DEF Init, Iterators, Errors, Outs
<1>3. Sound(iter) /\ IteratorOK(iter)
  BY <1>2 DEF Sound, IteratorOK
<1>4. StackOK(held, root) /\ Top = Document(1)
  BY <1>1, DocumentIs DEF Top
<1>5. ASSUME NEW b \in BOOLEAN
      PROVE  Rests(iter, Document(1), b)
  BY <1>2, RestsAtDocument
<1>6. Rests(iter, Top, answer.asked[1] = "count")
  BY <1>4, <1>5
<1>7. QED
  BY <1>1, <1>3, <1>4, <1>6 DEF OnDemandInv

(* Every step of the user and of the library keeps the invariant.           *)
LEMMA StepKeeps ==
  ASSUME OnDemandInv, StopsAtErrors, [Next]_vars
  PROVE  OnDemandInv'
<1>1. CASE User
  <2>1. CASE GetValue
    BY <2>1, GetValueKeeps
  <2>2. CASE Drop
    BY <2>2, DropKeeps
  <2>3. CASE ResetContainer
    BY <2>3, ResetContainerKeeps
  <2>4. CASE RawJson
    BY <2>4, RawJsonKeeps
  <2>5. CASE Rewind
    BY <2>5, RewindKeeps
  <2>6. CASE NextDocument
    BY <2>6, NextDocumentKeeps
  <2>7. CASE BeginLoop
    BY <2>7, BeginLoopKeeps
  <2>8. CASE NextRound
    BY <2>8, NextRoundKeeps
  <2>9. CASE \E open \in Openers : GetContainer(open) \/ Count(open)
    BY <2>9, GetContainerKeeps, CountKeeps
  <2>10. CASE \E getter \in Getters : Scalar(getter)
    BY <2>10, ScalarKeeps
  <2>11. CASE \E key \in Keys : Find("find", key) \/ Find("find_unordered", key)
    BY <2>11, FindKeeps
  <2>12. CASE \E path \in Paths : AtPointer(path)
    BY <2>12, AtPointerKeeps
  <2>13. CASE \E index \in Range(Indexes) : At(index)
    BY <2>13, AtKeeps
  <2>14. QED
    BY <1>1, <2>1, <2>2, <2>3, <2>4, <2>5, <2>6, <2>7, <2>8, <2>9, <2>10, <2>11, <2>12,
       <2>13 DEF User
<1>2. CASE Library
  BY <1>2, DescendKeeps, EnterFieldKeeps, SearchFieldKeeps, SearchAgainKeeps,
     CountRoundKeeps, AtRoundKeeps DEF Library
<1>3. CASE UNCHANGED vars
  <2>1. /\ doc' = doc /\ padding' = padding /\ root' = root /\ iter' = iter
        /\ held' = held /\ call' = call /\ answer' = answer
    BY <1>3 DEF vars, input
  <2>2. IteratorOK(iter)' /\ StackOK(held, root)'
    BY <2>1 DEF OnDemandInv, IteratorOK, Sound, StackOK, HandleOK, TakenFrom, Fields,
                Resumable, IsContainer, Token, EndPosition
  <2>3. (call = Idle => Rests(iter, Top, answer.asked[1] = "count"))'
    BY <2>1 DEF OnDemandInv, Idle, Rests, Top, Fields, Resumable, Unopened, IsContainer,
                Level, IsArray, Token, EndPosition
  <2>4. (call # Idle => Runs(call, iter, Top))'
    BY <2>1 DEF OnDemandInv, Idle, Runs, Top, Fields, Resumable, IsContainer, Level,
                IsArray, Token, EndPosition
  <2>5. QED
    BY <2>1, <2>2, <2>3, <2>4 DEF OnDemandInv
<1>4. QED
  BY <1>1, <1>2, <1>3 DEF Next

(* Wherever the user is, the iterator is where the handles he holds expect  *)
(* it: not before the handle on top, at its depth or one above, and inside  *)
(* a container whose loop goes on; in a loop of the library it is where the *)
(* round needs it.                                                          *)
THEOREM OnDemandInvariant == StopsAtErrors => (Spec => []OnDemandInv)
<1>1. SUFFICES ASSUME StopsAtErrors
               PROVE  Spec => []OnDemandInv
  OBVIOUS
<1>2. Init => OnDemandInv
  BY InitHolds
<1>3. OnDemandInv /\ [Next]_vars => OnDemandInv'
  BY <1>1, StepKeeps
<1>4. QED
  BY <1>2, <1>3, PTL DEF Spec
-----------------------------------------------------------------------------
(* What a step of the library leads to: the call ends with an answer of its *)
(* own, or it goes on, with an iterator that was alive.                     *)
Ends == call' = Idle /\ answer'.asked = call.asked
Lasts == answer' = answer /\ iter.alive /\ Further
Goes == Ends \/ Lasts

LEMMA FailEnds ==
  ASSUME NEW it, NEW e, Fail(it, e) \/ GiveUp(it)
  PROVE  Ends
BY DEF Fail, GiveUp, Return, Ends

LEMMA FoundGoes ==
  ASSUME NEW it, Found(it), DOMAIN call = CallFields, iter.alive,
         call.op \in {"at", "field", "again"}
  PROVE  Goes
<1> DEFINE child == Child(it, call.h)
           at == Fresh(AssumeAtChild(it, call.h))
           p == [call EXCEPT !.op = "descend", !.h = child, !.isRoot = FALSE]
<1>1. \/ Return(call.asked, at, Push(held, "value", child), child.start)
      \/ Continue(p, at, held)
  BY DEF Found
<1>2. p.op = "descend" /\ p.path = call.path
  BY DEF CallFields
<1> HIDE DEF at, child, p
<1>3. CASE Return(call.asked, at, Push(held, "value", child), child.start)
  BY <1>3 DEF Return, Goes, Ends
<1>4. CASE Continue(p, at, held)
  <2>1. call' = p /\ answer' = answer
    BY <1>4 DEF Continue
  <2>2. Len(call'.path) = Len(call.path) /\ Phase[call'.op] > Phase[call.op]
    BY <1>2, <2>1 DEF Phase
  <2>3. QED
    BY <2>1, <2>2 DEF Goes, Lasts, Further
<1>5. QED
  BY <1>1, <1>3, <1>4

LEMMA SearchGoes ==
  ASSUME NEW it, NEW h, NEW first, NEW stop, Search(it, h, first, stop),
         DOMAIN call = CallFields, iter.alive, call.op \in {"enter", "field"},
         call.op = "field" => it.position > iter.position
  PROVE  Goes
<1> DEFINE f == [call EXCEPT !.op = "field", !.first = first, !.stop = stop]
           a == [call EXCEPT !.op = "again", !.stop = stop]
<1>1. \/ Fail(it, "NO_SUCH_FIELD")
      \/ Continue(f, it, held)
      \/ Continue(a, Reset(it, h), held)
  BY DEF Search
<1>2. f.op = "field" /\ f.path = call.path /\ a.op = "again" /\ a.path = call.path
  BY DEF CallFields
<1> HIDE DEF f, a
<1>3. CASE Fail(it, "NO_SUCH_FIELD")
  BY <1>3, FailEnds DEF Goes
<1>4. CASE Continue(f, it, held)
  <2>1. call' = f /\ answer' = answer /\ iter' = it
    BY <1>4 DEF Continue
  <2>2. Len(call'.path) = Len(call.path) /\ call'.op = "field"
    BY <1>2, <2>1
  <2>3. CASE call.op = "enter"
    <3>1. Phase[call'.op] > Phase[call.op]
      BY <2>2, <2>3 DEF Phase
    <3>2. QED
      BY <2>1, <2>2, <3>1 DEF Goes, Lasts, Further
  <2>4. CASE call.op = "field"
    <3>1. call'.op = call.op /\ iter'.position > iter.position
      BY <2>1, <2>2, <2>4
    <3>2. QED
      BY <2>1, <2>2, <3>1 DEF Goes, Lasts, Further
  <2>5. QED
    BY <2>3, <2>4
<1>5. CASE Continue(a, Reset(it, h), held)
  <2>1. call' = a /\ answer' = answer
    BY <1>5 DEF Continue
  <2>2. Len(call'.path) = Len(call.path) /\ Phase[call'.op] > Phase[call.op]
    BY <1>2, <2>1 DEF Phase
  <2>3. QED
    BY <2>1, <2>2 DEF Goes, Lasts, Further
<1>6. QED
  BY <1>1, <1>3, <1>4, <1>5

LEMMA EnterFieldGoes ==
  ASSUME OnDemandInv, EnterField
  PROVE  Goes
<1> DEFINE h == call.h
           it == Fresh(Assume(iter, iter.position > call.h.start))
           left == SkipChild(it, h)
           next == HasNext(left, h)
           r == Reset(it, h)
<1>1. call.op = "enter"
  BY DEF EnterField
<1>2. Runs(call, iter, Top) /\ (iter.error = "SUCCESS" => iter.alive)
  BY <1>1, CallIs
<1>3. iter.alive /\ DOMAIN call = CallFields
  BY <1>1, <1>2 DEF Runs
<1>4. \/ Search(it, h, TRUE, it.position)
      \/ Search(r, h, TRUE, it.position)
      \/ Fail(it, "NO_SUCH_FIELD")
      \/ GiveUp(left)
      \/ GiveUp(next)
      \/ Search(next, h, FALSE, left.position)
  BY DEF EnterField
<1> HIDE DEF h, it, left, next, r
<1>5. QED
  BY <1>1, <1>3, <1>4, FailEnds, SearchGoes DEF Goes

(* The way from a field to the next one leads forward. *)
LEMMA FieldsAdvance ==
  ASSUME Len(doc) \in Nat \ {0}, NEW it, Sound(it), it.alive, it.error = "SUCCESS",
         NEW h, Point(h), ~IsArray(h), it.position > h.start, it.depth = h.depth,
         NEW item, item = TakeItem(it, h), ~Failed(item),
         NEW left, left = SkipChild(item, h), ~Failed(left),
         NEW next, next = HasNext(left, h)
  PROVE  next.position > it.position
<1>1. /\ Sound(item) /\ item.alive /\ item.error = "SUCCESS" /\ item.position > h.start
      /\ item.position >= it.position /\ item.depth = h.depth + 1
  BY FieldIs
<1>2. item.depth >= h.depth
  BY <1>1, PointIs
<1>3. /\ Sound(left) /\ left.alive /\ left.error = "SUCCESS" /\ left.position > h.start
      /\ left.position >= item.position /\ left.depth = h.depth
  BY <1>1, <1>2, LeftIs
<1>4. next.position = left.position + 1
  BY <1>3, NextFieldIs
<1>5. it.position \in Nat /\ item.position \in Nat /\ left.position \in Nat
  BY <1>1, <1>3, IteratorIs
<1>6. QED
  BY <1>1, <1>3, <1>4, <1>5

(* Each round of a search, of counting and of at(), and each step of a      *)
(* pointer, ends the call or is a step forward.                             *)
LEMMA SearchFieldGoes ==
  ASSUME OnDemandInv, SearchField
  PROVE  Goes
<1> DEFINE h == call.h
           item == TakeItem(iter, h)
           left == SkipChild(item, h)
           next == HasNext(left, h)
<1>1. call.op = "field"
  BY DEF SearchField
<1>2. /\ Len(doc) \in Nat \ {0} /\ Point(h) /\ Sound(iter) /\ Runs(call, iter, Top)
      /\ iter.error = "SUCCESS" => iter.alive
  BY <1>1, CallIs
<1>3. /\ ~IsArray(h) /\ iter.error = "SUCCESS" /\ iter.alive /\ iter.position > h.start
      /\ iter.depth = h.depth /\ DOMAIN call = CallFields
  BY <1>1, <1>2 DEF Runs
<1>4. \/ GiveUp(item)
      \/ Found(item)
      \/ Fail(left, left.out)
      \/ GiveUp(next)
      \/ ~Failed(item) /\ ~Failed(left) /\ Search(next, h, call.first, call.stop)
  BY DEF SearchField
<1> HIDE DEF item, left, next
<1>5. CASE ~Failed(item) /\ ~Failed(left) /\ Search(next, h, call.first, call.stop)
  <2>1. next.position > iter.position
    BY <1>2, <1>3, <1>5, FieldsAdvance DEF item, left, next
  <2>2. QED
    BY <1>1, <1>3, <1>5, <2>1, SearchGoes
<1>6. CASE Found(item)
  BY <1>1, <1>3, <1>6, FoundGoes
<1>7. QED
  BY <1>4, <1>5, <1>6, FailEnds DEF Goes

LEMMA SearchAgainGoes ==
  ASSUME OnDemandInv, SearchAgain
  PROVE  Goes
<1> DEFINE h == call.h
           item == TakeItem(iter, h)
           left == SkipChild(item, h)
           next == HasNext(left, h)
           lost == Undefined(iter)
           astray == Undefined(left)
<1>1. call.op = "again"
  BY DEF SearchAgain
<1>2. /\ Len(doc) \in Nat \ {0} /\ Point(h) /\ Sound(iter) /\ Runs(call, iter, Top)
      /\ iter.error = "SUCCESS" => iter.alive
  BY <1>1, CallIs
<1>3. /\ ~IsArray(h) /\ iter.error = "SUCCESS" /\ iter.alive /\ iter.position > h.start
      /\ iter.out = "no" \/ iter.depth = h.depth
      /\ DOMAIN call = CallFields
  BY <1>1, <1>2 DEF Runs
<1>4. \/ GiveUp(lost)
      \/ Found(item)
      \/ Fail(left, left.out) \/ Fail(left, "NO_SUCH_FIELD")
      \/ GiveUp(astray)
      \/ iter.out # "no" /\ ~Failed(item) /\ ~Failed(left) /\ Continue(call, next, held)
  BY DEF SearchAgain
<1> HIDE DEF item, left, next, lost, astray
<1>5. CASE iter.out # "no" /\ ~Failed(item) /\ ~Failed(left) /\ Continue(call, next, held)
  <2>1. next.position > iter.position
    BY <1>2, <1>3, <1>5, FieldsAdvance DEF item, left, next
  <2>2. call' = call /\ answer' = answer /\ iter' = next
    BY <1>5 DEF Continue
  <2>3. QED
    BY <1>3, <2>1, <2>2 DEF Goes, Lasts, Further
<1>6. CASE Found(item)
  BY <1>1, <1>3, <1>6, FoundGoes
<1>7. QED
  BY <1>4, <1>5, <1>6, FailEnds DEF Goes

(* operator++ leads forward from an item, and stays outside a container     *)
(* that was given up.                                                       *)
LEMMA IncrementAdvances ==
  ASSUME Len(doc) \in Nat \ {0}, NEW it, Sound(it), NEW h, Point(h),
         it.position > h.start,
         it.error = "SUCCESS" => it.alive /\ it.depth = h.depth + 1,
         it.error # "SUCCESS" => it.depth = 0,
         NEW n, n = Increment(it, h)
  PROVE  n.position > it.position \/ n.depth < h.depth
<1> DEFINE skipped == SkipChild(it, h)
           quiet == IF IsArray(h) THEN it.error # "SUCCESS" ELSE ~(it.depth >= h.depth)
<1>1. it.position \in Nat /\ h.start \in Nat /\ h.depth \in Nat \ {0}
  BY IteratorIs, PointIs
<1>2. n = IF quiet THEN it ELSE IF Failed(skipped) THEN skipped ELSE HasNext(skipped, h)
  BY DEF Increment, IsOpen
<1>3. CASE it.error # "SUCCESS"
  <2>1. quiet /\ it.depth < h.depth
    BY <1>1, <1>3
  <2>2. QED
    BY <1>2, <2>1
<1>4. CASE it.error = "SUCCESS"
  <2>1. ~quiet /\ it.depth > h.depth /\ it.depth >= h.depth
    BY <1>1, <1>4
  <2>2. Skipped(skipped, it, h.depth) /\ skipped.position > it.position
    BY <1>4, <2>1, SkipChildIs
  <2>3. n = IF Failed(skipped) THEN skipped ELSE HasNext(skipped, h)
    BY <1>2, <2>1
  <2> HIDE DEF skipped, quiet
  <2>4. Sound(skipped) /\ (~Failed(skipped) => skipped.depth = h.depth)
    BY <2>2 DEF Skipped, Failed
  <2>5. skipped.position \in Nat /\ skipped.position > h.start
    BY <1>1, <2>2, <2>4, IteratorIs
  <2>6. CASE Failed(skipped)
    BY <2>2, <2>3, <2>6
  <2>7. CASE ~Failed(skipped)
    <3>1. Followed(n, skipped, h)
      BY <2>3, <2>4, <2>5, <2>7, HasNextIs
    <3>2. n.position = skipped.position + 1
      BY <3>1 DEF Followed
    <3>3. QED
      BY <1>1, <2>2, <2>5, <3>2
  <2>8. QED
    BY <2>6, <2>7
<1>5. QED
  BY <1>3, <1>4

(* So does a round of counting, or of at(). *)
LEMMA RoundGoes ==
  ASSUME OnDemandInv, call.op \in {"count", "at"}, iter.depth >= call.h.depth,
         NEW c, c = [call EXCEPT !.n = @ + 1],
         Continue(c, Increment(Dereference(iter, call.h), call.h), held)
  PROVE  Goes
<1> DEFINE h == call.h
           item == Dereference(iter, h)
           n == Increment(item, h)
<1>1. /\ Len(doc) \in Nat \ {0} /\ Point(h) /\ Sound(iter) /\ IteratorOK(iter)
      /\ Runs(call, iter, Top)
  BY CallIs
<1>2. /\ iter.position > h.start /\ (iter.alive \/ iter.depth = 0)
      /\ iter.error = "SUCCESS" => iter.depth \in {Level(h), h.depth - 1}
      /\ DOMAIN call = CallFields
  BY <1>1 DEF Runs
<1>3. iter.alive
  <2>1. h.depth \in Nat \ {0} /\ iter.depth \in Nat
    BY <1>1, PointIs, IteratorIs
  <2>2. QED
    BY <1>2, <2>1
<1>4. /\ Given(item, iter, h) /\ item.position > h.start
      /\ item.error = "SUCCESS" => item.alive /\ item.depth = h.depth + 1
  BY <1>1, <1>2, RoundIs
<1>5. call' = c /\ answer' = answer /\ iter' = n
  BY DEF Continue
<1> HIDE DEF item
<1>6. Sound(item) /\ item.position >= iter.position /\ (item.error # "SUCCESS" => item.depth = 0)
  BY <1>4 DEF Given, Taken
<1>7. n.position > item.position \/ n.depth < h.depth
  BY <1>1, <1>4, <1>6, IncrementAdvances
<1>8. Stepped(n, item, h)
  <2>1. item.error = "SUCCESS" => item.depth >= h.depth
    BY <1>1, <1>4, PointIs
  <2>2. item.alive \/ item.depth = 0
    BY <1>4, <1>6
  <2>3. QED
    BY <1>1, <1>4, <1>6, <2>1, <2>2, IncrementIs
<1> HIDE DEF n
<1>9. n.position > iter.position \/ ~(n.depth >= h.depth)
  <2>1. Sound(n)
    BY <1>8 DEF Stepped
  <2>2. /\ n.position \in Nat /\ n.depth \in Nat /\ item.position \in Nat
        /\ iter.position \in Nat /\ h.depth \in Nat
    BY <1>1, <1>6, <2>1, IteratorIs, PointIs
  <2>3. QED
    BY <1>6, <1>7, <2>2
<1>10. c.op = call.op /\ c.path = call.path
  BY <1>2 DEF CallFields
<1> HIDE DEF h
<1>11. QED
  BY <1>3, <1>5, <1>9, <1>10 DEF Goes, Lasts, Further, IsOpen, h

LEMMA CountRoundGoes ==
  ASSUME OnDemandInv, CountRound
  PROVE  Goes
<1>1. call.op = "count"
  BY DEF CountRound
<1>2. CASE IsOpen(iter, call.h)
  <2>1. iter.depth >= call.h.depth
    BY <1>2 DEF IsOpen
  <2>2. Continue([call EXCEPT !.n = @ + 1],
                 Increment(Dereference(iter, call.h), call.h), held)
    BY <1>2 DEF CountRound
  <2>3. QED
    BY <1>1, <2>1, <2>2, RoundGoes
<1>3. CASE ~IsOpen(iter, call.h)
  BY <1>3 DEF CountRound, Return, Goes, Ends
<1>4. QED
  BY <1>2, <1>3

LEMMA AtRoundGoes ==
  ASSUME OnDemandInv, AtRound
  PROVE  Goes
<1> DEFINE item == Dereference(iter, call.h)
           n == Increment(item, call.h)
           c == [call EXCEPT !.n = @ + 1]
<1>1. call.op = "at"
  BY DEF AtRound
<1>2. /\ Point(call.h) /\ Sound(iter) /\ Runs(call, iter, Top)
  BY <1>1, CallIs
<1>3. \/ Fail(iter, "INDEX_OUT_OF_BOUNDS")
      \/ /\ IsOpen(iter, call.h)
         /\ Continue(c, n, held) \/ Fail(item, item.out) \/ Found(item)
  BY DEF AtRound
<1> HIDE DEF item, n, c
<1>4. CASE Fail(iter, "INDEX_OUT_OF_BOUNDS") \/ Fail(item, item.out)
  BY <1>4, FailEnds DEF Goes
<1>5. CASE IsOpen(iter, call.h)
  <2>1. iter.depth >= call.h.depth
    BY <1>5 DEF IsOpen
  <2>2. iter.alive /\ DOMAIN call = CallFields
    <3>1. (iter.alive \/ iter.depth = 0) /\ DOMAIN call = CallFields
      BY <1>1, <1>2 DEF Runs
    <3>2. call.h.depth \in Nat \ {0} /\ iter.depth \in Nat
      BY <1>2, PointIs, IteratorIs
    <3>3. QED
      BY <2>1, <3>1, <3>2
  <2>3. CASE Continue(c, n, held)
    BY <1>1, <2>1, <2>3, RoundGoes DEF c, n, item
  <2>4. CASE Found(item)
    BY <1>1, <2>2, <2>4, FoundGoes
  <2>5. QED
    BY <1>3, <1>4, <1>5, <2>3, <2>4
<1>6. QED
  BY <1>3, <1>4, <1>5

LEMMA DescendGoes ==
  ASSUME OnDemandInv, Descend
  PROVE  Goes
<1> DEFINE open == Token(call.h.start)
           it == IF open \in Openers THEN StartContainer(iter, call.h, open, call.isRoot)
                 ELSE Fresh(iter)
<1>1. call.op = "descend"
  BY DEF Descend
<1>2. Runs(call, iter, Top) /\ (iter.error = "SUCCESS" => iter.alive)
  BY <1>1, CallIs
<1>3. /\ iter.alive /\ DOMAIN call = CallFields
      /\ call.path \in Seq(Steps) /\ call.path # <<>>
  BY <1>1, <1>2 DEF Runs
<1>4. \/ \E e \in {"TAPE_ERROR", "INVALID_JSON_POINTER", "INCORRECT_TYPE"} : Fail(it, e)
      \/ Fail(it, it.out)
      \/ \E op \in {"enter", "at"} : Enter(op, it)
  BY DEF Descend
<1> HIDE DEF it
<1>5. CASE \E op \in {"enter", "at"} : Enter(op, it)
  <2>1. PICK op \in {"enter", "at"} : Enter(op, it)
    BY <1>5
  <2> DEFINE c == [call EXCEPT !.op = op, !.key = Head(call.path), !.n = 0,
                               !.path = Tail(@)]
  <2>2. call' = c /\ answer' = answer
    BY <2>1 DEF Enter, Continue
  <2>3. c.path = Tail(call.path)
    BY <1>3 DEF CallFields
  <2> HIDE DEF c
  <2>4. Len(Tail(call.path)) < Len(call.path)
    BY <1>3
  <2>5. QED
    BY <1>3, <2>2, <2>3, <2>4 DEF Goes, Lasts, Further
<1>6. QED
  BY <1>4, <1>5, FailEnds DEF Goes
-----------------------------------------------------------------------------
(* The rounds of a user's loop, and the answers of everything else *)

LEMMA LibraryGoes ==
  ASSUME OnDemandInv, Library
  PROVE  Goes /\ call # Idle /\ Runs(call, iter, Top)
<1>1. Goes
  BY DescendGoes, EnterFieldGoes, SearchFieldGoes, SearchAgainGoes, CountRoundGoes,
     AtRoundGoes DEF Library
<1>2. call.op # "none"
  BY DEF Library, Descend, EnterField, SearchField, SearchAgain, CountRound, AtRound
<1>3. QED
  BY <1>1, <1>2, CallIs DEF Idle

(* What a round of a loop answers.                                          *)
LEMMA RoundAnswers ==
  ASSUME Len(doc) \in Nat \ {0}, Point(Top), NEW it, Sound(it), it.position > Top.start,
         it.error = "SUCCESS" => it.depth \in {Level(Top), Top.depth - 1}, Round(it)
  PROVE  /\ call' = Idle /\ answer'.asked = <<"loop">>
         /\ it.depth = 0 => answer'.out = "no"
         /\ answer'.out \notin {"yes", "no"} => ~iter'.alive
<1>1. Top.depth \in Nat \ {0} /\ it.depth \in Nat
  BY PointIs, IteratorIs
<1>2. CASE ~IsOpen(it, Top)
  <2> DEFINE n == Yield(it, "no")
  <2>1. n.out = "no"
    BY OutsAre, YieldIs
  <2>2. Return(<<"loop">>, n, Mark("used"), 0)
    BY <1>2 DEF Round
  <2> HIDE DEF n
  <2>3. QED
    BY <2>1, <2>2 DEF Return
<1>3. CASE IsOpen(it, Top)
  <2> DEFINE item == Dereference(it, Top)
  <2>1. it.depth >= Top.depth
    BY <1>3 DEF IsOpen
  <2>2. it.error = "SUCCESS" => it.depth = Level(Top)
    BY <1>1, <2>1
  <2>3. Given(item, it, Top)
    BY <2>2, DereferenceIs
  <2>4. \E s : Return(<<"loop">>, item, s, item.position)
    BY <1>3 DEF Round
  <2> HIDE DEF item
  <2>5. item.out \notin {"yes", "no"} => ~item.alive
    BY <2>3 DEF Given
  <2>6. it.depth # 0
    BY <1>1, <2>1
  <2>7. QED
    BY <2>4, <2>5, <2>6 DEF Return
<1>4. QED
  BY <1>2, <1>3

(* The same of the steps that are one.                                      *)
LEMMA LoopAnswers ==
  ASSUME OnDemandInv, StopsAtErrors, BeginLoop \/ NextRound
  PROVE  /\ call' = Idle /\ answer'.asked = <<"loop">>
         /\ ~iter.alive => answer'.out = "no"
         /\ answer'.out \notin {"yes", "no"} => ~iter'.alive
<1>1. CASE BeginLoop
  <2>1. /\ Len(doc) \in Nat \ {0} /\ Point(Top)
        /\ Sound(iter) /\ iter.alive /\ iter.error = "SUCCESS"
        /\ Rests(iter, Top, answer.asked[1] = "count")
    BY <1>1, TurnIs DEF BeginLoop
  <2>2. IsContainer(Top) /\ Resumable(Top) /\ Top.mode = "fresh"
    BY <1>1 DEF BeginLoop, IsContainer, Resumable
  <2>3. /\ iter.position > Top.start /\ iter.depth >= Top.depth - 1
        /\ iter.depth >= Top.depth => iter.depth = Level(Top)
    BY <2>1, <2>2 DEF Rests
  <2>4. iter.depth \in Nat /\ Top.depth \in Nat
    BY <2>1, IteratorIs, PointIs
  <2>5. iter.depth \in {Level(Top), Top.depth - 1}
    BY <2>3, <2>4
  <2>6. Round(iter)
    BY <1>1 DEF BeginLoop
  <2>7. QED
    BY <2>1, <2>3, <2>5, <2>6, RoundAnswers
<1>2. CASE NextRound
  <2>1. /\ doc \in Docs /\ StackOK(held, root) /\ IteratorOK(iter) /\ Sound(iter)
        /\ Rests(iter, Top, answer.asked[1] = "count") /\ Top.mode = "looping"
    BY <1>2 DEF NextRound, OnDemandInv, IteratorOK
  <2>2. Len(doc) \in Nat \ {0} /\ HandleOK(Top) /\ Point(Top)
    BY <2>1, OnDemandAssumption, TopIs, HandleIs DEF Point
  <2>3. IsContainer(Top) /\ Resumable(Top)
    BY <2>1, <2>2 DEF HandleOK, Resumable
  <2>4. /\ iter.position > Top.start
        /\ iter.error = "SUCCESS" => iter.alive /\ iter.depth >= Top.depth
        /\ iter.alive \/ iter.depth = 0
    BY <2>1, <2>3 DEF Rests, IteratorOK, IsContainer
  <2>5. /\ iter.position \in Nat /\ iter.depth \in Nat
        /\ Top.start \in Nat /\ Top.depth \in Nat \ {0}
    BY <2>1, <2>2, IteratorIs, PointIs
  <2> DEFINE n == Increment(iter, Top)
  <2>6. Stepped(n, iter, Top)
    BY <2>1, <2>2, <2>4, IncrementIs
  <2>7. Round(n)
    BY <1>2 DEF NextRound
  <2>8. ~iter.alive => n.depth = 0
    <3>1. SUFFICES ASSUME ~iter.alive
                   PROVE  n.depth = 0
      OBVIOUS
    <3>2. iter.depth = 0 /\ iter.error # "SUCCESS" /\ ~(iter.depth >= Top.depth)
      BY <2>4, <2>5, <3>1
    <3>3. n = iter
      BY <3>2 DEF Increment, IsOpen
    <3>4. QED
      BY <3>2, <3>3
  <2> HIDE DEF n
  <2>9. /\ Sound(n) /\ n.position >= iter.position
        /\ n.error = "SUCCESS" => n.depth \in {Level(Top), Top.depth - 1}
    BY <2>6 DEF Stepped
  <2>10. n.position > Top.start
    BY <2>4, <2>5, <2>9, IteratorIs
  <2>11. QED
    BY <2>2, <2>7, <2>8, <2>9, <2>10, RoundAnswers
<1>3. QED
  BY <1>1, <1>2

(* Whatever else the user asks for is no round of a loop. *)
Apart == answer'.asked # <<"loop">> \/ (answer' = answer /\ iter.alive)

LEMMA ReturnApart ==
  ASSUME NEW asked, NEW it, NEW s, NEW node, Return(asked, it, s, node), asked # <<"loop">>
  PROVE  Apart
BY DEF Return, Apart

LEMMA WordIsNoLoop ==
  ASSUME NEW w, w # "loop"
  PROVE  <<w>> # <<"loop">>
<1>1. <<w>>[1] = w /\ <<"loop">>[1] = "loop"
  OBVIOUS
<1>2. QED
  BY <1>1

(* All the other calls of the user answer for themselves.                   *)
LEMMA UserApart ==
  ASSUME OnDemandInv, StopsAtErrors, User, ~BeginLoop, ~NextRound
  PROVE  Apart
<1>1. CASE GetValue
  <2>1. \E it, s, node : Return(<<"get", "value">>, it, s, node)
    BY <1>1 DEF GetValue
  <2>2. QED
    BY <2>1, PairIsNoLoop, ReturnApart
<1>2. CASE Drop
  <2>1. \E it, s, node : Return(<<"drop">>, it, s, node)
    BY <1>2 DEF Drop
  <2>2. QED
    BY <2>1, WordIsNoLoop, ReturnApart
<1>3. CASE ResetContainer
  <2>1. \E it, s, node : Return(<<"reset">>, it, s, node)
    BY <1>3 DEF ResetContainer
  <2>2. QED
    BY <2>1, WordIsNoLoop, ReturnApart
<1>4. CASE RawJson
  <2>1. \E it, s, node : Return(<<"raw">>, it, s, node)
    BY <1>4 DEF RawJson
  <2>2. QED
    BY <2>1, WordIsNoLoop, ReturnApart
<1>5. CASE Rewind
  <2>1. \E it, s, node : Return(<<"rewind">>, it, s, node)
    BY <1>5 DEF Rewind
  <2>2. QED
    BY <2>1, WordIsNoLoop, ReturnApart
<1>6. CASE NextDocument
  <2>1. answer'.asked = <<"next">>
    BY <1>6 DEF NextDocument
  <2>2. QED
    BY <2>1, WordIsNoLoop DEF Apart
<1>7. ASSUME NEW open \in Openers, GetContainer(open)
      PROVE  Apart
  <2>1. \E it, s, node : Return(<<"get", open>>, it, s, node)
    BY <1>7 DEF GetContainer
  <2>2. QED
    BY <2>1, PairIsNoLoop, ReturnApart
<1>8. ASSUME NEW getter, Scalar(getter)
      PROVE  Apart
  <2>1. \E it, s, node : Return(<<"scalar", getter>>, it, s, node)
    BY <1>8 DEF Scalar
  <2>2. QED
    BY <2>1, PairIsNoLoop, ReturnApart
<1>9. ASSUME UserMay, NEW c, NEW it, NEW s, Continue(c, it, s)
      PROVE  Apart
  <2>1. iter.alive
    BY <1>9, TurnIs
  <2>2. QED
    BY <1>9, <2>1 DEF Continue, Apart
<1>10. ASSUME NEW open \in Openers, Count(open)
       PROVE  Apart
  <2>1. \/ \E it, s, node : Return(<<"count", open>>, it, s, node)
        \/ \E c, it, s : Continue(c, it, s)
    BY <1>10, Zenon DEF Count
  <2>2. UserMay
    BY <1>10 DEF Count
  <2>3. QED
    BY <1>9, <2>1, <2>2, PairIsNoLoop, ReturnApart
<1>11. ASSUME NEW how, NEW key, Find(how, key)
       PROVE  Apart
  <2>1. \/ \E it, s, node : Return(<<how, key>>, it, s, node)
        \/ \E c, it, s : Continue(c, it, s)
    BY <1>11, Zenon DEF Find
  <2>2. UserMay
    BY <1>11 DEF Find
  <2>3. QED
    BY <1>9, <2>1, <2>2, PairIsNoLoop, ReturnApart
<1>12. ASSUME NEW path, AtPointer(path)
       PROVE  Apart
  <2>1. UserMay /\ \E c, it, s : Continue(c, it, s)
    BY <1>12 DEF AtPointer
  <2>2. QED
    BY <1>9, <2>1
<1>13. ASSUME NEW index, At(index)
       PROVE  Apart
  <2>1. UserMay /\ \E c, it, s : Continue(c, it, s)
    BY <1>13 DEF At
  <2>2. QED
    BY <1>9, <2>1
<1>14. QED
  BY <1>1, <1>2, <1>3, <1>4, <1>5, <1>6, <1>7, <1>8, <1>10, <1>11, <1>12, <1>13 DEF User

(* The error a loop reported is the last answer until the user takes his    *)
(* next step, and until then the iterator is given up.                      *)
LoopInv == answer.asked = <<"loop">> /\ answer.out \notin {"yes", "no"}
             => call = Idle /\ ~iter.alive

(* A loop ends for good with its error.                                     *)
LEMMA LoopStep ==
  ASSUME OnDemandInv, LoopInv, StopsAtErrors, Next
  PROVE  /\ LoopInv'
         /\ answer'.asked = <<"loop">> =>
              /\ ~iter.alive => answer'.out = "no"
              /\ answer'.out \notin {"yes", "no"} => ~iter'.alive
<1>1. CASE BeginLoop \/ NextRound
  <2>1. /\ call' = Idle
        /\ ~iter.alive => answer'.out = "no"
        /\ answer'.out \notin {"yes", "no"} => ~iter'.alive
    BY <1>1, LoopAnswers
  <2>2. QED
    BY <2>1 DEF LoopInv, Idle
<1>2. CASE answer'.asked # <<"loop">>
  BY <1>2 DEF LoopInv
<1>3. CASE answer' = answer /\ iter.alive
  <2>1. answer.asked = <<"loop">> => answer.out \in {"yes", "no"}
    BY <1>3 DEF LoopInv
  <2>2. QED
    BY <1>3, <2>1 DEF LoopInv
<1>4. CASE User /\ ~BeginLoop /\ ~NextRound
  <2>1. Apart
    BY <1>4, UserApart
  <2>2. QED
    BY <1>2, <1>3, <2>1 DEF Apart
<1>5. CASE Library
  <2>1. Goes /\ Runs(call, iter, Top)
    BY <1>5, LibraryGoes
  <2>2. call.asked # <<"loop">>
    BY <2>1 DEF Runs
  <2>3. QED
    BY <1>2, <1>3, <2>1, <2>2 DEF Goes, Ends, Lasts
<1>6. QED
  BY <1>1, <1>4, <1>5 DEF Next

(* None of the SIMDJSON_ASSUMEs of the front end fails: not those of        *)
(* ascend_to() and descend_to(), of the values, arrays and objects, nor     *)
(* those of the getters, on whatever tokens stage 1 found, for a user who   *)
(* stops at errors.                                                         *)
THEOREM AssumptionsNeverFail == StopsAtErrors => (Spec => []AssumptionsHold)
<1>1. OnDemandInv => AssumptionsHold
  BY DEF OnDemandInv, IteratorOK, Sound, AssumptionsHold
<1>2. QED
  BY <1>1, OnDemandInvariant, PTL

(* Nothing asks for the parser after abandon() took it away, for a user who *)
(* stops at errors, or goes on with no more than the loops he is in.        *)
THEOREM DeadParserIsNotUsed == StopsAtErrors => (Spec => []NeverUsesDeadParser)
<1>1. OnDemandInv => NeverUsesDeadParser
  BY DEF OnDemandInv, IteratorOK, Sound, NeverUsesDeadParser
<1>2. QED
  BY <1>1, OnDemandInvariant, PTL

(* After a loop had to give up every loop around it ends at once, and       *)
(* reports no second error.                                                 *)
THEOREM LoopsEnd == StopsAtErrors => (Spec => LoopsEndAtErrors)
<1>1. SUFFICES ASSUME StopsAtErrors
               PROVE  Spec => LoopsEndAtErrors
  OBVIOUS
<1>2. Init => LoopInv
  <2>1. Init => answer = [asked |-> <<"iterate">>, out |-> "yes", node |-> 1]
    BY DEF Init
  <2>2. QED
    BY <2>1 DEF LoopInv
<1>3. OnDemandInv /\ LoopInv /\ [Next]_vars => LoopInv'
  <2>1. SUFFICES ASSUME OnDemandInv, LoopInv, [Next]_vars
                 PROVE  LoopInv'
    OBVIOUS
  <2>2. CASE UNCHANGED vars
    BY <2>1, <2>2 DEF vars, LoopInv, Idle
  <2>3. QED
    BY <1>1, <2>1, <2>2, LoopStep
<1>4. OnDemandInv /\ LoopInv /\ [Next]_vars =>
        [answer'.asked = <<"loop">> =>
           /\ ~iter.alive => answer'.out = "no"
           /\ answer'.out \notin {"yes", "no"} => ~iter'.alive]_vars
  BY <1>1, LoopStep
<1>5. Spec => []OnDemandInv
  BY <1>1, OnDemandInvariant
<1>6. QED
  BY <1>2, <1>3, <1>4, <1>5, PTL DEF Spec, LoopsEndAtErrors

(* Every loop of the library (find_field() and find_field_unordered(),      *)
(* count_elements() and count_fields(), at(), at_pointer()) is nearer to    *)
(* its end after every round.                                               *)
THEOREM LoopsAdvance == StopsAtErrors => (Spec => RoundsAdvance)
<1>1. OnDemandInv /\ [Next]_vars => [call # Idle /\ call' # Idle => Further]_vars
  <2>1. SUFFICES ASSUME OnDemandInv, Next, call # Idle, call' # Idle
                 PROVE  Further
    OBVIOUS
  <2>2. CASE Library
    <3>1. Goes
      BY <2>1, <2>2, LibraryGoes
    <3>2. QED
      BY <2>1, <3>1 DEF Goes, Ends, Lasts
  <2>3. ~User
    BY <2>1 DEF User, GetValue, Drop, ResetContainer, RawJson, Rewind, NextDocument,
                BeginLoop, NextRound, GetContainer, Count, Scalar, Find, AtPointer, At,
                UserMay
  <2>4. QED
    BY <2>1, <2>2, <2>3 DEF Next
<1>2. QED
  BY <1>1, OnDemandInvariant, PTL DEF Spec, RoundsAdvance
=============================================================================
