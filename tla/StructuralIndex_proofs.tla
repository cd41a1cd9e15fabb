----------------------- MODULE StructuralIndex_proofs -----------------------
(***************************************************************************)
(* Facts about stage 1 as a function, for windows of any length: which     *)
(* indexes it finds, and what finish() leaves of them; and about sequences *)
(* that list a set of offsets, as its indexes do.  Induction is by the     *)
(* smallest counterexample: the library's induction theorems have an       *)
(* operator as a parameter.                                                *)
(***************************************************************************)
EXTENDS StructuralIndex, FiniteSetTheorems, SequenceTheorems,
        WellFoundedInduction, TLAPS

(* A nonempty set of natural numbers has a smallest element. *)
LEMMA Smallest ==
  ASSUME NEW T \in SUBSET Nat, T # {}
  PROVE  \E x \in T : \A y \in T : x <= y
<1> DEFINE I == {0..n : n \in T}
<1>1. I # {}
  OBVIOUS
<1>2. I \subseteq FiniteSubsetsOf(Nat)
  <2>1. ASSUME NEW n \in T
        PROVE  0..n \subseteq Nat /\ IsFiniteSet(0..n)
    BY FS_Interval
  <2>2. QED
    BY <2>1 DEF FiniteSubsetsOf
<1>3. PICK i \in I : \A j \in I : ~ (<<j, i>> \in StrictSubsetOrdering(Nat))
  <2> HIDE DEF I
  <2>1. QED
    BY <1>1, <1>2, WFMin, FS_StrictSubsetOrderingWellFounded, Zenon
<1>4. PICK x \in T : i = 0..x
  BY <1>3
<1>5. ASSUME NEW y \in T, y < x
      PROVE  FALSE
  <2>1. 0..y \in I /\ 0..y \subseteq Nat /\ 0..x \subseteq Nat
    BY SMT
  <2>2. x \in 0..x /\ x \notin 0..y /\ 0..y \subseteq 0..x
    BY <1>5
  <2>3. <<0..y, 0..x>> \in StrictSubsetOrdering(Nat)
    BY <2>1, <2>2 DEF StrictSubsetOrdering
  <2>4. QED
    BY <2>1, <2>3, <1>3, <1>4
<1>6. QED
  BY <1>5, <1>4

(* A nonempty set of natural numbers with a bound has a largest. *)
LEMMA MaxOfBounded ==
  ASSUME NEW T \in SUBSET Nat, T # {}, NEW n \in Nat, \A y \in T : y <= n
  PROVE  Max(T) \in T /\ Max(T) \in 0..n /\ \A y \in T : Max(T) >= y
<1> DEFINE D == {n - y : y \in T}
<1>1. PICK d \in D : \A e \in D : d <= e
  <2>1. D \in SUBSET Nat /\ D # {}
    <3>1. \A y \in T : n - y \in Nat
      OBVIOUS
    <3>2. QED
      BY <3>1
  <2>2. QED
    BY <2>1, Smallest
<1>2. PICK x \in T : d = n - x
  BY <1>1
<1>3. \A y \in T : x >= y
  <2>1. SUFFICES ASSUME NEW y \in T
                 PROVE  x >= y
    OBVIOUS
  <2>2. n - y \in D
    OBVIOUS
  <2>3. n - x <= n - y
    BY <2>2, <1>1, <1>2
  <2>4. QED
    BY <2>3
<1>4. Max(T) \in T /\ \A y \in T : Max(T) >= y
  BY <1>3 DEF Max
<1>5. T \subseteq 0..n
  OBVIOUS
<1>6. QED
  BY <1>4, <1>5, Zenon

-----------------------------------------------------------------------------
(* The scan that Structurals writes as a recursive function. *)
Scan(w, f, i) ==
    IF i = 0 THEN <<>>
    ELSE f[i-1] \o (IF StructuralStart(w, i-1) THEN <<i-1>> ELSE <<>>)

(* There is one for a window of any length. *)
LEMMA ScanExists ==
  ASSUME NEW w
  PROVE  \A n \in Nat : \E f : f = [i \in 0..n |-> Scan(w, f, i)]
<1> DEFINE T == {n \in Nat : ~ \E f : f = [i \in 0..n |-> Scan(w, f, i)]}
<1>1. SUFFICES ASSUME T # {}
               PROVE  FALSE
  BY Zenon
<1>2. PICK n \in T : \A y \in T : n <= y
  <2> HIDE DEF T
  <2>1. T \in SUBSET Nat
    BY DEF T
  <2>2. QED
    BY <1>1, <2>1, Smallest
<1>3. CASE n = 0
  <2>1. [i \in 0..n |-> <<>>] = [i \in 0..n |-> Scan(w, [j \in 0..n |-> <<>>], i)]
    BY <1>3 DEF Scan
  <2>2. QED
    BY <2>1, <1>2
<1>4. CASE n # 0
  <2>1. n - 1 \in Nat
    BY <1>4, <1>2
  <2>2. n - 1 \notin T
    <3> HIDE DEF T
    <3>1. n \in Nat
      BY DEF T
    <3>2. QED
      BY <3>1, <1>2
  <2>3. PICK f : f = [i \in 0..n-1 |-> Scan(w, f, i)]
    BY <2>1, <2>2
  <2> DEFINE g == [i \in 0..n |-> IF i = n THEN Scan(w, f, n) ELSE f[i]]
  <2>4. ASSUME NEW i \in 0..n
        PROVE  Scan(w, g, i) = Scan(w, f, i)
    BY <2>1 DEF Scan
  <2>5. ASSUME NEW i \in 0..n-1
        PROVE  f[i] = Scan(w, f, i)
    BY <2>3
  <2>6. ASSUME NEW i \in 0..n
        PROVE  g[i] = Scan(w, g, i)
    <3>1. CASE i = n
      BY <3>1, <2>4
    <3>2. CASE i # n
      <4>1. i \in 0..n-1
        BY <3>2, <2>1
      <4>2. QED
        BY <3>2, <4>1, <2>4, <2>5
    <3>3. QED
      BY <3>1, <3>2
  <2>7. g = [i \in 0..n |-> Scan(w, g, i)]
    <3>1. g = [i \in 0..n |-> g[i]]
      OBVIOUS
    <3> HIDE DEF g
    <3>2. QED
      BY <3>1, <2>6
  <2>8. QED
    BY <2>7, <1>2
<1>5. QED
  BY <1>3, <1>4

(* What the scan has found in front of i: the starts, each once, in order.  *)
Found(w, s, i) ==
    /\ s \in Seq(Nat)
    /\ Len(s) <= i
    /\ \A k \in 1..Len(s) : s[k] < i /\ StructuralStart(w, s[k])
    /\ \A j, k \in 1..Len(s) : j < k => s[j] < s[k]
    /\ \A p \in 0..i-1 : StructuralStart(w, p) => \E k \in 1..Len(s) : s[k] = p

(* One more byte keeps that up. *)
LEMMA FoundGrows ==
  ASSUME NEW w, NEW s, NEW n \in Nat, Found(w, s, n)
  PROVE  Found(w, s \o (IF StructuralStart(w, n) THEN <<n>> ELSE <<>>), n + 1)
<1>1. s \in Seq(Nat) /\ Len(s) \in Nat /\ Len(s) <= n
  BY DEF Found
<1>2. CASE StructuralStart(w, n)
  <2> DEFINE t == s \o <<n>>
  <2>1. /\ t \in Seq(Nat)
        /\ Len(t) = Len(s) + 1
        /\ t[Len(s) + 1] = n
        /\ \A k \in 1..Len(s) : t[k] = s[k]
    BY <1>1
  <2> HIDE DEF t
  <2>2. Len(t) <= n + 1
    BY <1>1, <2>1
  <2>3. ASSUME NEW k \in 1..Len(t)
        PROVE  t[k] < n + 1 /\ StructuralStart(w, t[k])
    <3>1. CASE k = Len(s) + 1
      BY <3>1, <2>1, <1>2
    <3>2. CASE k # Len(s) + 1
      <4>1. k \in 1..Len(s)
        BY <3>2, <2>1, <1>1
      <4>2. s[k] \in Nat /\ s[k] < n /\ StructuralStart(w, s[k])
        BY <4>1, <1>1 DEF Found
      <4>3. QED
        BY <4>1, <4>2, <2>1
    <3>3. QED
      BY <3>1, <3>2
  <2>4. ASSUME NEW j \in 1..Len(t), NEW k \in 1..Len(t), j < k
        PROVE  t[j] < t[k]
    <3>1. j \in 1..Len(s) /\ t[j] = s[j] /\ s[j] < n
      <4>1. j \in 1..Len(s)
        BY <2>4, <2>1, <1>1
      <4>2. QED
        BY <4>1, <2>1 DEF Found
    <3>2. CASE k = Len(s) + 1
      BY <3>1, <3>2, <2>1
    <3>3. CASE k # Len(s) + 1
      <4>1. k \in 1..Len(s)
        BY <3>3, <2>1, <1>1
      <4>2. QED
        BY <4>1, <3>1, <2>1, <2>4 DEF Found
    <3>4. QED
      BY <3>2, <3>3
  <2>5. ASSUME NEW p \in 0..(n+1)-1, StructuralStart(w, p)
        PROVE  \E k \in 1..Len(t) : t[k] = p
    <3>1. CASE p = n
      <4>1. Len(s) + 1 \in 1..Len(t)
        BY <2>1, <1>1
      <4>2. QED
        BY <4>1, <2>1, <3>1
    <3>2. CASE p # n
      <4>1. p \in 0..n-1
        BY <3>2
      <4>2. PICK k \in 1..Len(s) : s[k] = p
        BY <4>1, <2>5 DEF Found
      <4>3. k \in 1..Len(t) /\ t[k] = p
        BY <4>2, <2>1, <1>1
      <4>4. QED
        BY <4>3
    <3>3. QED
      BY <3>1, <3>2
  <2>6. Found(w, t, n + 1)
    BY <2>1, <2>2, <2>3, <2>4, <2>5 DEF Found
  <2>7. QED
    BY <2>6, <1>2 DEF t
<1>3. CASE ~StructuralStart(w, n)
  <2>1. s \o <<>> = s
    BY <1>1
  <2>2. Found(w, s, n + 1)
    <3>1. \A k \in 1..Len(s) : s[k] < n + 1 /\ StructuralStart(w, s[k])
      <4>1. SUFFICES ASSUME NEW k \in 1..Len(s)
                     PROVE  s[k] < n + 1 /\ StructuralStart(w, s[k])
        OBVIOUS
      <4>2. s[k] \in Nat /\ s[k] < n /\ StructuralStart(w, s[k])
        BY <1>1 DEF Found
      <4>3. QED
        BY <4>2
    <3>2. \A p \in 0..(n+1)-1 : StructuralStart(w, p) => p \in 0..n-1
      BY <1>3
    <3>3. QED
      BY <1>1, <3>1, <3>2 DEF Found
  <2>3. QED
    BY <2>1, <2>2, <1>3
<1>4. QED
  BY <1>2, <1>3

(* The indexes of stage 1 are the structural starts of the window, in       *)
(* strictly increasing order, and no more than the window has bytes: the    *)
(* bound that structural_indexes is allocated by.                           *)
THEOREM IndexesAreTheStarts ==
  ASSUME NEW w, Len(w) \in Nat
  PROVE  Found(w, Structurals(w), Len(w))
<1> DEFINE F == CHOOSE f : f = [i \in 0..Len(w) |-> Scan(w, f, i)]
<1>1. F = [i \in 0..Len(w) |-> Scan(w, F, i)]
  BY ScanExists, Zenon
<1>2. Structurals(w) = F[Len(w)]
  BY DEF Structurals, Scan
<1> HIDE DEF F
<1> DEFINE T == {i \in 0..Len(w) : ~Found(w, F[i], i)}
<1>3. CASE T # {}
  <2>1. PICK n \in T : \A y \in T : n <= y
    <3> HIDE DEF T
    <3>1. T \in SUBSET Nat
      BY DEF T
    <3>2. QED
      BY <1>3, <3>1, Smallest
  <2>2. n \in 0..Len(w) /\ ~Found(w, F[n], n)
    BY <2>1
  <2>3. n # 0
    <3>1. CASE n = 0
      <4>1. F[n] = <<>>
        BY <3>1, <1>1 DEF Scan
      <4>2. Found(w, F[n], n)
        BY <3>1, <4>1 DEF Found
      <4>3. QED
        BY <4>2, <2>2
    <3>2. QED
      BY <3>1
  <2>4. n - 1 \in 0..Len(w) /\ Found(w, F[n-1], n - 1)
    <3> HIDE DEF T
    <3>1. n - 1 \in 0..Len(w)
      BY <2>2, <2>3
    <3>2. n - 1 \notin T
      BY <2>1, <2>2
    <3>3. QED
      BY <3>1, <3>2 DEF T
  <2>5. F[n] = F[n-1] \o (IF StructuralStart(w, n-1) THEN <<n-1>> ELSE <<>>)
    BY <2>2, <2>3, <1>1 DEF Scan
  <2>6. Found(w, F[n], n)
    BY <2>3, <2>4, <2>5, <2>2, FoundGrows
  <2>7. QED
    BY <2>6, <2>2
<1>4. CASE T = {}
  <2>1. Len(w) \in 0..Len(w)
    OBVIOUS
  <2>2. QED
    BY <1>2, <1>4, <2>1
<1>5. QED
  BY <1>3, <1>4
-----------------------------------------------------------------------------
(* find_next_document_index keeps all n indexes or fewer. *)
LEMMA CutsWithinIndexes ==
  ASSUME NEW w, NEW idx, NEW n \in Nat
  PROVE  /\ FindNextDocumentIndex(w, idx, n) \in 0..n
         /\ n > 0 /\ FindNextDocumentIndex(w, idx, n) # n
              => FindNextDocumentIndex(w, idx, n) < n
<1> DEFINE Token(k) == At(w, idx[k + 1])
           Boundary(k) == /\ Token(k) \notin {"}", "]", ":", ","}
                          /\ Token(k - 1) \notin {"{", "[", ":", ","}
           B == {0} \cup {k \in 1..n-1 : Boundary(k)}
<1>1. Max(B) \in 0..n
  <2>1. B \in SUBSET Nat /\ B # {} /\ \A y \in B : y <= n
    <3> HIDE DEF Boundary
    <3>1. QED
      OBVIOUS
  <2> HIDE DEF B
  <2>2. QED
    BY <2>1, MaxOfBounded, Zenon
<1>2. FindNextDocumentIndex(w, idx, n) \in {n, Max(B)}
  BY DEF FindNextDocumentIndex
<1> HIDE DEF B
<1>3. QED
  BY <1>1, <1>2

(* A parser of stage 1: a batch, and indexes with three sentinels.  Where   *)
(* stage 2 stands in them is not said.                                      *)
IndexedParser(p) ==
    /\ p = [buf |-> p.buf, len |-> p.len, idx |-> p.idx, n |-> p.n, next |-> p.next]
    /\ p.buf \in Nat
    /\ p.len \in Nat
    /\ p.n \in Nat
    /\ p.idx \in Seq(Nat)
    /\ p.n + 3 <= Len(p.idx)

Stage1Errors == {"SUCCESS", "EMPTY", "CAPACITY", "UTF8_ERROR"}

LEMMA NewParserIsIndexed ==
  ASSUME NEW old \in Nat
  PROVE  IndexedParser(NewParser(old))
<1>1. <<0, old, old>> \in Seq(Nat) /\ Len(<<0, old, old>>) = 3
  OBVIOUS
<1>2. QED
  BY <1>1 DEF NewParser, Indexed, IndexedParser

LEMMA IndexIsNat ==
  ASSUME NEW p, IndexedParser(p), NEW k \in 0..p.n+2
  PROVE  SI(p, k) \in Nat
<1>1. p.idx \in Seq(Nat) /\ p.n \in Nat /\ p.n + 3 <= Len(p.idx)
  BY DEF IndexedParser
<1> DEFINE idx == p.idx
<1>2. k + 1 \in 1..Len(idx)
  BY <1>1
<1>3. idx \in Seq(Nat)
  BY <1>1
<1>4. idx[k + 1] \in Nat
  <2> HIDE DEF idx
  <2>1. QED
    BY <1>2, <1>3
<1>5. QED
  BY <1>4 DEF SI

(* The first n indexes of a parser are the first starts of the window w, in *)
(* ascending order, and one more is there to read for the end of the batch, *)
(* behind them and no further than the window.                              *)
FirstStarts(p, w) ==
    /\ \A k \in 0..p.n-1 : /\ SI(p, k) = Structurals(w)[k + 1]
                            /\ StructuralStart(w, SI(p, k))
    /\ \A k \in 1..p.n : SI(p, k - 1) < SI(p, k)
    /\ SI(p, p.n) <= Len(w)

(* The same of the sequence itself. *)
LEMMA FirstStartsOfIndexes ==
  ASSUME NEW w, NEW p, Len(w) \in Nat, NEW f, Found(w, f, Len(w)), f = Structurals(w),
         p.n \in Nat, p.n <= Len(f),
         \A k \in 1..p.n : p.idx[k] = f[k],
         p.idx[p.n + 1] \in Nat, p.idx[p.n + 1] <= Len(w),
         p.n > 0 => f[p.n] < p.idx[p.n + 1]
  PROVE  FirstStarts(p, w)
<1>0. /\ f \in Seq(Nat) /\ Len(f) \in Nat
      /\ \A k \in 1..Len(f) : StructuralStart(w, f[k])
      /\ \A j, k \in 1..Len(f) : j < k => f[j] < f[k]
  BY DEF Found
<1>1. ASSUME NEW k \in 0..p.n-1
      PROVE  SI(p, k) = f[k + 1] /\ StructuralStart(w, SI(p, k))
  <2>1. k + 1 \in 1..p.n /\ k + 1 \in 1..Len(f)
    OBVIOUS
  <2>2. SI(p, k) = f[k + 1]
    BY <2>1 DEF SI
  <2>3. StructuralStart(w, f[k + 1])
    BY <1>0, <2>1
  <2>4. QED
    BY <2>2, <2>3
<1>2. ASSUME NEW k \in 1..p.n
      PROVE  SI(p, k - 1) < SI(p, k)
  <2>1. k \in 1..Len(f) /\ (k - 1) + 1 = k
    OBVIOUS
  <2>2. SI(p, k - 1) = f[k]
    BY <2>1 DEF SI
  <2>3. CASE k = p.n
    BY <2>2, <2>3 DEF SI
  <2>4. CASE k # p.n
    <3>1. k + 1 \in 1..p.n /\ k + 1 \in 1..Len(f) /\ k < k + 1
      BY <2>4
    <3>2. SI(p, k) = f[k + 1]
      BY <3>1 DEF SI
    <3>3. f[k] < f[k + 1]
      BY <1>0, <2>1, <3>1
    <3>4. QED
      BY <2>2, <3>2, <3>3
  <2>5. QED
    BY <2>3, <2>4
<1>3. SI(p, p.n) <= Len(w)
  BY DEF SI
<1>4. QED
  BY <1>1, <1>2, <1>3 DEF FirstStarts

(* Stage 1 of a stream leaves the indexes of the batch it was asked for,    *)
(* the first starts of its window whatever the parser held before, and a    *)
(* batch it reports as a success has at least one.  Only of a window        *)
(* without a whole character it leaves the old ones, with an error.         *)
THEOREM Stage1Indexes ==
  ASSUME NEW old, IndexedParser(old),
         NEW text \in Seq(STRING), NEW start \in Nat, NEW len \in Nat,
         len > 0, start + len <= Len(text),
         NEW mode \in {"streaming_final", "streaming_partial"},
         NEW r, r = Stage1(old, text, start, len, mode)
  PROVE  /\ IndexedParser(r.parser)
         /\ r.parser.buf = start
         /\ r.err \in Stage1Errors
         /\ r.err = "SUCCESS" => r.parser.n > 0
         /\ r.err # "UTF8_ERROR" =>
              FirstStarts(r.parser, Window(text, start, Trimmed(text, start, len)))
<1> DEFINE trim  == Trimmed(text, start, len)
           w     == Window(text, start, trim)
           found == Structurals(w)
<1>1. trim \in Nat /\ trim <= len /\ Len(w) = trim
  BY DEF Trimmed, Window
<1>2. found \in Seq(Nat) /\ Len(found) \in Nat /\ Len(found) <= trim
  <2> HIDE DEF w, trim
  <2>1. Found(w, found, Len(w))
    BY <1>1, IndexesAreTheStarts
  <2>2. QED
    BY <2>1, <1>1 DEF Found
<1>3. r = FinishWindow(old, text, start, len, mode, found)
  BY DEF Stage1
<1> DEFINE padded   == found \o <<trim, trim, 0>>
           kept     == IF UnclosedString(w) THEN Len(found) - 1 ELSE Len(found)
           complete == FindNextDocumentIndex(w, padded, kept)
           final    == [padded EXCEPT ![complete + 2] = padded[complete + 1],
                                      ![complete + 1] = trim]
           Leave(err, idx, n) ==
             [err |-> err, parser |-> Indexed(start, len, idx, n)]
<1>4. r = CASE trim = 0 ->
                 [err |-> "UTF8_ERROR",
                  parser |-> [old EXCEPT !.buf = start, !.len = len]]
            [] trim > 0 /\ found = <<>> -> Leave("EMPTY", padded, 0)
            [] found # <<>> /\ mode = "streaming_final" ->
                 Leave(IF complete = 0 THEN "EMPTY" ELSE "SUCCESS", final, complete)
            [] found # <<>> /\ mode = "streaming_partial" ->
                 IF complete > 0 THEN Leave("SUCCESS", padded, complete)
                 ELSE IF kept = 0 \/ padded[1] = 0 THEN Leave("CAPACITY", padded, kept)
                 ELSE Leave("EMPTY", padded, 0)
  BY <1>3 DEF FinishWindow
<1>5. padded \in Seq(Nat) /\ Len(padded) = Len(found) + 3
  <2>1. <<trim, trim, 0>> \in Seq(Nat) /\ Len(<<trim, trim, 0>>) = 3
    BY <1>1
  <2> HIDE DEF trim, found
  <2>2. QED
    BY <2>1, <1>2
<1>a. /\ \A k \in 1..Len(found) : padded[k] = found[k] /\ found[k] < trim
      /\ \A j, k \in 1..Len(found) : j < k => found[j] < found[k]
      /\ padded[Len(found) + 1] = trim
  <2>1. Found(w, found, Len(w))
    <3> HIDE DEF w, trim
    <3>1. QED
      BY <1>1, IndexesAreTheStarts
  <2> HIDE DEF w, trim, found
  <2>2. /\ \A k \in 1..Len(found) : found[k] < trim
        /\ \A j, k \in 1..Len(found) : j < k => found[j] < found[k]
    BY <2>1, <1>1, <1>2 DEF Found
  <2>3. \A k \in 1..Len(found) : padded[k] = found[k]
    BY <1>1, <1>2
  <2>4. padded[Len(found) + 1] = trim
    BY <1>1, <1>2
  <2>5. QED
    BY <2>2, <2>3, <2>4
<1>b. Len(w) \in Nat /\ Found(w, found, Len(w)) /\ found = Structurals(w)
  <2> HIDE DEF w, trim
  <2>1. QED
    BY <1>1, IndexesAreTheStarts
<1>d. w = Window(text, start, Trimmed(text, start, len))
  BY DEF w, trim
(* Kept in front of what follows the indexes kept, these are ascending. *)
<1> DEFINE Kept(idx, n) == /\ \A k \in 1..n : idx[k] = found[k]
                           /\ idx[n + 1] \in Nat /\ idx[n + 1] <= trim
                           /\ n > 0 => found[n] < idx[n + 1]
<1> HIDE DEF trim, w, found, padded, complete
<1>c. ASSUME NEW n \in Nat, n <= Len(found)
      PROVE  Kept(padded, n)
  <2>1. \A k \in 1..n : k \in 1..Len(found)
    BY <1>c, <1>2
  <2>2. CASE n = Len(found)
    <3>1. n > 0 => n \in 1..Len(found)
      BY <1>2, <2>2
    <3>2. QED
      BY <2>1, <2>2, <3>1, <1>1, <1>a
  <2>3. CASE n # Len(found)
    <3>1. n + 1 \in 1..Len(found) /\ n < n + 1 /\ (n > 0 => n \in 1..Len(found))
      BY <1>c, <1>2, <2>3
    <3>2. padded[n + 1] = found[n + 1] /\ found[n + 1] < trim /\ found[n + 1] \in Nat
      BY <3>1, <1>2, <1>a
    <3>3. n > 0 => found[n] < found[n + 1]
      BY <3>1, <1>a
    <3>4. QED
      BY <2>1, <3>2, <3>3, <1>1, <1>a
  <2>4. QED
    BY <2>2, <2>3
<1> HIDE DEF Kept
<1>6. ASSUME NEW err \in Stage1Errors, NEW idx, idx \in Seq(Nat),
             Len(idx) = Len(found) + 3, NEW n \in Nat, n <= Len(found),
             err = "SUCCESS" => n > 0, r = Leave(err, idx, n), Kept(idx, n)
      PROVE  /\ IndexedParser(r.parser)
             /\ r.parser.buf = start
             /\ r.err \in Stage1Errors
             /\ r.err = "SUCCESS" => r.parser.n > 0
             /\ FirstStarts(r.parser, w)
  <2>1. r.parser = [buf |-> start, len |-> len, idx |-> idx, n |-> n, next |-> 0]
    BY <1>6 DEF Indexed
  <2>2. r.err = err
    BY <1>6
  <2>3. n + 3 <= Len(idx)
    BY <1>6, <1>2
  <2> HIDE DEF Leave
  <2>4. IndexedParser(r.parser)
    BY <2>1, <2>3, <1>6 DEF IndexedParser
  <2>5. FirstStarts(r.parser, w)
    <3> DEFINE p == r.parser
    <3>1. p.n = n /\ p.idx = idx
      BY <2>1
    <3> HIDE DEF p
    <3>2. /\ \A k \in 1..p.n : p.idx[k] = found[k]
          /\ p.idx[p.n + 1] \in Nat /\ p.idx[p.n + 1] <= Len(w)
          /\ p.n > 0 => found[p.n] < p.idx[p.n + 1]
      BY <3>1, <1>6, <1>1 DEF Kept
    <3>3. FirstStarts(p, w)
      BY <3>1, <3>2, <1>6, <1>b, FirstStartsOfIndexes
    <3>4. QED
      BY <3>3 DEF p
  <2>6. QED
    BY <2>1, <2>2, <2>4, <2>5, <1>6
<1>7. CASE trim = 0
  <2>1. found = <<>>
    BY <1>7, <1>2
  <2>2. /\ r.err = "UTF8_ERROR"
        /\ r.parser = [old EXCEPT !.buf = start, !.len = len]
    BY <2>1, <1>7, <1>4
  <2>3. old = [buf |-> old.buf, len |-> old.len, idx |-> old.idx, n |-> old.n,
               next |-> old.next]
    BY DEF IndexedParser
  <2>4. r.parser = [buf |-> start, len |-> len, idx |-> old.idx, n |-> old.n,
                    next |-> old.next]
    BY <2>2, <2>3
  <2>5. QED
    BY <2>2, <2>4 DEF IndexedParser, Stage1Errors
<1>8. CASE trim > 0 /\ found = <<>>
  <2>1. r = Leave("EMPTY", padded, 0)
    BY <1>8, <1>4
  <2>2. QED
    BY <2>1, <1>5, <1>2, <1>6, <1>c, <1>d DEF Stage1Errors
<1>9. CASE trim > 0 /\ found # <<>>
  <2>1. kept \in Nat /\ kept <= Len(found) /\ complete \in 0..kept
    <3>1. Len(found) > 0
      BY <1>9, <1>2
    <3>2. kept \in Nat /\ kept <= Len(found)
      BY <3>1, <1>2
    <3> HIDE DEF kept
    <3>3. QED
      BY <3>2, CutsWithinIndexes DEF complete
  <2> HIDE DEF kept
  <2>2. CASE mode = "streaming_final"
    <3>1. r = Leave(IF complete = 0 THEN "EMPTY" ELSE "SUCCESS", final, complete)
      BY <2>2, <1>9, <1>4, <1>1
    <3>2. final \in Seq(Nat) /\ Len(final) = Len(found) + 3
      <4>1. complete + 1 \in 1..Len(padded) /\ padded[complete + 1] \in Nat
        BY <2>1, <1>5, <1>2
      <4> DEFINE one == [padded EXCEPT ![complete + 2] = padded[complete + 1]]
      <4>2. one \in Seq(Nat) /\ Len(one) = Len(padded)
        <5>1. complete + 2 \in 1..Len(padded)
          BY <2>1, <1>5, <1>2
        <5>2. QED
          BY <5>1, <4>1, <1>5, ExceptSeq
      <4>3. final = [one EXCEPT ![complete + 1] = trim]
        OBVIOUS
      <4> HIDE DEF one, final
      <4>4. complete + 1 \in 1..Len(one)
        BY <4>1, <4>2
      <4>5. QED
        BY <4>2, <4>3, <4>4, <1>5, <1>1, ExceptSeq
    <3>3. Kept(final, complete)
      <4>1. complete + 1 \in 1..Len(padded) /\ Len(padded) \in Nat
            /\ \A k \in 1..complete : k \in 1..Len(found)
        BY <2>1, <1>5, <1>2
      <4> DEFINE one == [padded EXCEPT ![complete + 2] = padded[complete + 1]]
      <4>a. /\ DOMAIN padded = 1..Len(padded) /\ DOMAIN one = 1..Len(padded)
            /\ final = [one EXCEPT ![complete + 1] = trim]
        BY <1>5
      <4>b. \A k \in 1..complete : k \in 1..Len(padded) /\ k # complete + 1 /\ k # complete + 2
        BY <4>1, <2>1
      <4>c. \A k \in 1..complete : one[k] = padded[k]
        BY <4>a, <4>b
      <4> HIDE DEF final, one
      <4>2. /\ final[complete + 1] = trim
            /\ \A k \in 1..complete : final[k] = padded[k]
        BY <4>1, <4>a, <4>b, <4>c
      <4>3. \A k \in 1..complete : final[k] = found[k] /\ found[k] < trim
        BY <4>1, <4>2, <1>a
      <4>4. complete > 0 => complete \in 1..complete
        BY <2>1
      <4>5. QED
        BY <4>2, <4>3, <4>4, <1>1 DEF Kept
    <3> HIDE DEF final
    <3> DEFINE err == IF complete = 0 THEN "EMPTY" ELSE "SUCCESS"
    <3>4. err \in Stage1Errors /\ (err = "SUCCESS" => complete > 0)
      BY <2>1 DEF Stage1Errors
    <3>5. complete \in Nat /\ complete <= Len(found)
      BY <2>1, <1>2
    <3> HIDE DEF err
    <3>6. QED
      BY <3>1, <3>2, <3>3, <3>4, <3>5, <1>6, <1>d DEF err
  <2>3. CASE mode = "streaming_partial"
    <3>1. r = IF complete > 0 THEN Leave("SUCCESS", padded, complete)
              ELSE IF kept = 0 \/ padded[1] = 0 THEN Leave("CAPACITY", padded, kept)
              ELSE Leave("EMPTY", padded, 0)
      BY <2>3, <1>9, <1>4, <1>1
    <3>2. CASE complete > 0
      <4>1. r = Leave("SUCCESS", padded, complete)
        BY <3>1, <3>2
      <4>2. complete \in Nat /\ complete <= Len(found)
        BY <2>1, <1>2
      <4>3. Kept(padded, complete)
        BY <4>2, <1>c
      <4>4. QED
        BY <3>2, <4>1, <4>2, <4>3, <1>5, <1>6, <1>d DEF Stage1Errors
    <3>3. CASE ~(complete > 0) /\ (kept = 0 \/ padded[1] = 0)
      <4>1. r = Leave("CAPACITY", padded, kept)
        BY <3>1, <3>3
      <4>2. QED
        BY <4>1, <2>1, <1>2, <1>5, <1>6, <1>c, <1>d DEF Stage1Errors
    <3>4. CASE ~(complete > 0) /\ ~(kept = 0 \/ padded[1] = 0)
      <4>1. r = Leave("EMPTY", padded, 0)
        BY <3>1, <3>4
      <4>2. QED
        BY <4>1, <1>2, <1>5, <1>6, <1>c, <1>d DEF Stage1Errors
    <3>5. QED
      BY <3>2, <3>3, <3>4
  <2>4. QED
    BY <2>2, <2>3
<1>10. QED
  BY <1>7, <1>8, <1>9, <1>1

-----------------------------------------------------------------------------
(* A function over 0..n that is defined by recursion exists; the step is a  *)
(* function itself.                                                         *)
Recursive(f, n, base, step) ==
    \A i \in 0..n : f[i] = IF i = 0 THEN base ELSE step[i-1][f[i-1]]

LEMMA Recursion ==
  ASSUME NEW S, NEW base \in S, NEW step,
         \A i \in Nat, x \in S : step[i][x] \in S
  PROVE  \A n \in Nat : \E f \in [0..n -> S] : Recursive(f, n, base, step)
<1> DEFINE Rec(f, n) == Recursive(f, n, base, step)
           T == {n \in Nat : ~ \E f \in [0..n -> S] : Rec(f, n)}
<1>1. SUFFICES ASSUME T # {}
               PROVE  FALSE
  BY Zenon
<1>2. PICK n \in T : \A y \in T : n <= y
  <2> HIDE DEF T
  <2>1. T \in SUBSET Nat
    BY DEF T
  <2>2. QED
    BY <1>1, <2>1, Smallest
<1>3. CASE n = 0
  <2>1. [i \in 0..0 |-> base] \in [0..n -> S]
    BY <1>3
  <2>2. Rec([i \in 0..0 |-> base], n)
    BY <1>3 DEF Recursive
  <2>3. QED
    BY <2>1, <2>2, <1>2, Zenon
<1>4. CASE n # 0
  <2>1. n - 1 \in Nat /\ n \in Nat
    BY <1>4, <1>2
  <2>2. n - 1 \notin T
    <3> HIDE DEF T
    <3>1. QED
      BY <2>1, <1>2
  <2>3. PICK f \in [0..n-1 -> S] : Rec(f, n-1)
    BY <2>1, <2>2, Zenon
  <2> DEFINE g == [i \in 0..n |-> IF i = n THEN step[n-1][f[n-1]] ELSE f[i]]
  <2>4. g \in [0..n -> S]
    BY <2>1, <2>3
  <2>5. Rec(g, n)
    BY <2>1, <2>3 DEF Recursive
  <2>6. QED
    BY <2>4, <2>5, <1>2, Zenon
<1>5. QED
  BY <1>3, <1>4

-----------------------------------------------------------------------------
(* The parity of the elements of a set below a number. *)
OddBelow(Q, i) == Cardinality({j \in 0..i-1 : j \in Q}) % 2 = 1

LEMMA OddBelowRule ==
  ASSUME NEW Q, NEW i \in Nat
  PROVE  /\ ~OddBelow(Q, 0)
         /\ OddBelow(Q, i+1) <=> ~(OddBelow(Q, i) <=> i \in Q)
<1> DEFINE B(k) == {j \in 0..k-1 : j \in Q}
<1>1. ~OddBelow(Q, 0)
  <2>1. {j \in 0..0-1 : j \in Q} = {}
    OBVIOUS
  <2>2. QED
    BY <2>1, FS_EmptySet DEF OddBelow
<1>2. IsFiniteSet(B(i)) /\ Cardinality(B(i)) \in Nat
  <2>1. IsFiniteSet(0..i-1) /\ B(i) \subseteq 0..i-1
    BY FS_Interval
  <2> HIDE DEF B
  <2>2. QED
    BY <2>1, FS_Subset, FS_CardinalityType
<1>3. CASE i \in Q
  <2>1. B(i+1) = B(i) \cup {i}
    BY <1>3
  <2>2. i \notin B(i)
    OBVIOUS
  <2> DEFINE n == Cardinality(B(i))
  <2> HIDE DEF B
  <2>3. Cardinality(B(i+1)) = n + 1
    BY <2>1, <2>2, <1>2, FS_AddElement
  <2>4. n \in Nat
    BY <1>2
  <2>5. OddBelow(Q, i) <=> n % 2 = 1
    BY DEF OddBelow, B
  <2>6. OddBelow(Q, i+1) <=> (n + 1) % 2 = 1
    BY <2>3 DEF OddBelow, B
  <2> HIDE DEF n
  <2>7. QED
    BY <2>4, <2>5, <2>6, <1>1, <1>3
<1>4. CASE i \notin Q
  <2>1. B(i+1) = B(i)
    BY <1>4
  <2>2. OddBelow(Q, i+1) <=> OddBelow(Q, i)
    BY <2>1 DEF OddBelow
  <2>3. QED
    BY <2>2, <1>1, <1>4
<1>5. QED
  BY <1>3, <1>4

LEMMA StringTailRule ==
  ASSUME NEW w, NEW i \in Nat
  PROVE  /\ ~StringTail(w, 0)
         /\ StringTail(w, i+1) <=> ~(StringTail(w, i) <=> At(w, i) = "q")
<1> DEFINE Q == {j \in Nat : At(w, j) = "q"}
<1>1. \A k \in Nat : StringTail(w, k) <=> OddBelow(Q, k)
  <2> TAKE k \in Nat
  <2>1. {j \in 0..k-1 : At(w, j) = "q"} = {j \in 0..k-1 : j \in Q}
    OBVIOUS
  <2>2. QED
    BY <2>1 DEF StringTail, QuotesBefore, OddBelow
<1>2. i \in Q <=> At(w, i) = "q"
  OBVIOUS
<1> HIDE DEF Q
<1>3. QED
  BY <1>1, <1>2, OddBelowRule

-----------------------------------------------------------------------------
(* A sequence that lists a set of offsets in order, none twice.             *)
Lists(s, T) == /\ s \in Seq(Nat)
               /\ \A k \in DOMAIN s : s[k] \in T
               /\ \A x \in T : \E k \in DOMAIN s : s[k] = x
               /\ \A j, k \in DOMAIN s : j < k => s[j] < s[k]

LEMMA ListsConcat ==
  ASSUME NEW s, NEW r, NEW S \in SUBSET Nat, NEW R \in SUBSET Nat, Lists(s, S), Lists(r, R),
         \A x \in S, y \in R : x < y
  PROVE  Lists(s \o r, S \cup R)
<1> DEFINE t == s \o r
<1>1. /\ s \in Seq(Nat) /\ r \in Seq(Nat) /\ Len(s) \in Nat /\ Len(r) \in Nat
      /\ DOMAIN s = 1..Len(s) /\ DOMAIN r = 1..Len(r)
  BY DEF Lists
<1>2. /\ t \in Seq(Nat) /\ Len(t) = Len(s) + Len(r) /\ DOMAIN t = 1..Len(t)
      /\ \A k \in 1..Len(s) : t[k] = s[k]
      /\ \A k \in 1..Len(r) : t[Len(s) + k] = r[k]
  BY <1>1
<1> HIDE DEF t
<1>3. ASSUME NEW k \in DOMAIN t
      PROVE  \/ k \in DOMAIN s /\ t[k] = s[k]
             \/ k > Len(s) /\ k - Len(s) \in DOMAIN r /\ t[k] = r[k - Len(s)]
  <2>1. CASE k <= Len(s)
    BY <2>1, <1>1, <1>2
  <2>2. CASE ~(k <= Len(s))
    <3>1. k - Len(s) \in 1..Len(r) /\ Len(s) + (k - Len(s)) = k /\ k > Len(s)
      BY <2>2, <1>1, <1>2
    <3>2. QED
      BY <3>1, <1>1, <1>2
  <2>3. QED
    BY <2>1, <2>2
<1>4. \A k \in DOMAIN t : t[k] \in S \cup R
  BY <1>3 DEF Lists
<1>5. ASSUME NEW x \in S \cup R
      PROVE  \E k \in DOMAIN t : t[k] = x
  <2>1. CASE x \in S
    <3>1. PICK k \in DOMAIN s : s[k] = x
      BY <2>1 DEF Lists
    <3>2. k \in DOMAIN t /\ t[k] = x
      BY <3>1, <1>1, <1>2
    <3>3. QED
      BY <3>2
  <2>2. CASE x \in R
    <3>1. PICK k \in DOMAIN r : r[k] = x
      BY <2>2 DEF Lists
    <3>2. Len(s) + k \in DOMAIN t /\ t[Len(s) + k] = x
      BY <3>1, <1>1, <1>2
    <3>3. QED
      BY <3>2
  <2>3. QED
    BY <2>1, <2>2
<1>6. ASSUME NEW j \in DOMAIN t, NEW k \in DOMAIN t, j < k
      PROVE  t[j] < t[k]
  <2>1. CASE k \in DOMAIN s /\ t[k] = s[k]
    <3>1. j \in DOMAIN s /\ t[j] = s[j]
      BY <2>1, <1>1, <1>2, <1>6
    <3>2. QED
      BY <3>1, <2>1, <1>6 DEF Lists
  <2>2. CASE k > Len(s) /\ k - Len(s) \in DOMAIN r /\ t[k] = r[k - Len(s)]
    <3>1. CASE j \in DOMAIN s /\ t[j] = s[j]
      BY <3>1, <2>2 DEF Lists
    <3>2. CASE j > Len(s) /\ j - Len(s) \in DOMAIN r /\ t[j] = r[j - Len(s)]
      <4>1. j - Len(s) < k - Len(s)
        BY <1>6, <1>1, <1>2
      <4>2. QED
        BY <4>1, <3>2, <2>2 DEF Lists
    <3>3. QED
      BY <3>1, <3>2, <1>3
  <2>3. QED
    BY <2>1, <2>2, <1>3
<1>7. QED
  BY <1>2, <1>4, <1>5, <1>6 DEF Lists, t

LEMMA ListsNone == Lists(<<>>, {})
  BY DEF Lists

LEMMA ListsOne ==
  ASSUME NEW n \in Nat
  PROVE  Lists(<<n>>, {n})
<1> DEFINE s == <<n>>
<1>1. s \in Seq(Nat) /\ Len(s) = 1 /\ DOMAIN s = {1} /\ s[1] = n
  OBVIOUS
<1> HIDE DEF s
<1>2. Lists(s, {n})
  BY <1>1 DEF Lists
<1>3. QED
  BY <1>2 DEF s

(* There is one list of a set.                                              *)
LEMMA ListsAgree ==
  ASSUME NEW s, NEW r, NEW T \in SUBSET Nat, Lists(s, T), Lists(r, T)
  PROVE  \A k \in DOMAIN s : k \in DOMAIN r /\ r[k] = s[k]
<1> DEFINE B == {k \in DOMAIN s : ~(k \in DOMAIN r /\ r[k] = s[k])}
<1>1. SUFFICES ASSUME B # {}
               PROVE  FALSE
  BY Zenon
<1>2. /\ s \in Seq(Nat) /\ r \in Seq(Nat) /\ Len(s) \in Nat /\ Len(r) \in Nat
      /\ DOMAIN s = 1..Len(s) /\ DOMAIN r = 1..Len(r)
  BY DEF Lists
<1>3. PICK k \in B : \A y \in B : k <= y
  <2>1. B \in SUBSET Nat
    BY <1>2
  <2> HIDE DEF B
  <2>2. QED
    BY <2>1, <1>1, Smallest
<1>4. k \in DOMAIN s /\ ~(k \in DOMAIN r /\ r[k] = s[k])
  BY <1>3
<1>5. \A i \in DOMAIN s : i < k => i \in DOMAIN r /\ r[i] = s[i]
  <2>1. ASSUME NEW i \in DOMAIN s, i < k
        PROVE  i \notin B
    <3> HIDE DEF B
    <3>1. i \in Nat /\ k \in Nat
      BY <1>2, <1>4
    <3>2. QED
      BY <2>1, <3>1, <1>3
  <2>2. QED
    BY <2>1
<1> HIDE DEF B
<1>6. PICK j \in DOMAIN r : r[j] = s[k]
  BY <1>4 DEF Lists
<1>7. s[k] \in Nat /\ \A i \in DOMAIN r : r[i] \in Nat /\ r[i] \in T
  BY <1>2, <1>4 DEF Lists
<1>8. ~(j < k)
  <2>1. SUFFICES ASSUME j < k
                 PROVE  FALSE
    OBVIOUS
  <2>2. j \in DOMAIN s
    BY <2>1, <1>2, <1>4
  <2>3. s[j] < s[k] /\ r[j] = s[j]
    BY <2>1, <2>2, <1>4, <1>5 DEF Lists
  <2>4. QED
    BY <2>3, <1>6, <1>7
<1>9. k \in DOMAIN r /\ k < j
  BY <1>2, <1>4, <1>6, <1>8
<1>10. r[k] < s[k] /\ r[k] \in T
  BY <1>9, <1>6, <1>7 DEF Lists
<1>11. PICK i \in DOMAIN s : s[i] = r[k]
  BY <1>10 DEF Lists
<1>12. i < k
  <2>1. SUFFICES ASSUME ~(i < k)
                 PROVE  FALSE
    OBVIOUS
  <2>2. i = k \/ k < i
    BY <2>1, <1>2, <1>4
  <2>3. ~(s[i] < s[k])
    <3>1. k < i => s[k] < s[i]
      BY <1>4 DEF Lists
    <3>2. s[i] \in Nat
      BY <1>2
    <3>3. QED
      BY <2>2, <3>1, <3>2, <1>7
  <2>4. QED
    BY <2>3, <1>10, <1>11
<1>13. i \in DOMAIN r /\ r[i] = r[k]
  BY <1>12, <1>5, <1>11
<1>14. r[i] < r[k]
  BY <1>12, <1>13, <1>9 DEF Lists
<1>15. QED
  BY <1>14, <1>13, <1>7, <1>9

LEMMA ListsUnique ==
  ASSUME NEW s, NEW r, NEW T \in SUBSET Nat, Lists(s, T), Lists(r, T)
  PROVE  s = r
<1>1. s \in Seq(Nat) /\ r \in Seq(Nat)
  BY DEF Lists
<1>2. \A k \in DOMAIN s : k \in DOMAIN r /\ r[k] = s[k]
  BY ListsAgree, Zenon
<1>3. \A k \in DOMAIN r : k \in DOMAIN s /\ s[k] = r[k]
  BY ListsAgree, Zenon
<1>4. DOMAIN s = DOMAIN r
  BY <1>2, <1>3, Zenon
<1>5. s = [k \in DOMAIN s |-> s[k]] /\ r = [k \in DOMAIN r |-> r[k]]
  BY <1>1
<1>6. QED
  BY <1>2, <1>4, <1>5, Zenon

LEMMA SeqByIndex ==
  ASSUME NEW V, NEW m \in Nat, NEW o \in [1..m -> V]
  PROVE  o \in Seq(V) /\ Len(o) = m /\ DOMAIN o = 1..m
<1>1. o \in UNION {[1..k -> V] : k \in Nat}
  BY Zenon
<1>2. o \in Seq(V)
  BY <1>1, SeqDef, Zenon
<1>3. Len(o) \in Nat /\ DOMAIN o = 1..Len(o) /\ DOMAIN o = 1..m
  BY <1>2, LenProperties
<1>4. Len(o) = m
  BY <1>3
<1>5. QED
  BY <1>2, <1>3, <1>4

IsConcat(c, a, b) ==
    /\ DOMAIN c = 1..(Len(a) + Len(b))
    /\ c = [k \in DOMAIN c |-> c[k]]
    /\ \A k \in 1..(Len(a) + Len(b)) : c[k] = IF k <= Len(a) THEN a[k] ELSE b[k - Len(a)]

LEMMA ConcatByIndex ==
  ASSUME NEW V, NEW a \in Seq(V), NEW b \in Seq(V)
  PROVE  IsConcat(a \o b, a, b)
<1>1. /\ Len(a) \in Nat /\ Len(b) \in Nat
      /\ a \o b \in Seq(V) /\ Len(a \o b) = Len(a) + Len(b)
      /\ \A k \in 1..(Len(a) + Len(b)) :
           (a \o b)[k] = IF k <= Len(a) THEN a[k] ELSE b[k - Len(a)]
  BY ConcatProperties, LenProperties
<1>2. a \o b \in [1..Len(a \o b) -> V] /\ DOMAIN (a \o b) = 1..Len(a \o b)
  BY <1>1, LenProperties
<1> DEFINE c == a \o b
<1> HIDE DEF c
<1>3. c = [k \in DOMAIN c |-> c[k]]
  BY <1>2 DEF c
<1>4. QED
  BY <1>1, <1>2, <1>3 DEF c, IsConcat

(* A list of offsets from a stretch of the text is not longer than that.    *)
LEMMA ListIsShort ==
  ASSUME NEW i \in Nat, NEW j \in Nat, i <= j, NEW T \in SUBSET (i..j-1), NEW s, Lists(s, T)
  PROVE  Len(s) <= j - i
<1>1. s \in Seq(Nat) /\ DOMAIN s = 1..Len(s) /\ Len(s) \in Nat
  BY DEF Lists
<1> DEFINE B == {k \in 1..Len(s) : ~(s[k] >= i + k - 1)}
<1>2. B = {}
  <2>1. SUFFICES ASSUME B # {}
                 PROVE  FALSE
    OBVIOUS
  <2>2. PICK k \in B : \A y \in B : k <= y
    <3>1. B \in SUBSET Nat
      OBVIOUS
    <3> HIDE DEF B
    <3>2. QED
      BY <3>1, <2>1, Smallest
  <2>3. k \in 1..Len(s) /\ ~(s[k] >= i + k - 1)
    BY <2>2
  <2>4. s[k] \in T
    BY <2>3, <1>1 DEF Lists
  <2>5. s[k] \in i..j-1
    BY <2>4
  <2>6. k # 1
    BY <2>3, <2>5
  <2>7. k - 1 \in 1..Len(s) /\ k - 1 < k
    BY <2>3, <2>6, <1>1
  <2>8. s[k-1] >= i + (k-1) - 1
    <3>1. k - 1 \notin B
      <4> HIDE DEF B
      <4>1. QED
        BY <2>2, <2>7, <2>3
    <3>2. QED
      BY <3>1, <2>7
  <2>9. s[k-1] < s[k] /\ s[k-1] \in Nat /\ s[k] \in Nat
    BY <2>7, <2>3, <1>1 DEF Lists
  <2>10. QED
    BY <2>8, <2>9, <2>3
<1>3. CASE Len(s) = 0
  BY <1>3
<1>4. CASE Len(s) # 0
  <2>1. Len(s) \in 1..Len(s) /\ Len(s) \notin B
    BY <1>1, <1>2, <1>4
  <2>2. s[Len(s)] >= i + Len(s) - 1
    BY <2>1
  <2>3. s[Len(s)] \in T
    BY <2>1, <1>1 DEF Lists
  <2>4. s[Len(s)] \in i..j-1
    BY <2>3
  <2>5. QED
    BY <2>2, <2>4, <1>1
<1>5. QED
  BY <1>3, <1>4

LEMMA MaxOfTwo ==
  ASSUME NEW a \in Nat, NEW b \in Nat
  PROVE  Max({a, b}) = IF a >= b THEN a ELSE b
<1>1. {a, b} \in SUBSET Nat /\ {a, b} # {}
  OBVIOUS
<1> DEFINE n == IF a >= b THEN a ELSE b
<1>2. n \in Nat /\ \A y \in {a, b} : y <= n
  OBVIOUS
<1>3. /\ Max({a, b}) \in {a, b}
      /\ \A y \in {a, b} : Max({a, b}) >= y
  <2> HIDE DEF n
  <2>1. QED
    BY <1>1, <1>2, MaxOfBounded
<1>4. QED
  BY <1>3

LEMMA MinOfTwo ==
  ASSUME NEW a \in Nat, NEW b \in Nat
  PROVE  Min({a, b}) = IF a <= b THEN a ELSE b
<1> DEFINE n == IF a <= b THEN a ELSE b
<1>1. n \in {a, b} /\ \A y \in {a, b} : n <= y
  OBVIOUS
<1>2. Min({a, b}) \in {a, b} /\ \A y \in {a, b} : Min({a, b}) <= y
  <2> HIDE DEF n
  <2>1. \E x \in {a, b} : \A y \in {a, b} : x <= y
    BY <1>1
  <2>2. QED
    BY <2>1, Zenon DEF Min
<1>3. QED
  BY <1>2

(* What the indexer has found, in the terms of StructuralIndex.             *)
LEMMA StructuralsList ==
  ASSUME NEW w, Len(w) \in Nat
  PROVE  Lists(Structurals(w), {j \in 0..Len(w)-1 : StructuralStart(w, j)})
<1> DEFINE s == Structurals(w)
           T == {j \in 0..Len(w)-1 : StructuralStart(w, j)}
<1>1. Found(w, s, Len(w))
  BY IndexesAreTheStarts
<1> HIDE DEF s
<1>2. s \in Seq(Nat) /\ DOMAIN s = 1..Len(s) /\ Len(s) \in Nat
  BY <1>1 DEF Found
<1>3. \A k \in 1..Len(s) : s[k] \in Nat
  BY <1>2
<1>4. \A k \in 1..Len(s) : s[k] \in T
  BY <1>1, <1>3 DEF Found
<1>5. \A x \in T : \E k \in 1..Len(s) : s[k] = x
  BY <1>1 DEF Found
<1>6. \A j, k \in 1..Len(s) : j < k => s[j] < s[k]
  BY <1>1 DEF Found
<1> HIDE DEF T
<1>7. Lists(s, T)
  BY <1>2, <1>4, <1>5, <1>6, Zenon DEF Lists
<1>8. QED
  BY <1>7 DEF s, T

(* A window that starts where the text does.                                *)
LEMMA WindowOfClasses ==
  ASSUME NEW c, NEW n \in Nat, c = [k \in 1..n |-> c[k]], NEW i \in 0..n
  PROVE  LET w == Window(c, 0, i)
         IN  /\ Len(w) = i
             /\ \A j \in 0..i-1 : At(w, j) = At(c, j)
             /\ \A j \in 0..i : StringTail(w, j) <=> StringTail(c, j)
             /\ \A j \in 0..i-1 : StructuralStart(w, j) <=> StructuralStart(c, j)
<1> DEFINE w == Window(c, 0, i)
<1>1. w = [k \in 1..i |-> c[k]]
  <2>1. w = [k \in 1..(0+i)-(0+1)+1 |-> c[(0+1)+k-1]]
    BY DEF Window
  <2>2. (0+i)-(0+1)+1 = i
    OBVIOUS
  <2>3. \A k \in 1..i : (0+1)+k-1 = k
    OBVIOUS
  <2>4. QED
    BY <2>1, <2>2, <2>3
<1> HIDE DEF w
<1>2. Len(w) = i /\ \A k \in 1..i : w[k] = c[k]
  <2>1. i \in Nat
    OBVIOUS
  <2>2. QED
    BY <2>1, <1>1
<1>3. \A j \in 0..i-1 : At(w, j) = At(c, j)
  <2>1. \A j \in 0..i-1 : j+1 \in 1..i
    OBVIOUS
  <2>2. QED
    BY <2>1, <1>2 DEF At
<1>4. \A j \in 0..i : StringTail(w, j) <=> StringTail(c, j)
  <2> SUFFICES ASSUME NEW j \in 0..i
               PROVE  StringTail(w, j) <=> StringTail(c, j)
    OBVIOUS
  <2>1. \A x \in 0..j-1 : At(w, x) = At(c, x)
    BY <1>3
  <2>2. {x \in 0..j-1 : At(w, x) = "q"} = {x \in 0..j-1 : At(c, x) = "q"}
    BY <2>1
  <2>3. QED
    BY <2>2, Zenon DEF StringTail, QuotesBefore
<1>5. \A j \in 0..i-1 : StructuralStart(w, j) <=> StructuralStart(c, j)
  <2> SUFFICES ASSUME NEW j \in 0..i-1
               PROVE  StructuralStart(w, j) <=> StructuralStart(c, j)
    OBVIOUS
  <2>1. j \in 0..i /\ (j > 0 => j-1 \in 0..i-1)
    OBVIOUS
  <2>2. At(w, j) = At(c, j) /\ (StringTail(w, j) <=> StringTail(c, j))
        /\ (j > 0 => At(w, j-1) = At(c, j-1))
    BY <2>1, <1>3, <1>4
  <2>3. FollowsScalar(w, j) <=> FollowsScalar(c, j)
    BY <2>2, Zenon DEF FollowsScalar
  <2>4. QED
    BY <2>2, <2>3, Zenon DEF StructuralStart
<1>6. QED
  BY <1>2, <1>3, <1>4, <1>5 DEF w

(* The search for the last document looks at the tokens only.               *)
LEMMA SameTokensSameCut ==
  ASSUME NEW c, NEW w, NEW found, NEW other, NEW n \in Nat,
         \A k \in 1..n : At(w, found[k]) = At(c, other[k])
  PROVE  FindNextDocumentIndex(w, found, n) = FindNextDocumentIndex(c, other, n)
<1> DEFINE Token(v, f, k) == At(v, f[k + 1])
           Pair(x, y) == y \notin {"}", "]", ":", ","} /\ x \notin {"{", "[", ":", ","}
           B(v, f) == {k \in 1..n-1 : Pair(Token(v, f, k-1), Token(v, f, k))}
           Swapped(v, f, k) == /\ Token(v, f, k) \notin {"}", "]", ":", ","}
                               /\ Token(v, f, k - 1) \notin {"{", "[", ":", ","}
           last(v, f) == Max({0} \cup B(v, f))
           Count(v, f, x) == Cardinality({k \in last(v, f)..n-1 : Token(v, f, k) = x})
           a == "["  b == "]"  d == "{"  e == "}"
<1>1. \A v, f : B(v, f) = {k \in 1..n-1 : Swapped(v, f, k)}
  BY Zenon
<1>2. \A k \in 0..n-1 : Token(w, found, k) = Token(c, other, k)
  <2>1. \A k \in 0..n-1 : k+1 \in 1..n
    OBVIOUS
  <2>2. QED
    BY <2>1
<1> HIDE DEF Pair
<1>3. \A v, f : FindNextDocumentIndex(v, f, n) =
        IF n = 0 \/ (Count(v, f, a) = Count(v, f, b) /\ Count(v, f, d) = Count(v, f, e))
        THEN n ELSE last(v, f)
  <2>1. ASSUME NEW v, NEW f
        PROVE  FindNextDocumentIndex(v, f, n) =
                 IF n = 0 \/ (Count(v, f, a) = Count(v, f, b) /\ Count(v, f, d) = Count(v, f, e))
                 THEN n ELSE last(v, f)
    <3>1. B(v, f) = {k \in 1..n-1 : Swapped(v, f, k)}
      BY <1>1, Zenon
    <3>2. last(v, f) = Max({0} \cup {k \in 1..n-1 : Swapped(v, f, k)})
      BY <3>1, Zenon
    <3> DEFINE L == Max({0} \cup {k \in 1..n-1 : Swapped(v, f, k)})
               C(x) == Cardinality({k \in L..n-1 : Token(v, f, k) = x})
    <3>3. FindNextDocumentIndex(v, f, n) =
            IF n = 0 \/ (C(a) = C(b) /\ C(d) = C(e)) THEN n ELSE L
      BY Zenon DEF FindNextDocumentIndex
    <3>4. \A x : C(x) = Count(v, f, x)
      <4>1. L = last(v, f)
        BY <3>2, Zenon
      <4> HIDE DEF L, last
      <4>2. QED
        BY <4>1, Zenon
    <3>5. L = last(v, f)
      BY <3>2, Zenon
    <3> HIDE DEF L, last, C, Count
    <3>6. QED
      BY <3>3, <3>4, <3>5, Zenon
  <2>2. QED
    BY <2>1, Zenon
<1>4. B(w, found) = B(c, other)
  <2>1. \A k \in 1..n-1 : k-1 \in 0..n-1 /\ k \in 0..n-1
    OBVIOUS
  <2> HIDE DEF Token
  <2>2. QED
    BY <2>1, <1>2, Zenon
<1>5. last(w, found) = last(c, other)
  BY <1>4, Zenon
<1>6. last(c, other) \in Nat
  <2>1. /\ {0} \cup B(c, other) \in SUBSET Nat /\ {0} \cup B(c, other) # {}
        /\ \A y \in {0} \cup B(c, other) : y <= n
    <3> HIDE DEF Token
    <3>1. QED
      OBVIOUS
  <2> DEFINE S == {0} \cup B(c, other)
  <2> HIDE DEF S
  <2>2. Max(S) \in S
    BY <2>1, MaxOfBounded DEF S
  <2>3. QED
    BY <2>1, <2>2 DEF S
<1>7. \A x : Count(w, found, x) = Count(c, other, x)
  <2>1. \A k \in last(c, other)..n-1 : k \in 0..n-1
    <3> HIDE DEF last
    <3>1. QED
      BY <1>6
  <2> HIDE DEF last, Token
  <2>2. \A x : {k \in last(c, other)..n-1 : Token(w, found, k) = x}
                = {k \in last(c, other)..n-1 : Token(c, other, k) = x}
    BY <2>1, <1>2, Zenon
  <2>3. QED
    BY <2>2, <1>5, Zenon
<1> HIDE DEF Count, last, a, b, d, e
<1>8. QED
  BY <1>3, <1>5, <1>7, Zenon

(* What lists a set begins with what lists the part of it below a bound.    *)
Below(R, T, i) == R \in SUBSET T /\ \A x \in T : x \in R <=> x < i
Begins(r, s) == Len(r) <= Len(s) /\ \A k \in DOMAIN r : s[k] = r[k]

LEMMA ListsBegin ==
  ASSUME NEW T \in SUBSET Nat, NEW i \in Nat, NEW s, Lists(s, T),
         NEW R, Below(R, T, i), NEW r, Lists(r, R)
  PROVE  Begins(r, s)
<1> SUFFICES Len(r) <= Len(s) /\ \A k \in DOMAIN r : s[k] = r[k]
  BY DEF Begins
<1> DEFINE B == {k \in DOMAIN r : ~(k \in DOMAIN s /\ s[k] = r[k])}
<1>0. /\ s \in Seq(Nat) /\ r \in Seq(Nat) /\ Len(s) \in Nat /\ Len(r) \in Nat
      /\ DOMAIN s = 1..Len(s) /\ DOMAIN r = 1..Len(r)
  BY DEF Lists
<1>1. SUFFICES ASSUME B # {}
               PROVE  FALSE
  <2>1. B = {} => \A k \in DOMAIN r : k \in DOMAIN s /\ s[k] = r[k]
    OBVIOUS
  <2> HIDE DEF B
  <2>2. ASSUME B = {}
        PROVE  Len(r) <= Len(s)
    <3>1. CASE Len(r) = 0
      BY <3>1, <1>0
    <3>2. CASE Len(r) # 0
      <4>1. Len(r) \in DOMAIN r
        BY <3>2, <1>0
      <4>2. Len(r) \in DOMAIN s
        BY <4>1, <2>1, <2>2
      <4>3. QED
        BY <4>2, <1>0
    <3>3. QED
      BY <3>1, <3>2
  <2>3. QED
    BY <2>1, <2>2
<1>2. PICK k \in B : \A y \in B : k <= y
  <2>1. B \in SUBSET Nat
    BY <1>0
  <2> HIDE DEF B
  <2>2. QED
    BY <2>1, <1>1, Smallest
<1>3. /\ k \in DOMAIN r /\ ~(k \in DOMAIN s /\ s[k] = r[k])
      /\ \A j \in DOMAIN r : j < k => j \in DOMAIN s /\ s[j] = r[j]
  <2>1. k \in DOMAIN r /\ ~(k \in DOMAIN s /\ s[k] = r[k])
    BY <1>2
  <2>2. \A j \in DOMAIN r : j < k => j \notin B
    <3> HIDE DEF B
    <3>1. \A j \in DOMAIN r : j < k => ~(k <= j)
      BY <2>1, <1>0
    <3>2. QED
      BY <3>1, <1>2
  <2>3. QED
    BY <2>1, <2>2
<1> HIDE DEF B
<1>4. r[k] \in T /\ r[k] \in Nat /\ r[k] < i
  BY <1>3, <1>0 DEF Lists, Below
<1>5. PICK m \in DOMAIN s : s[m] = r[k]
  BY <1>4 DEF Lists
<1>6. m \in Nat /\ k \in Nat
  BY <1>0, <1>3, <1>5
<1>7. CASE m < k
  <2>1. m \in DOMAIN r
    BY <1>7, <1>0, <1>3, <1>5
  <2>2. r[m] = r[k]
    BY <2>1, <1>3, <1>5, <1>7
  <2>3. r[m] < r[k] /\ r[k] \in Nat
    BY <2>1, <1>3, <1>4, <1>7 DEF Lists
  <2>4. QED
    BY <2>2, <2>3
<1>8. CASE m = k
  BY <1>8, <1>3, <1>5
<1>9. CASE k < m
  <2>1. k \in DOMAIN s
    BY <1>9, <1>0, <1>3, <1>5
  <2>2. s[k] < s[m] /\ s[k] \in T /\ s[k] \in Nat
    BY <2>1, <1>0, <1>5, <1>9 DEF Lists
  <2>3. s[k] \in R
    BY <2>2, <1>4, <1>5 DEF Below
  <2>4. PICK j \in DOMAIN r : r[j] = s[k]
    BY <2>3 DEF Lists
  <2>5. j \in Nat /\ r[j] < r[k]
    BY <2>2, <2>4, <1>0, <1>5
  <2>6. j < k
    <3>1. CASE j = k
      BY <3>1, <2>5, <1>4
    <3>2. CASE k < j
      <4>1. r[k] < r[j]
        BY <3>2, <1>3, <2>4 DEF Lists
      <4>2. r[j] \in Nat
        BY <2>4, <1>0
      <4>3. QED
        BY <4>1, <4>2, <2>5, <1>4
    <3>3. QED
      BY <3>1, <3>2, <2>5, <1>6
  <2>7. j \in DOMAIN s /\ s[j] = r[j]
    BY <2>4, <2>6, <1>3
  <2>8. s[j] < s[k]
    BY <2>1, <2>6, <2>7 DEF Lists
  <2>9. QED
    BY <2>2, <2>4, <2>7, <2>8
<1>10. QED
  BY <1>6, <1>7, <1>8, <1>9

LEMMA ListsPrefix ==
  ASSUME NEW s \in Seq(Nat), NEW r \in Seq(Nat), Begins(r, s), NEW more \in Seq(Nat)
  PROVE  IsPrefix(r, s \o more)
<1> DEFINE u == s \o more
<1>1. Len(s) \in Nat /\ Len(r) \in Nat /\ DOMAIN r = 1..Len(r)
  OBVIOUS
<1>2. Len(r) <= Len(s) /\ \A k \in DOMAIN r : s[k] = r[k]
  BY DEF Begins
<1>3. /\ u \in Seq(Nat) /\ Len(u) = Len(s) + Len(more) /\ Len(more) \in Nat
      /\ \A k \in 1..Len(s)+Len(more) : u[k] = IF k <= Len(s) THEN s[k] ELSE more[k-Len(s)]
  BY <1>1, ConcatProperties, LenProperties
<1> HIDE DEF u
<1>4. Len(r) <= Len(u)
  BY <1>1, <1>2, <1>3
<1>5. \A k \in 1..Len(r) : u[k] = r[k]
  <2>1. \A k \in 1..Len(r) : k \in 1..Len(s)+Len(more) /\ k <= Len(s)
    <3>1. \A x, y, z \in Nat : x <= y => \A k \in 1..x : k \in 1..y+z /\ k <= y
      OBVIOUS
    <3>2. QED
      BY <3>1, <1>1, <1>2, <1>3, Zenon
  <2>2. \A k \in 1..Len(r) : s[k] = r[k]
    BY <1>1, <1>2
  <2>3. QED
    BY <2>1, <2>2, <1>3, Zenon
<1>6. SubSeq(r, 1, Len(r)) = r
  BY <1>1, SubSeqFull
<1>7. SubSeq(u, 1, Len(r)) = r
  <2> DEFINE v == SubSeq(u, 1, Len(r))
  <2>1. \A k \in 1..Len(r) : u[k] \in Nat
    BY <1>1, <1>5
  <2>2. 1 \in Int /\ Len(r) \in Int
    BY <1>1
  <2>3. /\ v \in Seq(Nat)
        /\ Len(v) = IF 1 <= Len(r) THEN Len(r)-1+1 ELSE 0
        /\ \A k \in 1..Len(r)-1+1 : v[k] = u[1+k-1]
    BY <2>1, <2>2, SubSeqProperties
  <2> HIDE DEF v
  <2>4. Len(v) = Len(r)
    BY <2>3, <1>1
  <2>5. \A k \in 1..Len(r) : v[k] = r[k]
    <3>1. \A k \in 1..Len(r) : k \in 1..Len(r)-1+1 /\ 1+k-1 = k
      BY <1>1
    <3>2. QED
      BY <3>1, <2>3, <1>5, Zenon
  <2>6. v = r
    BY <2>3, <2>4, <2>5, <1>1, SeqEqual
  <2>7. QED
    BY <2>6 DEF v
<1>8. QED
  BY <1>4, <1>6, <1>7, Zenon DEF IsPrefix, u

LEMMA BeginsLonger ==
  ASSUME NEW r \in Seq(Nat), NEW l \in Seq(Nat), NEW x \in Nat, Begins(r, l)
  PROVE  Begins(r, Append(l, x))
<1>1. Len(Append(l, x)) = Len(l) + 1 /\ \A k \in 1..Len(l) : Append(l, x)[k] = l[k]
  OBVIOUS
<1>2. Len(r) \in Nat /\ Len(l) \in Nat /\ DOMAIN r = 1..Len(r)
  OBVIOUS
<1>3. QED
  BY <1>1, <1>2 DEF Begins
=============================================================================
