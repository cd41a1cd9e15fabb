---------------------------- MODULE Stage2_proofs ----------------------------
(***************************************************************************)
(* Proofs about stage 2.  First the walk, for inputs of any length, any    *)
(* max_depth and any padding.  Then what the arithmetic of NumberParsing   *)
(* does with integers that wrap, for every base and width in the relation  *)
(* NumberAssumption states; and the unescaping of a string, for any string *)
(* that is closed and windows of any size that fits the padding.           *)
(***************************************************************************)
EXTENDS WalkDocument, NumberParsing, StringParsing, SequenceTheorems, TLAPS

Entries == [type : Types, value : Nat, count : Nat]

Errors == {"SUCCESS", "EMPTY", "TAPE_ERROR", "STRING_ERROR", "DEPTH_ERROR",
           "MEMALLOC"}

Beginning == {"object_begin", "array_begin"}
Expecting == {"object_field", "array_value"}
Following == {"object_continue", "array_continue", "scope_end"}

(* The depth at each label: no container is open at the ends of a document. *)
Depths == /\ pc \in {"document_start", "document_end"} => depth = 0
          /\ pc \in Beginning => depth \in 0..MaxDepth-1
          /\ pc \in Expecting \cup Following => depth \in 1..MaxDepth-1

(* How far the tape may be ahead of the indexes read, label by label: a     *)
(* number takes a second word, but the separator behind it none.            *)
TapeBound == /\ start <= next
             /\ pc = "document_start" => start = next /\ tape = <<>>
             /\ pc \in Beginning => Len(tape) <= next - start
             /\ pc \in Expecting => Len(tape) <= (next - start) + 1
             /\ pc \in Following \cup {"document_end"}
                  => Len(tape) <= (next - start) + 2
             /\ Len(tape) <= (next - start) + 3

IInv == TypeOK /\ Depths /\ TapeBound

(* Changing an entry keeps a sequence of entries one of the same length.    *)
LEMMA ExceptEntry ==
  ASSUME NEW s \in Seq(Entries), NEW i, NEW e \in Entries
  PROVE  /\ [s EXCEPT ![i] = e] \in Seq(Entries)
         /\ Len([s EXCEPT ![i] = e]) = Len(s)
<1>1. CASE i \in 1..Len(s)
  BY <1>1, ExceptSeq
<1>2. CASE i \notin 1..Len(s)
  <2>1. [s EXCEPT ![i] = e] = s
    BY <1>2
  <2>2. QED
    BY <2>1
<1>3. QED
  BY <1>1, <1>2

LEMMA EntryType ==
  ASSUME NEW type \in Types, NEW value \in Nat, NEW count \in Nat
  PROVE  Entry(type, value, count) \in Entries
BY DEF Entry, Entries

(* What the dispatch on a value does to the tape and the position. *)
LEMMA ValueStep ==
  ASSUME NEW k \in Nat, NEW t \in Seq(Entries),
         NEW after \in {"array_continue", "object_continue", "document_end"},
         error \in Errors,
         Value(k, t, after)
  PROVE  /\ tape' \in Seq(Entries)
         /\ Len(tape') <= Len(t) + 2
         /\ next' \in {k + 1, k + 2}
         /\ pc' \in Beginning => Len(tape') = Len(t)
         /\ pc' \in Beginning \cup {"done", after}
         /\ error' \in Errors
<1>0. Len(t) \in Nat
  BY LenProperties
<1>1. CASE /\ Token(k) \in {"[", "{"}
           /\ Token(k + 1) = Closing(Token(k))
           /\ tape' = t \o EmptyContainer(Token(k), Len(t))
           /\ next' = k + 2
           /\ pc' = after
           /\ UNCHANGED error
  <2> DEFINE a == Entry(Token(k), Len(t) + 2, 0)
             b == Entry(Closing(Token(k)), Len(t), 0)
  <2>0. Token(k) \in Types /\ Closing(Token(k)) \in Types
    BY <1>1 DEF Types, Closing
  <2>1. a \in Entries /\ b \in Entries
    BY <1>0, <2>0, EntryType
  <2> HIDE DEF a, b
  <2>2. tape' = t \o <<a, b>>
    BY <1>1 DEF EmptyContainer, a, b
  <2>3. <<a, b>> \in Seq(Entries) /\ Len(<<a, b>>) = 2
    BY <2>1
  <2>4. tape' \in Seq(Entries) /\ Len(tape') = Len(t) + 2
    BY <2>2, <2>3, ConcatProperties
  <2>5. next' = k + 2 /\ pc' = after /\ error' = error
    BY <1>1
  <2>6. QED
    BY <1>0, <2>4, <2>5 DEF Beginning
<1>2. CASE /\ Token(k) \in {"[", "{"}
           /\ Token(k + 1) # Closing(Token(k))
           /\ tape' = t
           /\ next' = k + 1
           /\ pc' = IF Token(k) = "[" THEN "array_begin" ELSE "object_begin"
           /\ UNCHANGED error
  <2>1. /\ tape' = t /\ next' = k + 1 /\ error' = error
        /\ pc' = IF Token(k) = "[" THEN "array_begin" ELSE "object_begin"
    BY <1>2
  <2>2. QED
    BY <1>0, <2>1 DEF Beginning
<1>3. CASE /\ Token(k) \in Scalars
           /\ tape' = t \o ScalarEntries(k)
           /\ next' = k + 1
           /\ pc' = after
           /\ UNCHANGED error
  <2>1. /\ ScalarEntries(k) \in Seq(Entries)
        /\ Len(ScalarEntries(k)) \in 1..2
    <3>1. /\ Entry("d", 0, 0) \in Entries
          /\ Entry("word", k, 0) \in Entries
          /\ Entry("t", 0, 0) \in Entries
          /\ Entry("q", k, 0) \in Entries
      BY EntryType DEF Types
    <3>2. CASE Token(k) = "d"
      BY <3>1, <3>2 DEF ScalarEntries
    <3>3. CASE Token(k) # "d" /\ Token(k) = "t"
      BY <3>1, <3>3 DEF ScalarEntries
    <3>4. CASE Token(k) # "d" /\ Token(k) # "t"
      BY <3>1, <3>4 DEF ScalarEntries
    <3>5. QED
      BY <3>2, <3>3, <3>4
  <2>2. tape' \in Seq(Entries) /\ Len(tape') <= Len(t) + 2
    <3>1. tape' = t \o ScalarEntries(k)
      BY <1>3
    <3>2. /\ tape' \in Seq(Entries)
          /\ Len(tape') = Len(t) + Len(ScalarEntries(k))
      BY <2>1, <3>1, ConcatProperties
    <3>3. ASSUME NEW x \in Nat, NEW y \in 1..2
          PROVE  x + y <= x + 2
      OBVIOUS
    <3>4. Len(t) + Len(ScalarEntries(k)) <= Len(t) + 2
      BY <1>0, <2>1, <3>3
    <3>5. QED
      BY <3>2, <3>4
  <2>3. next' = k + 1 /\ pc' = after /\ error' = error
    BY <1>3
  <2>4. pc' \notin Beginning
    BY <2>3 DEF Beginning
  <2>5. QED
    BY <2>2, <2>3, <2>4
<1>4. CASE /\ Token(k) = "b"
           /\ tape' = Append(t, Entry("q", k, 0))
           /\ next' = k + 1
           /\ Fail("STRING_ERROR")
  <2>1. Entry("q", k, 0) \in Entries
    BY EntryType DEF Types
  <2>2. tape' \in Seq(Entries) /\ Len(tape') = Len(t) + 1
    BY <1>4, <2>1, AppendProperties
  <2>3. QED
    BY <1>0, <1>4, <2>2 DEF Fail, Beginning, Errors
<1>5. CASE /\ Token(k) \notin Scalars \cup {"b", "[", "{"}
           /\ tape' = t
           /\ next' = k + 1
           /\ Fail("TAPE_ERROR")
  <2>1. tape' = t /\ next' = k + 1 /\ pc' = "done" /\ error' = "TAPE_ERROR"
    BY <1>5 DEF Fail
  <2>2. QED
    BY <1>0, <2>1 DEF Beginning, Errors
<1>6. QED
  BY <1>1, <1>2, <1>3, <1>4, <1>5 DEF Value

LEMMA KeyStep ==
  ASSUME NEW k \in Nat, NEW t \in Seq(Entries), error \in Errors, Key(k, t)
  PROVE  /\ tape' \in Seq(Entries)
         /\ Len(tape') <= Len(t) + 1
         /\ next' = k + 1
         /\ pc' \in {"object_field", "done"}
         /\ error' \in Errors
<1>1. Len(t) \in Nat
  BY LenProperties
<1>2. Entry("q", k, 0) \in Entries
  BY EntryType DEF Types
<1>3. tape' \in {t, Append(t, Entry("q", k, 0))}
  BY DEF Key
<1>4. tape' \in Seq(Entries) /\ Len(tape') <= Len(t) + 1
  BY <1>1, <1>2, <1>3, AppendProperties
<1>5. next' = k + 1
  BY DEF Key
<1>6. pc' \in {"object_field", "done"} /\ error' \in Errors
  BY DEF Key, Fail, Errors
<1>7. QED
  BY <1>4, <1>5, <1>6

LEMMA EndStep ==
  ASSUME NEW open \in Types, Closing(open) \in Types,
         TypeOK, depth \in Levels, EndContainer(open)
  PROVE  tape' \in Seq(Entries) /\ Len(tape') = Len(tape) + 1
<1> DEFINE c == open_containers[depth]
           e == Entry(Closing(open), c.tape_index, 0)
           saturated == IF c.count > CountMax THEN CountMax ELSE c.count
           s == Entry(open, Len(tape) + 1, saturated)
<1>0. tape \in Seq(Entries)
  BY DEF TypeOK, Entries
<1>1. Len(tape) \in Nat
  BY <1>0, LenProperties
<1>2. c.tape_index \in Nat /\ c.count \in Nat
  BY DEF TypeOK
<1>3. e \in Entries
  BY <1>2, EntryType
<1>4. s \in Entries
  <2>1. saturated \in Nat
    BY <1>2, WalkAssumption
  <2>2. Len(tape) + 1 \in Nat
    BY <1>1
  <2> HIDE DEF saturated
  <2>3. QED
    BY <2>1, <2>2, EntryType
<1>5. tape' = [Append(tape, e) EXCEPT ![c.tape_index + 1] = s]
  BY DEF EndContainer
<1> HIDE DEF e, s, c, saturated
<1>6. Append(tape, e) \in Seq(Entries) /\ Len(Append(tape, e)) = Len(tape) + 1
  BY <1>0, <1>1, <1>3, AppendProperties
<1>7. QED
  BY <1>4, <1>5, <1>6, ExceptEntry

(* The count of the innermost container goes up by one. *)
LEMMA IncrementStep ==
  ASSUME TypeOK, Increment
  PROVE  open_containers' \in [Levels -> [tape_index : Nat, count : Nat]]
<1> DEFINE Containers == [tape_index : Nat, count : Nat]
<1>1. open_containers \in [Levels -> Containers]
  BY DEF TypeOK
<1>2. CASE depth \in Levels
  <2> DEFINE c == open_containers[depth]
  <2>1. c \in Containers /\ c.count \in Nat
    BY <1>1, <1>2
  <2>2. [c EXCEPT !.count = c.count + 1] \in Containers
    BY <2>1
  <2>3. open_containers' =
          [open_containers EXCEPT ![depth] = [c EXCEPT !.count = c.count + 1]]
    BY DEF Increment
  <2>4. QED
    BY <1>1, <1>2, <2>2, <2>3
<1>3. CASE depth \notin Levels
  <2>1. open_containers' = open_containers
    BY <1>1, <1>3 DEF Increment
  <2>2. QED
    BY <1>1, <2>1
<1>4. QED
  BY <1>2, <1>3

(* start_container() puts a position of the tape on the stack. *)
LEMMA OpenedStep ==
  ASSUME TypeOK, NEW level, NEW count \in Nat,
         open_containers' = [open_containers EXCEPT ![level] = Opened(count)]
  PROVE  open_containers' \in [Levels -> [tape_index : Nat, count : Nat]]
<1>1. Len(tape) \in Nat
  BY LenProperties DEF TypeOK
<1>2. Opened(count) \in [tape_index : Nat, count : Nat]
  BY <1>1 DEF Opened
<1>3. QED
  BY <1>2 DEF TypeOK

(* Both labels that expect a value leave the dispatch in the invariant. *)
LEMMA ValueCase ==
  ASSUME IInv, pc \in Expecting, NEW k \in {next, next + 1},
         NEW after \in {"array_continue", "object_continue"},
         Value(k, tape, after),
         UNCHANGED <<input, depth, is_array, open_containers>>
  PROVE  IInv'
<1>0. /\ tape \in Seq(Entries) /\ Len(tape) \in Nat
      /\ error \in Errors /\ next \in Nat /\ start \in Nat /\ k \in Nat
  BY LenProperties DEF IInv, TypeOK, Entries, Errors
<1>1. /\ tape' \in Seq(Entries)
      /\ Len(tape') <= Len(tape) + 2
      /\ next' \in {k + 1, k + 2}
      /\ pc' \in Beginning => Len(tape') = Len(tape)
      /\ pc' \in Beginning \cup {"done", after}
      /\ error' \in Errors
  BY <1>0, ValueStep
<1>2. TypeOK'
  BY <1>0, <1>1
  DEF IInv, TypeOK, Entries, Errors, Labels, Beginning, input, batch
<1>3. Len(tape') \in Nat
  BY <1>1, LenProperties
<1>4. start' = start /\ depth' = depth
  BY DEF input, batch
<1>5. /\ start <= next /\ Len(tape) <= (next - start) + 1
      /\ depth \in 1..MaxDepth-1
  BY DEF IInv, Depths, TapeBound, Expecting
<1>6. /\ start <= next'
      /\ Len(tape') <= (next' - start) + 2
      /\ Len(tape') = Len(tape) => Len(tape') <= next' - start
  BY <1>0, <1>1, <1>3, <1>5
<1>7. Depths'
  BY <1>1, <1>4, <1>5 DEF Depths, Beginning, Expecting, Following
<1>8. TapeBound'
  BY <1>0, <1>1, <1>3, <1>4, <1>6
  DEF TapeBound, Beginning, Expecting, Following
<1>9. QED
  BY <1>2, <1>7, <1>8 DEF IInv

LEMMA InitIInv == Init => IInv
<1> SUFFICES ASSUME Init
             PROVE  IInv
  OBVIOUS
<1>1. /\ Len(tape) = 0 /\ tape \in Seq(Entries) /\ tape = <<>>
      /\ start = 0 /\ next = 0 /\ depth = 0 /\ pc = "document_start"
  BY DEF Init
<1>2. n \in 0..Len(toks)
  BY WalkAssumption DEF Init
<1>3. depth \in 0..MaxDepth
  BY <1>1, WalkAssumption
<1>4. TypeOK
  BY <1>1, <1>2, <1>3 DEF Init, TypeOK, Entries, Labels
<1>5. Depths /\ TapeBound
  BY <1>1 DEF Depths, TapeBound, Beginning, Expecting, Following
<1>6. QED
  BY <1>4, <1>5 DEF IInv

LEMMA NextIInv == IInv /\ [Next]_vars => IInv'
<1> SUFFICES ASSUME IInv, [Next]_vars
             PROVE  IInv'
  OBVIOUS
<1> USE DEF Depths, TapeBound, Beginning, Expecting, Following
<1>0. /\ tape \in Seq(Entries) /\ Len(tape) \in Nat
      /\ error \in Errors /\ next \in Nat /\ start \in Nat /\ depth \in Nat
      /\ start <= next /\ MaxDepth \in Nat \ {0}
      /\ Skipped \in Entries
  <2>1. tape \in Seq(Entries) /\ Len(tape) \in Nat
    BY LenProperties DEF IInv, TypeOK, Entries
  <2>2. error \in Errors
    BY DEF IInv, TypeOK, Errors
  <2>3. next \in Nat /\ start \in Nat /\ depth \in Nat /\ start <= next
    BY WalkAssumption DEF IInv, TypeOK
  <2>4. Skipped \in Entries
    BY EntryType DEF Skipped, Types
  <2>5. QED
    BY <2>1, <2>2, <2>3, <2>4, WalkAssumption
<1>1. CASE NoDocument
  <2>1. TypeOK'
    BY <1>1 DEF NoDocument, Fail, IInv, TypeOK, Labels, input, batch
  <2>2. Depths' /\ TapeBound'
    BY <1>0, <1>1 DEF NoDocument, Fail, IInv, input, batch
  <2>3. QED
    BY <2>1, <2>2 DEF IInv
<1>2. CASE DocumentStart
  <2>1. /\ pc = "document_start"
        /\ open_containers' = [open_containers EXCEPT ![0] = Opened(0)]
        /\ UNCHANGED <<input, depth, is_array>>
        /\ \/ Value(next, <<Skipped>>, "document_end")
           \/ /\ pc' = "done" /\ error' \in {"TAPE_ERROR", "MEMALLOC"}
              /\ next' = next + 1 /\ tape' = <<Skipped>>
    BY <1>2, Zenon DEF DocumentStart, Fail
  <2>2. depth = 0 /\ start = next
    BY <2>1 DEF IInv
  <2>3. <<Skipped>> \in Seq(Entries) /\ Len(<<Skipped>>) = 1
    BY <1>0
  <2>4. /\ tape' \in Seq(Entries)
        /\ next' \in {next + 1, next + 2}
        /\ Len(tape') <= 3
        /\ pc' \in Beginning => Len(tape') = 1
        /\ pc' \in Beginning \cup {"done", "document_end"}
        /\ error' \in Errors
    <3>1. CASE Value(next, <<Skipped>>, "document_end")
      <4>1. /\ tape' \in Seq(Entries)
            /\ next' \in {next + 1, next + 2}
            /\ Len(tape') <= Len(<<Skipped>>) + 2
            /\ pc' \in Beginning => Len(tape') = Len(<<Skipped>>)
            /\ pc' \in Beginning \cup {"done", "document_end"}
            /\ error' \in Errors
        BY <1>0, <2>3, <3>1, ValueStep
      <4>2. QED
        BY <2>3, <4>1
    <3>2. CASE /\ pc' = "done" /\ error' \in {"TAPE_ERROR", "MEMALLOC"}
               /\ next' = next + 1 /\ tape' = <<Skipped>>
      BY <1>0, <2>3, <3>2 DEF Errors
    <3>3. QED
      BY <2>1, <3>1, <3>2
  <2>5. open_containers' \in [Levels -> [tape_index : Nat, count : Nat]]
    BY <1>0, <2>1, OpenedStep DEF IInv
  <2>6. TypeOK'
    BY <1>0, <2>1, <2>4, <2>5 DEF IInv, TypeOK, Entries, Errors, Labels, input,
                                 batch
  <2>7. Len(tape') \in Nat
    BY <2>4, LenProperties
  <2>8. start' = start /\ depth' = depth
    BY <2>1 DEF input, batch
  <2>9. /\ start <= next'
        /\ Len(tape') <= (next' - start) + 2
        /\ Len(tape') = 1 => Len(tape') <= next' - start
    <3>1. /\ next \in Nat /\ start = next /\ Len(tape') \in Nat
          /\ next' = next + 1 \/ next' = next + 2
          /\ Len(tape') <= 3
      BY <1>0, <2>2, <2>4, <2>7
    <3>2. next' - start = 1 \/ next' - start = 2
      BY <3>1
    <3>3. start <= next'
      BY <3>1
    <3>4. QED
      BY <3>1, <3>2, <3>3
  <2>10. Depths'
    <3>1. depth' = 0 /\ 0 \in 0..MaxDepth-1
      BY <1>0, <2>2, <2>8
    <3>2. pc' \in {"object_begin", "array_begin", "done", "document_end"}
      BY <2>4
    <3>3. QED
      BY <3>1, <3>2
  <2>11. TapeBound'
    BY <1>0, <2>4, <2>7, <2>8, <2>9
  <2>12. QED
    BY <2>6, <2>10, <2>11 DEF IInv
<1>3. CASE ObjectTooDeep \/ ArrayTooDeep
  <2>1. /\ pc \in Beginning /\ pc' = "done" /\ error' = "DEPTH_ERROR"
        /\ depth' = depth + 1
        /\ UNCHANGED <<input, next, is_array, open_containers, tape>>
    BY <1>3 DEF ObjectTooDeep, ArrayTooDeep, TooDeep, Fail
  <2>2. depth' \in 0..MaxDepth
    BY <1>0, <2>1 DEF IInv
  <2>3. TypeOK'
    BY <1>0, <2>1, <2>2 DEF IInv, TypeOK, Labels, input, batch
  <2>4. Depths' /\ TapeBound'
    BY <1>0, <2>1 DEF IInv, input, batch
  <2>5. QED
    BY <2>3, <2>4 DEF IInv
<1>4. CASE ObjectBegin
  <2>1. /\ pc = "object_begin"
        /\ HasRoom
        /\ depth' = depth + 1
        /\ is_array' = [is_array EXCEPT ![depth'] = FALSE]
        /\ \E count \in {0, 1} :
             open_containers' = [open_containers EXCEPT ![depth'] = Opened(count)]
        /\ Key(next, Append(tape, Skipped))
        /\ UNCHANGED input
    BY <1>4 DEF ObjectBegin
  <2>2. /\ Append(tape, Skipped) \in Seq(Entries)
        /\ Len(Append(tape, Skipped)) = Len(tape) + 1
    BY <1>0, AppendProperties
  <2>3. /\ tape' \in Seq(Entries)
        /\ Len(tape') <= Len(Append(tape, Skipped)) + 1
        /\ next' = next + 1
        /\ pc' \in {"object_field", "done"}
        /\ error' \in Errors
    BY <1>0, <2>1, <2>2, KeyStep
  <2>4. depth' \in 1..MaxDepth-1
    BY <1>0, <2>1 DEF HasRoom
  <2>5. is_array' \in [Levels -> BOOLEAN]
    BY <2>1 DEF IInv, TypeOK
  <2>6. open_containers' \in [Levels -> [tape_index : Nat, count : Nat]]
    BY <1>0, <2>1, OpenedStep DEF IInv
  <2>7. TypeOK'
    BY <1>0, <2>1, <2>3, <2>4, <2>5, <2>6
    DEF IInv, TypeOK, Entries, Errors, Labels, input, batch
  <2>8. Len(tape') \in Nat
    BY <2>3, LenProperties
  <2>9. Depths' /\ TapeBound'
    BY <1>0, <2>1, <2>2, <2>3, <2>4, <2>8 DEF IInv, input, batch
  <2>10. QED
    BY <2>7, <2>9 DEF IInv
<1>5. CASE ArrayBegin
  <2>1. /\ pc = "array_begin" /\ pc' = "array_value"
        /\ HasRoom
        /\ depth' = depth + 1
        /\ is_array' = [is_array EXCEPT ![depth'] = TRUE]
        /\ open_containers' = [open_containers EXCEPT ![depth'] = Opened(1)]
        /\ tape' = Append(tape, Skipped)
        /\ UNCHANGED <<input, error, next>>
    BY <1>5 DEF ArrayBegin
  <2>2. tape' \in Seq(Entries) /\ Len(tape') = Len(tape) + 1
    BY <1>0, <2>1, AppendProperties
  <2>3. depth' \in 1..MaxDepth-1
    BY <1>0, <2>1 DEF HasRoom
  <2>4. is_array' \in [Levels -> BOOLEAN]
    BY <2>1 DEF IInv, TypeOK
  <2>5. open_containers' \in [Levels -> [tape_index : Nat, count : Nat]]
    BY <1>0, <2>1, OpenedStep DEF IInv
  <2>6. TypeOK'
    BY <1>0, <2>1, <2>2, <2>3, <2>4, <2>5
    DEF IInv, TypeOK, Entries, Errors, Labels, input, batch
  <2>7. Depths' /\ TapeBound'
    BY <1>0, <2>1, <2>2, <2>3 DEF IInv, input, batch
  <2>8. QED
    BY <2>6, <2>7 DEF IInv
<1>6. CASE ObjectField
  <2>1. /\ pc = "object_field"
        /\ UNCHANGED <<input, depth, is_array, open_containers>>
        /\ \/ Value(next + 1, tape, "object_continue")
           \/ /\ pc' = "done" /\ error' = "TAPE_ERROR"
              /\ next' = next + 1 /\ UNCHANGED tape
    BY <1>6, Zenon DEF ObjectField, Fail
  <2>2. CASE Value(next + 1, tape, "object_continue")
    BY <1>0, <2>1, <2>2, ValueCase
  <2>3. CASE /\ pc' = "done" /\ error' = "TAPE_ERROR"
             /\ next' = next + 1 /\ UNCHANGED tape
    <3>1. TypeOK'
      BY <1>0, <2>1, <2>3 DEF IInv, TypeOK, Labels, input, batch
    <3>2. Depths' /\ TapeBound'
      BY <1>0, <2>1, <2>3 DEF IInv, input, batch
    <3>3. QED
      BY <3>1, <3>2 DEF IInv
  <2>4. QED
    BY <2>1, <2>2, <2>3
<1>7. CASE ArrayValue
  <2>1. /\ pc = "array_value"
        /\ Value(next, tape, "array_continue")
        /\ UNCHANGED <<input, depth, is_array, open_containers>>
    BY <1>7, Zenon DEF ArrayValue
  <2>2. QED
    BY <1>0, <2>1, ValueCase
<1>8. CASE NextField
  <2>1. /\ pc = "object_continue"
        /\ Increment
        /\ Key(next + 1, tape)
        /\ UNCHANGED <<input, depth, is_array>>
    BY <1>8, Zenon DEF NextField
  <2>2. next + 1 \in Nat
    BY <1>0
  <2>3. /\ tape' \in Seq(Entries)
        /\ Len(tape') <= Len(tape) + 1
        /\ next' = (next + 1) + 1
        /\ pc' \in {"object_field", "done"}
        /\ error' \in Errors
    BY <1>0, <2>1, <2>2, KeyStep
  <2>4. open_containers' \in [Levels -> [tape_index : Nat, count : Nat]]
    BY <1>0, <2>1, IncrementStep DEF IInv
  <2>5. TypeOK'
    BY <1>0, <2>1, <2>3, <2>4
    DEF IInv, TypeOK, Entries, Errors, Labels, input, batch
  <2>6. Len(tape') \in Nat
    BY <2>3, LenProperties
  <2>7. Depths' /\ TapeBound'
    BY <1>0, <2>1, <2>3, <2>6 DEF IInv, input, batch
  <2>8. QED
    BY <2>5, <2>7 DEF IInv
<1>9. CASE NextElement
  <2>1. /\ pc = "array_continue" /\ pc' = "array_value" /\ next' = next + 1
        /\ UNCHANGED <<input, error, depth, is_array, tape>>
        /\ Increment
    BY <1>9, Zenon DEF NextElement
  <2>2. open_containers' \in [Levels -> [tape_index : Nat, count : Nat]]
    BY <1>0, <2>1, IncrementStep DEF IInv
  <2>3. TypeOK'
    BY <1>0, <2>1, <2>2 DEF IInv, TypeOK, Labels, input, batch
  <2>4. Depths' /\ TapeBound'
    BY <1>0, <2>1 DEF IInv, input, batch
  <2>5. QED
    BY <2>3, <2>4 DEF IInv
<1>10. CASE ObjectEnd \/ ArrayEnd
  <2>1. \E open \in {"[", "{"} :
          /\ pc \in {"object_continue", "array_continue"}
          /\ EndContainer(open)
          /\ next' = next + 1
          /\ pc' = "scope_end"
          /\ UNCHANGED <<input, error, depth, is_array, open_containers>>
    BY <1>10, Zenon DEF ObjectEnd, ArrayEnd, End
  <2>2. \E open \in Types : /\ Closing(open) \in Types
                            /\ EndContainer(open)
    BY <2>1, Zenon DEF Types, Closing
  <2>3. /\ pc \in {"object_continue", "array_continue"}
        /\ next' = next + 1
        /\ pc' = "scope_end"
        /\ UNCHANGED <<input, error, depth, is_array, open_containers>>
    BY <2>1, Zenon
  <2>4. depth \in Levels
    BY <1>0, <2>3 DEF IInv, Levels
  <2>5. tape' \in Seq(Entries) /\ Len(tape') = Len(tape) + 1
    BY <2>2, <2>4, EndStep DEF IInv
  <2>6. TypeOK'
    BY <1>0, <2>3, <2>5, SMTT(30) DEF IInv, TypeOK, Entries, Labels, input, batch
  <2>7. Depths' /\ TapeBound'
    BY <1>0, <2>3, <2>5 DEF IInv, input, batch
  <2>8. QED
    BY <2>6, <2>7 DEF IInv
<1>12. CASE BadContinue
  <2>1. /\ pc \in {"object_continue", "array_continue"} /\ pc' = "done"
        /\ error' = "TAPE_ERROR" /\ next' = next + 1
        /\ UNCHANGED <<input, depth, is_array, open_containers, tape>>
    BY <1>12, Zenon DEF BadContinue, Fail
  <2>2. TypeOK'
    BY <1>0, <2>1 DEF IInv, TypeOK, Labels, input, batch
  <2>3. Depths' /\ TapeBound'
    BY <1>0, <2>1 DEF IInv, input, batch
  <2>4. QED
    BY <2>2, <2>3 DEF IInv
<1>13. CASE ScopeEnd
  <2>1. depth \in 1..MaxDepth-1
    BY <1>13 DEF ScopeEnd, IInv
  <2>2. TypeOK'
    BY <1>0, <1>13, <2>1 DEF ScopeEnd, IInv, TypeOK, Labels, input, batch
  <2>3. Depths' /\ TapeBound'
    BY <1>0, <1>13, <2>1 DEF ScopeEnd, IInv, input, batch
  <2>4. QED
    BY <2>2, <2>3 DEF IInv
<1>14. CASE DocumentEnd
  <2> DEFINE e == Entry("r", 0, 0)
             r == Entry("r", Len(tape) + 1, 0)
  <2>1. /\ pc = "document_end" /\ pc' = "done"
        /\ error' \in {"TAPE_ERROR", "SUCCESS"}
        /\ tape' = [Append(tape, e) EXCEPT ![1] = r]
        /\ UNCHANGED <<input, next, depth, is_array, open_containers>>
    BY <1>14 DEF DocumentEnd
  <2>2. Len(tape) + 1 \in Nat
    BY <1>0
  <2>3. e \in Entries /\ r \in Entries
    BY <2>2, EntryType DEF Types
  <2> HIDE DEF e, r
  <2>4. /\ Append(tape, e) \in Seq(Entries)
        /\ Len(Append(tape, e)) = Len(tape) + 1
    BY <1>0, <2>3, AppendProperties
  <2>5. tape' \in Seq(Entries) /\ Len(tape') = Len(tape) + 1
    BY <2>1, <2>3, <2>4, ExceptEntry
  <2>6. TypeOK'
    BY <1>0, <2>1, <2>5 DEF IInv, TypeOK, Entries, Labels, input, batch
  <2>7. Depths' /\ TapeBound'
    BY <1>0, <2>1, <2>5 DEF IInv, input, batch
  <2>8. QED
    BY <2>6, <2>7 DEF IInv
<1>15. CASE NextDocument
  <2>1. tape' = <<>> /\ Len(tape') = 0 /\ tape' \in Seq(Entries)
    BY <1>15 DEF NextDocument
  <2>2. TypeOK'
    BY <1>0, <1>15, <2>1 DEF NextDocument, IInv, TypeOK, Entries, Labels, batch
  <2>3. Depths' /\ TapeBound'
    BY <1>0, <1>15, <2>1 DEF NextDocument, IInv, batch
  <2>4. QED
    BY <2>2, <2>3 DEF IInv
<1>16. CASE UNCHANGED vars
  <2>1. TypeOK'
    BY <1>16 DEF vars, input, batch, IInv, TypeOK
  <2>2. Depths' /\ TapeBound'
    BY <1>16 DEF vars, input, batch, IInv
  <2>3. QED
    BY <2>1, <2>2 DEF IInv
<1>17. QED
  BY <1>1, <1>2, <1>3, <1>4, <1>5, <1>6, <1>7, <1>8, <1>9, <1>10, <1>12,
     <1>13, <1>14, <1>15, <1>16
  DEF Next, WalkStep, Done

LEMMA IInvHolds == Spec => []IInv
BY InitIInv, NextIInv, PTL DEF Spec

(* The types of the machine's state, for every input and every max_depth.   *)
THEOREM TypeCorrect == Spec => []TypeOK
<1>1. IInv => TypeOK
  BY DEF IInv
<1>2. QED
  BY <1>1, IInvHolds, PTL

(* walk_document() uses the stacks only below max_depth, their length.      *)
THEOREM StacksSuffice == Spec => []StackInBounds
<1>1. IInv => StackInBounds
  BY WalkAssumption
  DEF IInv, TypeOK, Labels, Depths, Beginning, Expecting, Following,
      StackInBounds
<1>2. QED
  BY <1>1, IInvHolds, PTL

(* Whatever the input is, stage 2 writes at most three words more than it   *)
(* read structural indexes.                                                 *)
THEOREM TapeSuffices == Spec => []TapeFits
<1>1. IInv => TapeFits
  BY DEF IInv, TapeBound, TapeFits
<1>2. QED
  BY <1>1, IInvHolds, PTL

-----------------------------------------------------------------------------
(* The argument of issue 906.  A whole document that opens a container ends *)
(* with a closing token, so at the sentinels the machine is between values. *)
(* A comma there needs a value or key, which a second comma is not; a       *)
(* closing token there may be repeated once, and the third sentinel, the    *)
(* opening token of the document, is neither a comma nor closing.           *)
Openers == {"[", "{"}
Closers == {"]", "}"}
Commas  == {","}
L == Len(toks)

(* Where the machine can be in a whole document, label by label. *)
Between == \/ next <= L
           \/ next \in {L + 1, L + 2} /\ padding \in Closers
Inside  == /\ toks[1] \in Openers
           /\ toks[L] \in Closers
           /\ \/ pc \in Beginning \cup {"object_field"} /\ next < L
              \/ pc = "array_value" /\ next < L
              \/ pc = "array_value" /\ next = L + 1 /\ padding \in Commas
              \/ pc \in Following /\ Between
Overrun == /\ n = L
           /\ next <= L + 3
           /\ \/ pc = "document_start" /\ next = 0
              \/ pc = "document_end" /\ next <= L + 2
              \/ pc = "done"
              \/ Inside

(* The kinds of tokens exclude each other. *)
LEMMA TokenKinds ==
  /\ \A t \in Closers : /\ t \notin Openers
                        /\ t \notin Scalars
                        /\ t \notin {"q", ":"}
                        /\ t \notin Commas
  /\ \A t \in Openers : t \notin Closers /\ t \notin Commas
  /\ \A t \in Commas : t \notin Openers /\ t \notin Scalars /\ t # "q"
  BY Zenon DEF Openers, Closers, Commas, Scalars

LEMMA TokenAt ==
  ASSUME mode = "regular", NEW k \in Nat, L \in Nat
  PROVE  /\ k < L => Token(k) = toks[k + 1]
         /\ k \in {L, L + 1} => Token(k) = padding
         /\ k = L + 2 => Token(k) = toks[1]
  BY DEF Token, Padded, L

(* What the dispatch on a value accepts. *)
LEMMA ValueReads ==
  ASSUME NEW k \in Nat, NEW t, NEW after, Value(k, t, after)
  PROVE  \/ Token(k) \in Openers /\ next' = k + 2 /\ pc' = after
         \/ Token(k) \in Openers /\ next' = k + 1 /\ pc' \in Beginning
         \/ Token(k) \in Scalars /\ next' = k + 1 /\ pc' = after
         \/ next' = k + 1 /\ pc' = "done"
  BY Zenon DEF Value, Openers, Beginning, Fail

LEMMA KeyReads ==
  ASSUME NEW k \in Nat, NEW t, Key(k, t)
  PROVE  /\ next' = k + 1
         /\ \/ Token(k) = "q" /\ pc' = "object_field"
            \/ pc' = "done"
  BY Zenon DEF Key, Fail

(* Nothing of the input changes, and there is at least one token. *)
LEMMA SameInput ==
  ASSUME IInv, mode = "regular", Overrun, UNCHANGED input
  PROVE  /\ L \in Nat /\ L > 0 /\ L' = L
         /\ n' = L /\ n = L
         /\ toks' = toks /\ padding' = padding /\ mode' = mode
         /\ next \in Nat
<1>1. toks \in Seq(STRING) /\ Len(toks) > 0
  BY WalkAssumption DEF IInv, TypeOK
<1>2. L \in Nat /\ L > 0
  BY <1>1, LenProperties DEF L
<1>3. toks' = toks /\ padding' = padding /\ mode' = mode /\ n' = n
  BY DEF input, batch
<1>4. n = L /\ L' = L
  BY <1>3 DEF Overrun, L
<1>5. next \in Nat
  BY DEF IInv, TypeOK
<1>6. QED
  BY <1>2, <1>3, <1>4, <1>5

(* A value is only accepted in front of the closing last token. *)
LEMMA ValueOverrun ==
  ASSUME IInv, mode = "regular", Overrun, UNCHANGED input,
         toks[1] \in Openers, toks[L] \in Closers,
         NEW k \in Nat, k < L, NEW t, NEW after \in Following, Value(k, t, after)
  PROVE  Overrun'
<1>1. /\ L \in Nat /\ L' = L /\ n' = L
      /\ toks' = toks
  BY SameInput
<1>0. \/ Token(k) \in Openers /\ next' = k + 2 /\ pc' = after
      \/ Token(k) \in Openers /\ next' = k + 1 /\ pc' \in Beginning
      \/ Token(k) \in Scalars /\ next' = k + 1 /\ pc' = after
      \/ next' = k + 1 /\ pc' = "done"
  BY ValueReads
<1>2. k + 1 = L => Token(k) \notin Openers \cup Scalars
  <2>1. Token(k) = toks[k + 1]
    BY <1>1, TokenAt
  <2>2. ASSUME k + 1 = L
        PROVE  Token(k) \in Closers
    BY <2>1, <2>2
  <2>3. QED
    BY <2>2, TokenKinds, Zenon
<1>3. \/ pc' \in Following /\ next' <= L
      \/ pc' \in Beginning /\ next' < L
      \/ pc' = "done" /\ next' <= L
  <2>1. CASE k + 1 = L
    <3>1. pc' = "done" /\ next' = k + 1
      BY <1>0, <1>2, <2>1, Zenon
    <3>2. QED
      BY <2>1, <3>1, <1>1
  <2>2. CASE k + 1 # L
    <3>1. k + 1 < L /\ k + 2 <= L /\ k + 1 <= L
      BY <1>1, <2>2
    <3>2. QED
      BY <1>0, <3>1
  <2>3. QED
    BY <2>1, <2>2
<1>4. next' <= L + 3
  <2>1. next' = k + 1 \/ next' = k + 2
    BY <1>0, Zenon
  <2>2. QED
    BY <1>1, <2>1
<1>5. QED
  BY <1>1, <1>3, <1>4, Zenon DEF Overrun, Inside, Between

LEMMA ClosingKinds == \A t \in Openers : Closing(t) \in Closers
  BY Zenon DEF Openers, Closers, Closing

LEMMA InitOverrun == Init => (mode = "regular" => Overrun)
<1> SUFFICES ASSUME Init, mode = "regular"
             PROVE  Overrun
  OBVIOUS
<1>1. Len(toks) \in Nat
  BY WalkAssumption, LenProperties DEF Init
<1>2. QED
  BY <1>1 DEF Init, Overrun, L

(* A sentinel that is a comma or a closing token is not the third one.      *)
LEMMA NextOverrun ==
  ASSUME IInv, mode = "regular", Overrun, WalkStep
  PROVE  Overrun'
<1>0. UNCHANGED input
  BY Zenon DEF WalkStep, NoDocument, DocumentStart, ObjectTooDeep, TooDeep,
     ObjectBegin, ArrayTooDeep, ArrayBegin, ObjectField, ArrayValue, NextField,
     NextElement, ObjectEnd, ArrayEnd, End, BadContinue, ScopeEnd, DocumentEnd
<1>1. /\ L \in Nat /\ L > 0 /\ L' = L
      /\ n' = L /\ n = L
      /\ toks' = toks /\ padding' = padding /\ mode' = mode
      /\ next \in Nat /\ next <= L + 3
  BY <1>0, SameInput DEF Overrun
(* Where each group of labels can be. *)
<1>2. pc = "document_start" => next = 0
  BY DEF Overrun, Inside, Beginning, Following
<1>3. pc = "document_end" => next <= L + 2
  BY DEF Overrun, Inside, Beginning, Following
<1>4. pc \in Beginning \cup Expecting \cup Following => Inside
  BY DEF Overrun, Beginning, Expecting, Following
<1>5. pc \in Beginning \cup {"object_field"} => next < L
  BY <1>4 DEF Inside, Beginning, Expecting, Following
<1>6. pc = "array_value" => next < L \/ (next = L + 1 /\ padding \in Commas)
  <2>1. pc = "array_value" => /\ pc \notin Beginning \cup {"object_field"}
                              /\ pc \notin Following
    BY DEF Beginning, Following
  <2>2. pc = "array_value" => Inside
    BY <1>4 DEF Expecting
  <2>3. QED
    BY <2>1, <2>2, Zenon DEF Inside
<1>7. pc \in Following => Between
  BY <1>4 DEF Inside, Beginning, Expecting, Following
(* What the labels and positions of the next state have to be. *)
<1>8. ASSUME next' = next \/ (next' = next + 1 /\ next <= L + 2),
             pc' = "done"
      PROVE  Overrun'
  <2>1. next' <= L + 3
    BY <1>1, <1>8
  <2>2. QED
    BY <1>1, <1>8, <2>1 DEF Overrun
<1>9. ASSUME toks[1] \in Openers, toks[L] \in Closers,
             next' \in Nat, next' < L,
             pc' \in Beginning \cup {"object_field", "array_value"}
      PROVE  Overrun'
  <2>1. next' <= L + 3
    BY <1>1, <1>9
  <2>2. QED
    BY <1>1, <1>9, <2>1, Zenon DEF Overrun, Inside
<1>10. ASSUME toks[1] \in Openers, toks[L] \in Closers, next' \in Nat,
              \/ next' <= L
              \/ next' \in {L + 1, L + 2} /\ padding \in Closers,
              pc' \in Following
       PROVE  Overrun'
  <2>1. next' <= L + 3
    BY <1>1, <1>10
  <2>2. QED
    BY <1>1, <1>10, <2>1, Zenon DEF Overrun, Inside, Between
<1>11. ASSUME next' \in Nat, next' <= L + 2, pc' = "document_end"
       PROVE  Overrun'
  <2>1. next' <= L + 3
    BY <1>1, <1>11
  <2>2. QED
    BY <1>1, <1>11, <2>1, Zenon DEF Overrun
(* An operator read in front of the last token leaves a token behind it. *)
<1>12. ASSUME NEW k \in Nat, k < L, toks[L] \in Closers,
              Token(k) \notin Closers
       PROVE  k + 1 < L
  <2>1. Token(k) = toks[k + 1]
    BY <1>1, <1>12, TokenAt
  <2>2. k + 1 # L
    BY <1>12, <2>1
  <2>3. QED
    BY <1>1, <1>12, <2>2
(* Between two values, a comma is in front of the sentinels or the first of *)
(* them, and a closing token is not the third.                              *)
<1>13. ASSUME pc \in Following, Token(next) \in Commas
       PROVE  next + 1 < L \/ (next = L /\ padding \in Commas)
  <2>1. CASE next < L
    <3>1. toks[L] \in Closers
      BY <1>4, <1>13 DEF Inside
    <3>2. Token(next) \notin Closers
      BY <1>13, TokenKinds
    <3>3. next + 1 < L
      BY <1>1, <1>12, <2>1, <3>1, <3>2, Zenon
    <3>4. QED
      BY <3>3
  <2>2. CASE next = L
    BY <1>1, <1>13, <2>2, TokenAt
  <2>3. CASE next \in {L + 1, L + 2} /\ padding \in Closers
    <3>1. Token(next) \in Openers \cup Closers
      BY <1>1, <1>4, <1>13, <2>3, TokenAt DEF Inside
    <3>2. QED
      BY <1>13, <3>1, TokenKinds
  <2>4. QED
    <3>1. Between
      BY <1>7, <1>13
    <3>2. next <= L => next < L \/ next = L
      BY <1>1
    <3>3. QED
      BY <2>1, <2>2, <2>3, <3>1, <3>2 DEF Between
<1>14. ASSUME pc \in Following, Token(next) \in Closers
       PROVE  \/ next + 1 <= L
              \/ next + 1 \in {L + 1, L + 2} /\ padding \in Closers
  <2>1. CASE next < L
    BY <1>1, <2>1
  <2>2. CASE next = L
    <3>1. padding \in Closers
      BY <1>1, <1>14, <2>2, TokenAt
    <3>2. QED
      BY <2>2, <3>1
  <2>3. CASE next = L + 1 /\ padding \in Closers
    BY <1>1, <2>3
  <2>4. CASE next = L + 2
    <3>1. Token(next) \in Openers
      BY <1>1, <1>4, <1>14, <2>4, TokenAt DEF Inside
    <3>2. QED
      BY <1>14, <3>1, TokenKinds
  <2>5. QED
    <3>1. Between
      BY <1>7, <1>14
    <3>2. next <= L => next < L \/ next = L
      BY <1>1
    <3>3. QED
      BY <2>1, <2>2, <2>3, <2>4, <3>1, <3>2 DEF Between
<1>15. CASE NoDocument
  <2>1. next' = next /\ pc' = "done"
    BY <1>15 DEF NoDocument, Fail
  <2>2. QED
    BY <1>8, <2>1, Zenon
<1>16. CASE DocumentStart
  <2>1. next = 0 /\ Token(0) = toks[1] /\ Token(L - 1) = toks[L]
    <3>1. next = 0
      BY <1>2, <1>16 DEF DocumentStart
    <3>2. 0 < L /\ L - 1 \in Nat /\ L - 1 < L
      BY <1>1
    <3>3. QED
      BY <1>1, <3>1, <3>2, TokenAt
  <2>2. CASE ~Unmatched /\ Value(next, <<Skipped>>, "document_end")
    <3>1. Token(next) \in Openers => Token(n - 1) = Closing(Token(next))
      BY <2>2 DEF Unmatched, Openers
    <3>2. \/ Token(next) \in Openers /\ next' = next + 2 /\ pc' = "document_end"
          \/ Token(next) \in Openers /\ next' = next + 1 /\ pc' \in Beginning
          \/ Token(next) \in Scalars /\ next' = next + 1 /\ pc' = "document_end"
          \/ next' = next + 1 /\ pc' = "done"
      BY <1>1, <2>2, ValueReads
    <3>3. CASE next' \in {next + 1, next + 2} /\ pc' = "document_end"
      BY <1>1, <1>11, <2>1, <3>3
    <3>4. CASE Token(next) \in Openers /\ next' = next + 1 /\ pc' \in Beginning
      <4>1. Token(L - 1) = Closing(Token(0))
        BY <1>1, <2>1, <3>1, <3>4
      <4>2. toks[1] \in Openers /\ toks[L] \in Closers
        BY <2>1, <3>4, <4>1, ClosingKinds
      <4>3. L # 1
        BY <4>2, TokenKinds
      <4>4. next' \in Nat /\ next' < L
        BY <1>1, <2>1, <3>4, <4>3
      <4>5. QED
        BY <1>9, <3>4, <4>2, <4>4
    <3>5. CASE next' = next + 1 /\ pc' = "done"
      BY <1>1, <1>8, <2>1, <3>5
    <3>6. QED
      BY <3>2, <3>3, <3>4, <3>5
  <2>3. CASE next' = next + 1 /\ pc' = "done"
    BY <1>1, <1>8, <2>1, <2>3
  <2>4. QED
    BY <1>16, <2>2, <2>3 DEF DocumentStart, Fail
<1>17. CASE ObjectTooDeep \/ ArrayTooDeep
  <2>1. next' = next /\ pc' = "done"
    BY <1>17 DEF ObjectTooDeep, ArrayTooDeep, TooDeep, Fail
  <2>2. QED
    BY <1>8, <2>1, Zenon
<1>18. CASE ObjectBegin
  <2>1. pc = "object_begin" /\ Key(next, Append(tape, Skipped))
    BY <1>18 DEF ObjectBegin
  <2>2. toks[1] \in Openers /\ toks[L] \in Closers /\ next < L
    BY <1>4, <1>5, <2>1 DEF Beginning, Inside
  <2>3. /\ next' = next + 1
        /\ (Token(next) = "q" /\ pc' = "object_field") \/ pc' = "done"
    BY <1>1, <2>1, KeyReads
  <2>4. CASE Token(next) = "q" /\ pc' = "object_field"
    <3>1. next + 1 < L
      BY <1>1, <1>12, <2>2, <2>4, TokenKinds
    <3>2. QED
      BY <1>1, <1>9, <2>2, <2>3, <2>4, <3>1
  <2>5. CASE pc' = "done"
    BY <1>1, <1>8, <2>2, <2>3, <2>5
  <2>6. QED
    BY <2>3, <2>4, <2>5
<1>19. CASE ArrayBegin
  <2>1. pc = "array_begin" /\ pc' = "array_value" /\ next' = next
    BY <1>19 DEF ArrayBegin
  <2>2. toks[1] \in Openers /\ toks[L] \in Closers /\ next < L
    BY <1>4, <1>5, <2>1 DEF Beginning, Inside
  <2>3. QED
    BY <1>1, <1>9, <2>1, <2>2
<1>20. CASE ObjectField
  <2>1. pc = "object_field"
    BY <1>20 DEF ObjectField
  <2>2. toks[1] \in Openers /\ toks[L] \in Closers /\ next < L
    BY <1>4, <1>5, <2>1 DEF Expecting, Inside
  <2>3. CASE Token(next) = ":" /\ Value(next + 1, tape, "object_continue")
    <3>0. Token(next) \notin Closers
      BY <2>3, TokenKinds
    <3>1. next + 1 < L /\ next + 1 \in Nat
      BY <1>1, <1>12, <2>2, <3>0
    <3>2. "object_continue" \in Following
      BY DEF Following
    <3>3. QED
      BY <1>0, <2>2, <2>3, <3>1, <3>2, ValueOverrun
  <2>4. CASE next' = next + 1 /\ pc' = "done"
    BY <1>1, <1>8, <2>2, <2>4
  <2>5. QED
    BY <1>20, <2>3, <2>4 DEF ObjectField, Fail
<1>21. CASE ArrayValue
  <2>1. pc = "array_value" /\ Value(next, tape, "array_continue")
    BY <1>21 DEF ArrayValue
  <2>2. toks[1] \in Openers /\ toks[L] \in Closers
    BY <1>4, <2>1 DEF Expecting, Inside
  <2>3. CASE next < L
    <3>1. "array_continue" \in Following
      BY DEF Following
    <3>2. QED
      BY <1>0, <1>1, <2>1, <2>2, <2>3, <3>1, ValueOverrun
  <2>4. CASE next = L + 1 /\ padding \in Commas
    <3>1. Token(next) \in Commas
      BY <1>1, <2>4, TokenAt
    <3>2. next' = next + 1 /\ pc' = "done"
      BY <1>1, <2>1, <3>1, ValueReads, TokenKinds
    <3>3. next <= L + 2
      BY <1>1, <2>4
    <3>4. QED
      BY <1>8, <3>2, <3>3, Zenon
  <2>5. QED
    BY <1>6, <2>1, <2>3, <2>4
<1>22. CASE NextField
  <2>1. pc = "object_continue" /\ Token(next) \in Commas /\ Key(next + 1, tape)
    BY <1>22 DEF NextField, Commas
  <2>2. pc \in Following
    BY <2>1 DEF Following
  <2>3. toks[1] \in Openers /\ toks[L] \in Closers
    BY <1>4, <2>2 DEF Inside
  <2>4. /\ next' = (next + 1) + 1
        /\ (Token(next + 1) = "q" /\ pc' = "object_field") \/ pc' = "done"
    BY <1>1, <2>1, KeyReads
  <2>5. next + 1 < L \/ (next = L /\ padding \in Commas)
    BY <1>13, <2>1, <2>2
  <2>6. CASE pc' = "done"
    <3>1. next' \in Nat /\ next' <= L + 3
      BY <1>1, <2>4, <2>5
    <3>2. QED
      BY <1>1, <2>6, <3>1 DEF Overrun
  <2>7. CASE Token(next + 1) = "q" /\ pc' = "object_field"
    <3>1. next # L
      <4>1. SUFFICES ASSUME next = L
                     PROVE  FALSE
        OBVIOUS
      <4>2. padding \in Commas /\ Token(next + 1) = padding
        BY <1>1, <2>5, <4>1, TokenAt
      <4>3. QED
        BY <2>7, <4>2, TokenKinds
    <3>2. (next + 1) + 1 < L
      <4>1. next + 1 \in Nat /\ next + 1 < L
        BY <1>1, <2>5, <3>1
      <4>2. QED
        <5>1. Token(next + 1) \notin Closers
          BY <2>7, TokenKinds
        <5>2. QED
          BY <1>12, <2>3, <4>1, <5>1
    <3>3. QED
      BY <1>1, <1>9, <2>3, <2>4, <2>7, <3>2
  <2>8. QED
    BY <2>4, <2>6, <2>7
<1>23. CASE NextElement
  <2>1. /\ pc = "array_continue" /\ Token(next) \in Commas
        /\ next' = next + 1 /\ pc' = "array_value"
    BY <1>23 DEF NextElement, Commas
  <2>2. pc \in Following
    BY <2>1 DEF Following
  <2>3. toks[1] \in Openers /\ toks[L] \in Closers
    BY <1>4, <2>2 DEF Inside
  <2>4. next + 1 < L \/ (next = L /\ padding \in Commas)
    BY <1>13, <2>1, <2>2
  <2>5. CASE next + 1 < L
    BY <1>1, <1>9, <2>1, <2>3, <2>5
  <2>6. CASE next = L /\ padding \in Commas
    <3>1. next' = L + 1 /\ next' <= L + 3
      BY <1>1, <2>1, <2>6
    <3>2. QED
      BY <1>1, <2>1, <2>3, <2>6, <3>1, Zenon DEF Overrun, Inside
  <2>7. QED
    BY <2>4, <2>5, <2>6
<1>24. CASE ObjectEnd \/ ArrayEnd
  <2>1. \E open \in Openers : Token(next) = Closing(open)
    BY <1>24, Zenon DEF ObjectEnd, ArrayEnd, End, Openers
  <2>2. Token(next) \in Closers
    BY <2>1, ClosingKinds
  <2>3. pc \in Following /\ next' = next + 1 /\ pc' = "scope_end"
    BY <1>24, Zenon DEF ObjectEnd, ArrayEnd, End, Following
  <2>4. toks[1] \in Openers /\ toks[L] \in Closers
    BY <1>4, <2>3 DEF Inside
  <2>5. "scope_end" \in Following
    BY DEF Following
  <2>6. QED
    BY <1>1, <1>10, <1>14, <2>2, <2>3, <2>4, <2>5
<1>25. CASE BadContinue
  <2>1. pc \in Following /\ next' = next + 1 /\ pc' = "done"
    BY <1>25, Zenon DEF BadContinue, Fail, Following
  <2>2. next <= L + 2
    BY <1>1, <1>7, <2>1 DEF Between
  <2>3. QED
    BY <1>8, <2>1, <2>2
<1>26. CASE ScopeEnd
  <2>1. /\ pc \in Following /\ next' = next
        /\ pc' \in {"document_end", "array_continue", "object_continue"}
    BY <1>26, Zenon DEF ScopeEnd, Following
  <2>2. toks[1] \in Openers /\ toks[L] \in Closers /\ Between
    BY <1>4, <1>7, <2>1 DEF Inside
  <2>3. next' \in Nat /\ next' <= L + 2
    BY <1>1, <2>1, <2>2 DEF Between
  <2>4. CASE pc' = "document_end"
    BY <1>11, <2>3, <2>4
  <2>5. CASE pc' \in Following
    BY <1>10, <2>1, <2>2, <2>3, <2>5 DEF Between
  <2>6. QED
    BY <2>1, <2>4, <2>5 DEF Following
<1>27. CASE DocumentEnd
  <2>1. next' = next /\ pc' = "done"
    BY <1>27 DEF DocumentEnd
  <2>2. QED
    BY <1>8, <2>1, Zenon
<1>28. QED
  BY <1>15, <1>16, <1>17, <1>18, <1>19, <1>20, <1>21, <1>22, <1>23, <1>24, <1>25,
     <1>26, <1>27 DEF WalkStep

LEMMA StepOverrun ==
  IInv /\ (mode = "regular" => Overrun) /\ [Next]_vars
    => (mode' = "regular" => Overrun')
<1> SUFFICES ASSUME IInv, mode = "regular" => Overrun, [Next]_vars,
                    mode' = "regular"
             PROVE  Overrun'
  OBVIOUS
<1>1. CASE WalkStep
  <2>1. UNCHANGED input
    BY <1>1, Zenon
    DEF WalkStep, NoDocument, DocumentStart, ObjectTooDeep, TooDeep,
     ObjectBegin, ArrayTooDeep, ArrayBegin, ObjectField, ArrayValue, NextField,
     NextElement, ObjectEnd, ArrayEnd, End, BadContinue, ScopeEnd, DocumentEnd
  <2>2. mode = "regular"
    BY <2>1 DEF input, batch
  <2>3. QED
    BY <1>1, <2>2, NextOverrun
<1>2. CASE NextDocument
  BY <1>2 DEF NextDocument, batch
<1>3. CASE UNCHANGED vars
  <2>1. mode = "regular"
    BY <1>3 DEF vars, input, batch
  <2>2. QED
    BY <1>3, <2>1 DEF vars, input, batch, Overrun, Inside, Between, L
<1>4. QED
  BY <1>1, <1>2, <1>3 DEF Next, Done

(* In a whole document, walk_document() reads no index behind the three     *)
(* sentinels stage 1 writes, whatever the input and the padding are.        *)
THEOREM ReadsStayInSentinels == Spec => [](mode = "regular" => ReadsInBounds)
<1> DEFINE O == mode = "regular" => Overrun
<1>1. Init => O
  BY InitOverrun
<1>2. IInv /\ O /\ [Next]_vars => O'
  BY StepOverrun
<1>3. O => (mode = "regular" => ReadsInBounds)
  BY DEF Overrun, ReadsInBounds, L
<1>4. QED
  BY <1>1, <1>2, <1>3, IInvHolds, PTL DEF Spec
-----------------------------------------------------------------------------
(* The stack of open containers, and the entries of the tape kept open for  *)
(* them, at every label: between the end of a container and the label       *)
(* behind it, its level is still on the stack but its entry is written.     *)

SkippedIn(t) == {i \in DOMAIN t : t[i].type = "skip"}
Level(l)     == open_containers[l].tape_index
OpenLevels   == IF pc = "scope_end" THEN 0..depth-1 ELSE 0..depth
Stack ==
    pc \notin {"document_start", "done"} =>
      /\ SkippedIn(tape) = {Level(l) + 1 : l \in OpenLevels}
      /\ \A l, m \in 0..depth : l < m => Level(l) < Level(m)
      /\ Level(0) = 0

LEMMA SkippedType == Skipped \in Entries
  BY DEF Skipped, Entry, Entries, Types

(* Entries that are written keep no other open. *)
LEMMA WrittenBehind ==
  ASSUME NEW s \in Seq(Entries), NEW t \in Seq(Entries), SkippedIn(t) = {}
  PROVE  SkippedIn(s \o t) = SkippedIn(s)
<1>1. /\ Len(s) \in Nat /\ Len(t) \in Nat
      /\ DOMAIN s = 1..Len(s) /\ DOMAIN t = 1..Len(t)
      /\ DOMAIN (s \o t) = 1..Len(s) + Len(t)
  OBVIOUS
<1>2. \A i \in 1..Len(s) : (s \o t)[i] = s[i]
  OBVIOUS
<1>3. \A i \in 1..Len(s) + Len(t) : i \notin 1..Len(s) =>
        (s \o t)[i] = t[i - Len(s)] /\ i - Len(s) \in 1..Len(t)
  OBVIOUS
<1>4. QED
  BY <1>1, <1>2, <1>3 DEF SkippedIn

LEMMA WrittenLast ==
  ASSUME NEW s \in Seq(Entries), NEW e \in Entries, e.type # "skip"
  PROVE  SkippedIn(Append(s, e)) = SkippedIn(s)
<1>1. /\ Len(s) \in Nat /\ DOMAIN s = 1..Len(s)
      /\ DOMAIN Append(s, e) = 1..Len(s) + 1
      /\ \A i \in 1..Len(s) : Append(s, e)[i] = s[i]
      /\ Append(s, e)[Len(s) + 1] = e
  OBVIOUS
<1>2. QED
  BY <1>1 DEF SkippedIn

LEMMA SkippedLast ==
  ASSUME NEW s \in Seq(Entries)
  PROVE  SkippedIn(Append(s, Skipped)) = SkippedIn(s) \cup {Len(s) + 1}
<1>1. /\ Len(s) \in Nat /\ DOMAIN s = 1..Len(s)
      /\ DOMAIN Append(s, Skipped) = 1..Len(s) + 1
      /\ \A i \in 1..Len(s) : Append(s, Skipped)[i] = s[i]
      /\ Append(s, Skipped)[Len(s) + 1] = Skipped
  OBVIOUS
<1>2. Skipped.type = "skip"
  BY DEF Skipped, Entry
<1>3. QED
  BY <1>1, <1>2 DEF SkippedIn

LEMMA WrittenAt ==
  ASSUME NEW s \in Seq(Entries), NEW i \in Nat, NEW e \in Entries,
         e.type # "skip"
  PROVE  SkippedIn([s EXCEPT ![i] = e]) = SkippedIn(s) \ {i}
BY DEF SkippedIn

(* A value is written behind the tape, and nothing of it is left open. *)
LEMMA ValueWrites ==
  ASSUME NEW k \in Nat, NEW t \in Seq(Entries), NEW after, Value(k, t, after)
  PROVE  pc' # "done" => SkippedIn(tape') = SkippedIn(t)
<1>0. Len(t) \in Nat
  BY LenProperties
<1>1. CASE /\ Token(k) \in {"[", "{"}
           /\ tape' = t \o EmptyContainer(Token(k), Len(t))
  <2> DEFINE a == Entry(Token(k), Len(t) + 2, 0)
             b == Entry(Closing(Token(k)), Len(t), 0)
  <2>1. Token(k) \in Types \ {"skip"} /\ Closing(Token(k)) \in Types \ {"skip"}
    BY <1>1 DEF Types, Closing
  <2>2. /\ a \in Entries /\ b \in Entries
        /\ a.type # "skip" /\ b.type # "skip"
    BY <1>0, <2>1 DEF Entries, Entry
  <2> HIDE DEF a, b
  <2>3. tape' = t \o <<a, b>>
    BY <1>1 DEF EmptyContainer, a, b
  <2>4. <<a, b>> \in Seq(Entries) /\ SkippedIn(<<a, b>>) = {}
    BY <2>2 DEF SkippedIn
  <2>5. QED
    BY <2>3, <2>4, WrittenBehind
<1>2. CASE tape' = t
  BY <1>2
<1>3. CASE tape' = t \o ScalarEntries(k)
  <2>1. /\ Entry("d", 0, 0) \in Entries /\ Entry("d", 0, 0).type # "skip"
        /\ Entry("word", k, 0) \in Entries /\ Entry("word", k, 0).type # "skip"
        /\ Entry("t", 0, 0) \in Entries /\ Entry("t", 0, 0).type # "skip"
        /\ Entry("q", k, 0) \in Entries /\ Entry("q", k, 0).type # "skip"
    BY DEF Entries, Entry, Types
  <2>2. ScalarEntries(k) \in Seq(Entries) /\ SkippedIn(ScalarEntries(k)) = {}
    <3>1. CASE Token(k) = "d"
      BY <2>1, <3>1 DEF ScalarEntries, SkippedIn
    <3>2. CASE Token(k) # "d" /\ Token(k) = "t"
      BY <2>1, <3>2 DEF ScalarEntries, SkippedIn
    <3>3. CASE Token(k) # "d" /\ Token(k) # "t"
      BY <2>1, <3>3 DEF ScalarEntries, SkippedIn
    <3>4. QED
      BY <3>1, <3>2, <3>3
  <2>3. QED
    BY <1>3, <2>2, WrittenBehind
<1>4. CASE pc' = "done"
  BY <1>4
<1>5. QED
  BY <1>1, <1>2, <1>3, <1>4 DEF Value, Fail

(* A key is a written entry too. *)
LEMMA KeyWrites ==
  ASSUME NEW k \in Nat, NEW t \in Seq(Entries), Key(k, t)
  PROVE  SkippedIn(tape') = SkippedIn(t)
<1>1. Entry("q", k, 0) \in Entries /\ Entry("q", k, 0).type # "skip"
  BY DEF Entries, Entry, Types
<1>2. QED
  BY <1>1, WrittenLast DEF Key

(* An index into the tape of an open entry, below all that follow. *)
LEMMA OpenIsInTape ==
  ASSUME TypeOK, Stack, pc \notin {"document_start", "done"},
         NEW l \in OpenLevels
  PROVE  Level(l) + 1 \in 1..Len(tape)
<1>1. Level(l) + 1 \in SkippedIn(tape)
  BY DEF Stack
<1>2. DOMAIN tape = 1..Len(tape)
  BY DEF TypeOK
<1>3. QED
  BY <1>1, <1>2 DEF SkippedIn

(* What a step does to the stack: it leaves it alone, pushes a level for    *)
(* the entry it appends, or closes the innermost entry.                     *)
LEMMA StackLeft ==
  ASSUME IInv, Stack, pc \notin {"document_start", "done", "scope_end"},
         UNCHANGED depth, \A l \in 0..depth : Level(l)' = Level(l),
         pc' \notin {"done", "scope_end"} => SkippedIn(tape') = SkippedIn(tape),
         pc' # "scope_end"
  PROVE  Stack'
<1> SUFFICES ASSUME pc' # "done"
             PROVE  Stack'
  BY DEF Stack
<1>1. {Level(l)' + 1 : l \in 0..depth} = {Level(l) + 1 : l \in 0..depth}
  OBVIOUS
<1>2. SkippedIn(tape') = {Level(l)' + 1 : l \in 0..depth'}
  BY <1>1 DEF Stack, OpenLevels
<1>3. \A l, m \in 0..depth' : l < m => Level(l)' < Level(m)'
  BY DEF Stack
<1>4. Level(0)' = 0
  BY DEF Stack, IInv, TypeOK
<1>5. QED
  BY <1>2, <1>3, <1>4 DEF Stack, OpenLevels

LEMMA StackPushed ==
  ASSUME IInv, Stack, pc \in Beginning, HasRoom, depth' = depth + 1,
         NEW count,
         open_containers' = [open_containers EXCEPT ![depth'] = Opened(count)],
         SkippedIn(tape') = SkippedIn(tape) \cup {Len(tape) + 1},
         pc' # "scope_end"
  PROVE  Stack'
<1>1. depth \in Nat /\ depth + 1 \in Levels /\ MaxDepth \in Nat
  BY WalkAssumption DEF IInv, TypeOK, HasRoom, Levels
<1>2. /\ open_containers \in [Levels -> [tape_index : Nat, count : Nat]]
      /\ Len(tape) \in Nat
  BY DEF IInv, TypeOK
<1> DEFINE top == depth + 1
           At(l) == open_containers'[l].tape_index
<1>3. At(top) = Len(tape)
  BY <1>1, <1>2 DEF Opened
<1>4. \A l \in 0..depth : At(l) = Level(l)
  BY <1>1, <1>2 DEF Level
<1>5. pc \notin {"document_start", "done", "scope_end"}
  BY DEF Beginning
<1>6. \A l \in 0..depth : Level(l) \in Nat /\ Level(l) < Len(tape)
  <2> TAKE l \in 0..depth
  <2>1. Level(l) + 1 \in 1..Len(tape)
    BY <1>5, OpenIsInTape DEF OpenLevels, IInv
  <2>2. Level(l) \in Nat
    BY <1>1, <1>2 DEF Level, Levels
  <2>3. QED
    BY <1>2, <2>1, <2>2
<1>7. /\ SkippedIn(tape) = {Level(l) + 1 : l \in 0..depth}
      /\ \A l, m \in 0..depth : l < m => Level(l) < Level(m)
  BY <1>5 DEF Stack, OpenLevels
<1> HIDE DEF At
<1>8. SkippedIn(tape') = {At(l) + 1 : l \in 0..top}
  <2>1. 0..top = 0..depth \cup {top}
    BY <1>1
  <2>2. {At(l) + 1 : l \in 0..top} = {At(l) + 1 : l \in 0..depth} \cup {At(top) + 1}
    <3> HIDE DEF top
    <3>1. QED
      BY <2>1
  <2>3. {At(l) + 1 : l \in 0..depth} = {Level(l) + 1 : l \in 0..depth}
    BY <1>4
  <2> HIDE DEF top
  <2>4. QED
    BY <1>3, <1>7, <2>2, <2>3
<1>9. \A l, m \in 0..top : l < m => At(l) < At(m)
  <2> TAKE l, m \in 0..top
  <2> HAVE l < m
  <2>1. l \in 0..depth
    BY <1>1
  <2>2. CASE m \in 0..depth
    BY <1>4, <1>7, <2>1, <2>2
  <2>3. CASE m = top
    <3>1. At(m) = Len(tape) /\ At(l) = Level(l) /\ Level(l) < Len(tape)
      BY <1>3, <1>4, <1>6, <2>1, <2>3
    <3>2. QED
      BY <3>1
  <2>4. QED
    BY <1>1, <2>2, <2>3
<1>10. At(0) = 0
  <2>1. Level(0) = 0
    BY <1>5 DEF Stack
  <2>2. QED
    BY <1>1, <1>4, <2>1
<1>11. /\ SkippedIn(tape') = {Level(l)' + 1 : l \in 0..depth'}
       /\ \A l, m \in 0..depth' : l < m => Level(l)' < Level(m)'
       /\ Level(0)' = 0
  BY <1>8, <1>9, <1>10 DEF Level, At
<1>12. QED
  BY <1>11 DEF Stack, OpenLevels

LEMMA StackClosed ==
  ASSUME IInv, Stack, pc \in Following \ {"scope_end"},
         SkippedIn(tape') = SkippedIn(tape) \ {Level(depth) + 1},
         pc' = "scope_end", UNCHANGED <<depth, open_containers>>
  PROVE  Stack'
<1>1. depth \in 1..MaxDepth-1 /\ MaxDepth \in Nat
  BY WalkAssumption DEF IInv, Depths
<1>2. open_containers \in [Levels -> [tape_index : Nat, count : Nat]]
  BY DEF IInv, TypeOK
<1>3. \A l \in 0..depth : Level(l) \in Nat /\ Level(l)' = Level(l)
  BY <1>1, <1>2 DEF Level, Levels
<1>4. /\ SkippedIn(tape) = {Level(l) + 1 : l \in 0..depth}
      /\ \A l, m \in 0..depth : l < m => Level(l) < Level(m)
  BY DEF Stack, OpenLevels, Following
<1>5. 0..depth = 0..depth-1 \cup {depth} /\ depth \in 0..depth
  BY <1>1
<1>6. \A l \in 0..depth-1 : l \in 0..depth /\ l < depth
  BY <1>1
<1>7. \A l \in 0..depth-1 : Level(l) + 1 # Level(depth) + 1
  <2> TAKE l \in 0..depth-1
  <2>1. Level(l) < Level(depth) /\ Level(l) \in Nat /\ Level(depth) \in Nat
    BY <1>3, <1>4, <1>5, <1>6
  <2>2. QED
    BY <2>1
<1>8. SkippedIn(tape') = {Level(l) + 1 : l \in 0..depth-1}
  BY <1>4, <1>5, <1>7
<1>9. {Level(l) + 1 : l \in 0..depth-1} = {Level(l)' + 1 : l \in 0..depth-1}
  BY <1>3, <1>5
<1>10. \A l, m \in 0..depth' : l < m => Level(l)' < Level(m)'
  BY <1>3, <1>4
<1>11. SkippedIn(tape') = {Level(l)' + 1 : l \in OpenLevels'}
  BY <1>8, <1>9 DEF OpenLevels
<1>12. Level(0)' = 0
  BY <1>1, <1>3 DEF Stack, Following
<1>13. QED
  BY <1>10, <1>11, <1>12 DEF Stack

LEMMA DocumentStartStack ==
  ASSUME IInv, DocumentStart
  PROVE  Stack'
<1> SUFFICES ASSUME pc' # "done"
             PROVE  Stack'
  BY DEF Stack
<1>1. depth = 0 /\ depth' = 0 /\ tape = <<>>
  BY DEF DocumentStart, IInv, Depths, TapeBound
<1>2. Value(next, <<Skipped>>, "document_end")
  BY DEF DocumentStart, Fail
<1>3. next \in Nat /\ <<Skipped>> \in Seq(Entries) /\ <<>> \in Seq(Entries)
  BY SkippedType DEF IInv, TypeOK
<1>4. SkippedIn(<<Skipped>>) = {1}
  BY DEF SkippedIn, Skipped, Entry
<1>5. SkippedIn(tape') = {1}
  BY <1>2, <1>3, <1>4, ValueWrites
<1>6. Level(0)' = 0
  <2>1. 0 \in Levels
    BY WalkAssumption DEF Levels
  <2>2. QED
    BY <1>1, <2>1 DEF DocumentStart, Level, Opened, IInv, TypeOK
<1>7. pc' # "scope_end"
  <2>1. pc' \in {"document_end", "array_begin", "object_begin", "done"}
    BY <1>2 DEF Value, Fail
  <2>2. QED
    BY <2>1
<1>8. SkippedIn(tape') = {Level(l)' + 1 : l \in 0..depth'}
  BY <1>1, <1>5, <1>6
<1>9. \A l, m \in 0..depth' : l < m => Level(l)' < Level(m)'
  BY <1>1
<1>10. QED
  BY <1>6, <1>7, <1>8, <1>9 DEF Stack, OpenLevels

LEMMA BeginStack ==
  ASSUME IInv, Stack, ObjectBegin \/ ArrayBegin
  PROVE  Stack'
<1>1. tape \in Seq(Entries) /\ next \in Nat
  BY DEF IInv, TypeOK, Entries
<1>2. Append(tape, Skipped) \in Seq(Entries)
  BY <1>1, SkippedType
<1>3. SkippedIn(Append(tape, Skipped)) = SkippedIn(tape) \cup {Len(tape) + 1}
  BY <1>1, SkippedLast
<1>4. CASE ObjectBegin
  <2>1. Key(next, Append(tape, Skipped))
    BY <1>4 DEF ObjectBegin
  <2>2. SkippedIn(tape') = SkippedIn(tape) \cup {Len(tape) + 1}
    BY <1>1, <1>2, <1>3, <2>1, KeyWrites
  <2>3. pc' # "scope_end"
    BY <1>1, <2>1, KeyReads
  <2>4. /\ pc \in Beginning /\ HasRoom /\ depth' = depth + 1
        /\ open_containers' = [open_containers EXCEPT ![depth'] =
                                 Opened(IF IsKey(next) THEN 1 ELSE 0)]
    BY <1>4 DEF ObjectBegin, Beginning
  <2>5. QED
    BY <2>2, <2>3, <2>4, StackPushed
<1>5. CASE ArrayBegin
  <2>1. /\ pc \in Beginning /\ HasRoom /\ depth' = depth + 1
        /\ open_containers' = [open_containers EXCEPT ![depth'] = Opened(1)]
        /\ tape' = Append(tape, Skipped) /\ pc' # "scope_end"
    BY <1>5 DEF ArrayBegin, Beginning
  <2>2. QED
    BY <1>3, <2>1, StackPushed
<1>6. QED
  BY <1>4, <1>5

LEMMA InsideStack ==
  ASSUME IInv, Stack,
         \/ ObjectField \/ ArrayValue \/ NextField \/ NextElement \/ BadContinue
  PROVE  Stack'
<1>1. tape \in Seq(Entries) /\ next \in Nat
  BY DEF IInv, TypeOK, Entries
<1>2. /\ pc \notin {"document_start", "done", "scope_end"}
      /\ UNCHANGED depth
  BY DEF ObjectField, ArrayValue, NextField, NextElement, BadContinue
<1>3. \A l \in 0..depth : Level(l)' = Level(l)
  <2>1. CASE UNCHANGED open_containers
    BY <2>1 DEF Level
  <2>2. CASE Increment
    <3>1. depth \in Levels /\ 0..depth \subseteq Levels
      <4>1. depth \in 1..MaxDepth-1 /\ MaxDepth \in Nat
        BY WalkAssumption
        DEF IInv, Depths, Expecting, Following, NextField, NextElement,
            ObjectField, ArrayValue, BadContinue
      <4>2. QED
        BY <4>1 DEF Levels
    <3>2. /\ \A l \in 0..depth : l # depth =>
                open_containers'[l] = open_containers[l]
          /\ open_containers'[depth] = [open_containers[depth] EXCEPT !.count = @ + 1]
      BY <2>2, <3>1 DEF Increment, IInv, TypeOK
    <3>3. open_containers[depth] \in [tape_index : Nat, count : Nat]
      BY <3>1 DEF IInv, TypeOK
    <3>4. open_containers'[depth].tape_index = open_containers[depth].tape_index
      BY <3>2, <3>3
    <3>5. QED
      BY <3>2, <3>4 DEF Level
  <2>3. QED
    BY <2>1, <2>2
    DEF ObjectField, ArrayValue, NextField, NextElement, BadContinue
<1>4. /\ pc' # "done" => SkippedIn(tape') = SkippedIn(tape)
      /\ pc' # "scope_end"
  <2>1. CASE ObjectField
    <3>1. CASE Value(next + 1, tape, "object_continue")
      <4>1. pc' # "scope_end"
        BY <3>1 DEF Value, Fail
      <4>2. next + 1 \in Nat
        BY <1>1
      <4>3. QED
        BY <1>1, <3>1, <4>1, <4>2, ValueWrites
    <3>2. CASE ~Value(next + 1, tape, "object_continue")
      BY <2>1, <3>2 DEF ObjectField, Fail
    <3>3. QED
      BY <3>1, <3>2
  <2>2. CASE ArrayValue
    <3>1. Value(next, tape, "array_continue")
      BY <2>2 DEF ArrayValue
    <3>2. pc' # "scope_end"
      BY <3>1 DEF Value, Fail
    <3>3. QED
      BY <1>1, <3>1, <3>2, ValueWrites
  <2>3. CASE NextField
    <3>1. Key(next + 1, tape)
      BY <2>3 DEF NextField
    <3>2. next + 1 \in Nat
      BY <1>1
    <3>3. QED
      BY <1>1, <3>1, <3>2, KeyWrites, KeyReads
  <2>4. CASE NextElement \/ BadContinue
    BY <2>4 DEF NextElement, BadContinue, Fail
  <2>5. QED
    BY <2>1, <2>2, <2>3, <2>4
<1>5. QED
  BY <1>2, <1>3, <1>4, StackLeft

LEMMA EndStack ==
  ASSUME IInv, Stack, ObjectEnd \/ ArrayEnd
  PROVE  Stack'
<1>1. PICK open : /\ open \in {"[", "{"}
                  /\ EndContainer(open)
                  /\ pc \in Following \ {"scope_end"}
                  /\ pc' = "scope_end"
                  /\ UNCHANGED <<depth, open_containers>>
  <2>1. CASE ObjectEnd
    BY <2>1 DEF ObjectEnd, End, Following
  <2>2. CASE ArrayEnd
    BY <2>2 DEF ArrayEnd, End, Following
  <2>3. QED
    BY <2>1, <2>2
<1>2. depth \in Levels
  <2>1. depth \in 1..MaxDepth-1 /\ MaxDepth \in Nat
    BY <1>1, WalkAssumption DEF IInv, Depths
  <2>2. QED
    BY <2>1 DEF Levels
<1> DEFINE c     == open_containers[depth]
           saved == IF c.count > CountMax THEN CountMax ELSE c.count
           a     == Entry(Closing(open), c.tape_index, 0)
           b     == Entry(open, Len(tape) + 1, saved)
<1>3. c \in [tape_index : Nat, count : Nat]
  BY <1>2 DEF IInv, TypeOK
<1>4. /\ c.tape_index \in Nat /\ saved \in Nat
      /\ tape \in Seq(Entries) /\ Len(tape) \in Nat
  <2>1. c.tape_index \in Nat /\ saved \in Nat
    <3> HIDE DEF c
    <3>1. QED
      BY <1>3, WalkAssumption
  <2>2. tape \in Seq(Entries)
    BY DEF IInv, TypeOK, Entries
  <2>3. QED
    BY <2>1, <2>2
<1>5. tape' = [Append(tape, a) EXCEPT ![c.tape_index + 1] = b]
  BY <1>1 DEF EndContainer
<1> HIDE DEF saved, c
<1>6. a \in Entries /\ b \in Entries /\ a.type # "skip" /\ b.type # "skip"
  <2>1. /\ Closing(open) \in Types \ {"skip"} /\ open \in Types \ {"skip"}
    BY <1>1 DEF Closing, Types
  <2>2. /\ a = [type |-> Closing(open), value |-> c.tape_index, count |-> 0]
        /\ b = [type |-> open, value |-> Len(tape) + 1, count |-> saved]
    BY DEF Entry
  <2>3. Len(tape) + 1 \in Nat
    BY <1>4
  <2>4. QED
    BY <1>4, <2>1, <2>2, <2>3 DEF Entries
<1> HIDE DEF a, b
<1>7. SkippedIn(Append(tape, a)) = SkippedIn(tape)
  BY <1>4, <1>6, WrittenLast
<1>8. SkippedIn(tape') = SkippedIn(tape) \ {Level(depth) + 1}
  <2>1. c.tape_index + 1 \in Nat /\ Append(tape, a) \in Seq(Entries)
    BY <1>3, <1>4, <1>6
  <2>2. SkippedIn(tape') = SkippedIn(Append(tape, a)) \ {c.tape_index + 1}
    BY <1>5, <1>6, <2>1, WrittenAt
  <2>3. QED
    BY <1>7, <2>2 DEF c, Level
<1>9. QED
  BY <1>1, <1>8, StackClosed

LEMMA ScopeEndStack ==
  ASSUME IInv, Stack, ScopeEnd
  PROVE  Stack'
<1>1. /\ pc = "scope_end" /\ depth' = depth - 1 /\ pc' # "scope_end"
      /\ UNCHANGED <<open_containers, tape>>
  BY DEF ScopeEnd
<1>2. depth \in 1..MaxDepth-1 /\ MaxDepth \in Nat
  BY <1>1, WalkAssumption DEF IInv, Depths, Following
<1>3. OpenLevels = 0..depth-1 /\ OpenLevels' = 0..depth-1
  BY <1>1 DEF OpenLevels
<1>4. \A l : Level(l)' = Level(l)
  BY <1>1 DEF Level
<1>5. SkippedIn(tape') = {Level(l)' + 1 : l \in OpenLevels'}
  BY <1>1, <1>3, <1>4 DEF Stack
<1>6. \A l, m \in 0..depth' : l \in 0..depth /\ m \in 0..depth
  BY <1>1, <1>2
<1>7. \A l, m \in 0..depth' : l < m => Level(l)' < Level(m)'
  BY <1>1, <1>4, <1>6 DEF Stack
<1>8. Level(0)' = 0
  BY <1>1, <1>4 DEF Stack
<1>9. QED
  BY <1>5, <1>7, <1>8 DEF Stack

LEMMA NextStack == IInv /\ Stack /\ [Next]_vars => Stack'
<1> SUFFICES ASSUME IInv, Stack, [Next]_vars
             PROVE  Stack'
  OBVIOUS
<1>1. CASE DocumentStart
  BY <1>1, DocumentStartStack
<1>2. CASE ObjectBegin \/ ArrayBegin
  BY <1>2, BeginStack
<1>3. CASE ObjectField \/ ArrayValue \/ NextField \/ NextElement \/ BadContinue
  BY <1>3, InsideStack
<1>4. CASE ObjectEnd \/ ArrayEnd
  BY <1>4, EndStack
<1>5. CASE ScopeEnd
  BY <1>5, ScopeEndStack
<1>6. CASE NoDocument \/ ObjectTooDeep \/ ArrayTooDeep \/ DocumentEnd
  BY <1>6 DEF NoDocument, ObjectTooDeep, ArrayTooDeep, TooDeep, DocumentEnd,
              Fail, Stack
<1>7. CASE NextDocument
  BY <1>7 DEF NextDocument, Stack
<1>8. CASE UNCHANGED vars
  BY <1>8 DEF vars, Stack, OpenLevels, Level
<1>9. QED
  BY <1>1, <1>2, <1>3, <1>4, <1>5, <1>6, <1>7, <1>8
  DEF Next, WalkStep, Done

(* At every label, the entries kept open for the end of a container are     *)
(* those of the containers around the position, outermost first.            *)
THEOREM StackHolds == Spec => []Stack
<1>1. Init => Stack
  BY DEF Init, Stack
<1>2. QED
  BY <1>1, NextStack, IInvHolds, PTL DEF Spec

(* The labels between two ends of containers tell the kind of the innermost *)
(* one: scope_end finds it on the stack again.                              *)
Kinds == pc \in Expecting \cup {"object_continue", "array_continue"} =>
           (is_array[depth] <=> pc \in {"array_value", "array_continue"})

LEMMA ValueGoesTo ==
  ASSUME NEW k, NEW t, NEW after, Value(k, t, after)
  PROVE  pc' \in {after, "array_begin", "object_begin", "done"}
BY DEF Value, Fail

LEMMA KeyGoesTo ==
  ASSUME NEW k, NEW t, Key(k, t)
  PROVE  pc' \in {"object_field", "done"}
BY DEF Key, Fail

LEMMA BeginKinds ==
  ASSUME IInv, ObjectBegin \/ ArrayBegin
  PROVE  Kinds'
<1>1. depth + 1 \in Levels
  BY WalkAssumption DEF IInv, TypeOK, HasRoom, ObjectBegin, ArrayBegin, Levels
<1>2. depth' = depth + 1 /\ is_array \in [Levels -> BOOLEAN]
  BY DEF ObjectBegin, ArrayBegin, IInv, TypeOK
<1>3. CASE ObjectBegin
  <2>1. is_array' = [is_array EXCEPT ![depth'] = FALSE]
    BY <1>3 DEF ObjectBegin
  <2>2. is_array'[depth'] = FALSE
    BY <1>1, <1>2, <2>1
  <2>3. pc' \in {"object_field", "done"}
    BY <1>3, KeyGoesTo DEF ObjectBegin
  <2>4. QED
    BY <2>2, <2>3 DEF Kinds, Expecting
<1>4. CASE ArrayBegin
  <2>1. is_array' = [is_array EXCEPT ![depth'] = TRUE] /\ pc' = "array_value"
    BY <1>4 DEF ArrayBegin
  <2>2. is_array'[depth'] = TRUE
    BY <1>1, <1>2, <2>1
  <2>3. QED
    BY <2>1, <2>2 DEF Kinds, Expecting
<1>5. QED
  BY <1>3, <1>4

(* Between two ends of containers the kind of the label does not change.    *)
LEMMA InsideKinds ==
  ASSUME Kinds, ObjectField \/ ArrayValue \/ NextField \/ NextElement
  PROVE  Kinds'
<1>1. depth' = depth /\ is_array' = is_array
  BY DEF ObjectField, ArrayValue, NextField, NextElement
<1>2. CASE ObjectField
  <2>1. pc' \in {"object_continue", "array_begin", "object_begin", "done"}
    BY <1>2, ValueGoesTo DEF ObjectField, Fail
  <2>2. QED
    BY <1>1, <1>2, <2>1 DEF ObjectField, Kinds, Expecting
<1>3. CASE ArrayValue
  <2>1. pc' \in {"array_continue", "array_begin", "object_begin", "done"}
    BY <1>3, ValueGoesTo DEF ArrayValue
  <2>2. QED
    BY <1>1, <1>3, <2>1 DEF ArrayValue, Kinds, Expecting
<1>4. CASE NextField
  <2>1. pc' \in {"object_field", "done"}
    BY <1>4, KeyGoesTo DEF NextField
  <2>2. QED
    BY <1>1, <1>4, <2>1 DEF NextField, Kinds, Expecting
<1>5. CASE NextElement
  BY <1>1, <1>5 DEF NextElement, Kinds, Expecting
<1>6. QED
  BY <1>2, <1>3, <1>4, <1>5

LEMMA NextKinds == IInv /\ Kinds /\ [Next]_vars => Kinds'
<1> SUFFICES ASSUME IInv, Kinds, [Next]_vars
             PROVE  Kinds'
  OBVIOUS
<1>1. CASE DocumentStart
  <2>1. pc' \in {"document_end", "array_begin", "object_begin", "done"}
    BY <1>1, ValueGoesTo DEF DocumentStart, Fail
  <2>2. QED
    BY <2>1 DEF Kinds, Expecting
<1>2. CASE ObjectBegin \/ ArrayBegin
  BY <1>2, BeginKinds
<1>3. CASE ObjectField \/ ArrayValue \/ NextField \/ NextElement
  BY <1>3, InsideKinds
<1>4. CASE ScopeEnd
  BY <1>4 DEF ScopeEnd, Kinds, Expecting
<1>5. CASE \/ NoDocument \/ ObjectTooDeep \/ ArrayTooDeep \/ BadContinue
           \/ ObjectEnd \/ ArrayEnd \/ DocumentEnd \/ NextDocument
  <2>1. pc' \in {"done", "scope_end", "document_start"}
    BY <1>5 DEF NoDocument, ObjectTooDeep, ArrayTooDeep, TooDeep, BadContinue,
                ObjectEnd, ArrayEnd, End, DocumentEnd, NextDocument, Fail
  <2>2. QED
    BY <2>1 DEF Kinds, Expecting
<1>6. CASE UNCHANGED vars
  BY <1>6 DEF vars, Kinds
<1>7. QED
  BY <1>1, <1>2, <1>3, <1>4, <1>5, <1>6 DEF Next, WalkStep, Done

LEMMA KindsHold == Spec => []Kinds
<1>1. Init => Kinds
  BY DEF Init, Kinds, Expecting
<1>2. QED
  BY <1>1, NextKinds, IInvHolds, PTL DEF Spec

(* So end_container() overwrites the entry of the container that ends, at a *)
(* label of its kind, and no entry that is written.                         *)
THEOREM StackMatchesTape == Spec => []StackIsTape
<1>1. IInv /\ Stack /\ Kinds => StackIsTape
  <2> SUFFICES ASSUME IInv, Stack, Kinds,
                      pc \notin {"document_start", "done", "scope_end",
                                 "document_end", "object_begin", "array_begin"}
               PROVE  /\ OpenEntries = {Level(l) + 1 : l \in 0..depth}
                      /\ \A l \in 1..depth : Level(l-1) < Level(l)
                      /\ is_array[depth] <=> pc \in {"array_value",
                                                     "array_continue"}
    BY DEF StackIsTape, Level
  <2>1. OpenEntries = {Level(l) + 1 : l \in 0..depth}
    BY DEF Stack, OpenLevels, OpenEntries, SkippedIn
  <2>2. \A l \in 1..depth : l-1 \in 0..depth /\ l \in 0..depth /\ l-1 < l
    BY DEF IInv, TypeOK
  <2>3. \A l \in 1..depth : Level(l-1) < Level(l)
    BY <2>2 DEF Stack
  <2>4. is_array[depth] <=> pc \in {"array_value", "array_continue"}
    BY DEF Kinds, IInv, TypeOK, Labels, Expecting
  <2>5. QED
    BY <2>1, <2>3, <2>4
<1>2. QED
  BY <1>1, StackHolds, KindsHold, IInvHolds, PTL

Written == pc = "done" /\ error = "SUCCESS" => OpenEntries = {}

LEMMA DocumentEndWrites ==
  ASSUME IInv, Stack, DocumentEnd
  PROVE  OpenEntries' = {}
<1>1. tape \in Seq(Entries) /\ Len(tape) \in Nat
  BY DEF IInv, TypeOK, Entries
<1>2. SkippedIn(tape) = {1}
  <2>1. depth = 0
    BY DEF DocumentEnd, IInv, Depths
  <2>2. SkippedIn(tape) = {Level(l) + 1 : l \in 0..0} /\ Level(0) = 0
    BY <2>1 DEF DocumentEnd, Stack, OpenLevels
  <2>3. QED
    BY <2>2
<1> DEFINE a == Entry("r", 0, 0)
           b == Entry("r", Len(tape) + 1, 0)
<1>3. a \in Entries /\ b \in Entries /\ a.type # "skip" /\ b.type # "skip"
  <2>1. Len(tape) + 1 \in Nat
    BY <1>1
  <2>2. QED
    BY <2>1 DEF Entry, Entries, Types
<1>4. tape' = [Append(tape, a) EXCEPT ![1] = b]
  BY DEF DocumentEnd
<1> HIDE DEF a, b
<1>5. SkippedIn(Append(tape, a)) = {1} /\ Append(tape, a) \in Seq(Entries)
  BY <1>1, <1>2, <1>3, WrittenLast
<1>6. SkippedIn(tape') = SkippedIn(Append(tape, a)) \ {1}
  BY <1>3, <1>4, <1>5, WrittenAt
<1>7. QED
  BY <1>5, <1>6 DEF SkippedIn, OpenEntries

(* The tape of a document that is accepted has every entry written. *)
THEOREM AcceptedTapeIsWritten == Spec => []Written
<1>1. Init => Written
  BY DEF Init, Written
<1>2. IInv /\ Stack /\ Written /\ [Next]_vars => Written'
  <2> SUFFICES ASSUME IInv, Stack, Written, [Next]_vars
               PROVE  Written'
    OBVIOUS
  <2>1. CASE DocumentEnd
    BY <2>1, DocumentEndWrites DEF Written
  <2>2. CASE WalkStep /\ ~DocumentEnd
    <3>1. pc' = "done" => error' # "SUCCESS"
      BY <2>2
      DEF WalkStep, NoDocument, DocumentStart, ObjectTooDeep, ArrayTooDeep,
          TooDeep, ObjectBegin, ArrayBegin, ObjectField, ArrayValue, NextField,
          NextElement, ObjectEnd, ArrayEnd, End, BadContinue, ScopeEnd,
          Value, Key, Fail
    <3>2. QED
      BY <3>1 DEF Written
  <2>3. CASE NextDocument \/ Done \/ UNCHANGED vars
    BY <2>3 DEF NextDocument, Done, vars, Written, OpenEntries
  <2>4. QED
    BY <2>1, <2>2, <2>3 DEF Next
<1>3. QED
  BY <1>1, <1>2, StackHolds, IInvHolds, PTL DEF Spec
-----------------------------------------------------------------------------
(* The remainder of what is less than twice the divisor. *)
LEMMA ModOnce ==
    ASSUME NEW w \in Nat, w > 0, NEW v \in Nat, v < 2 * w
    PROVE  v % w = IF v < w THEN v ELSE v - w
  <1>1. CASE v < w
    BY <1>1, SMT
  <1>2. CASE v >= w
    BY <1>2, SMT
  <1>. QED BY <1>1, <1>2

(* numberparsing.h:604 and :737: an integer of one digit more than always  *)
(* fits, d its first digit, wraps to a value from which, with d, it is     *)
(* decided whether the integer itself fits into a word.                    *)
THEOREM OverflowCheck ==
    ASSUME NEW d \in 1..Base-1, NEW r \in 0..Top-1
    PROVE  Overflown(d, (d * Top + r) % Word) <=> d * Top + r >= Word
  <1>. DEFINE v == d * Top + r
  <1>0. /\ Base \in Nat /\ Half \in Nat /\ Top \in Nat /\ Half >= 1
        /\ Half <= Top /\ Top <= Word /\ Word <= 2 * Top /\ 2 * Top - Word <= Half
        /\ Word = 2 * Half /\ INT64_MAX = Half - 1
    BY NumberAssumption DEF Word, INT64_MAX
  <1>1. CASE d = 1
    <2>1. v = Top + r /\ v \in Nat /\ v < 2 * Top /\ v < 2 * Word
      BY <1>0, <1>1
    <2>2. v % Word = IF v < Word THEN v ELSE v - Word
      BY <1>0, <2>1, ModOnce
    <2>3. CASE v < Word
      BY <1>0, <1>1, <2>1, <2>2, <2>3 DEF Overflown
    <2>4. CASE v >= Word
      BY <1>0, <1>1, <2>1, <2>2, <2>4 DEF Overflown
    <2>. HIDE DEF v
    <2>. QED BY <1>0, <2>1, <2>3, <2>4
  <1>2. CASE d >= 2
    <2>1. d * Top >= 2 * Top
      BY <1>0, <1>2
    <2>2. v >= Word
      BY <1>0, <2>1
    <2>. QED BY <1>0, <1>2, <2>2 DEF Overflown
  <1>. QED BY <1>0, <1>1, <1>2

(* numberparsing.h:588, :623 and :883: the two's complement of the digits  *)
(* of a negative integer that passed the check is that integer.            *)
THEOREM NegationIsExact ==
    ASSUME NEW i \in 0..Half
    PROVE  Signed(Word - i) = -i
  <1>0. Half \in Nat /\ Half >= 1 /\ Word = 2 * Half
    BY NumberAssumption DEF Word
  <1>1. CASE i = Half
    <2>1. (Word - i) + Half = Word /\ Word \in Nat /\ Word > 0
      BY <1>0, <1>1
    <2>2. Word % Word = 0
      BY <2>1, ModOnce
    <2>. QED BY <1>0, <1>1, <2>1, <2>2 DEF Signed
  <1>2. CASE i < Half
    <2>1. /\ (Word - i) + Half \in Nat /\ Word \in Nat /\ Word > 0
          /\ (Word - i) + Half < 2 * Word /\ (Word - i) + Half >= Word
      BY <1>0, <1>2
    <2>2. ((Word - i) + Half) % Word = ((Word - i) + Half) - Word
      BY <2>1, ModOnce
    <2>. QED BY <1>0, <1>2, <2>1, <2>2 DEF Signed
  <1>. QED BY <1>0, <1>1, <1>2

(* numberparsing.h:735 and :842: what the check lets through is the        *)
(* integer, not what is left of it.                                        *)
COROLLARY AcceptedIsExact ==
    ASSUME NEW d \in 1..Base-1, NEW r \in 0..Top-1,
           ~Overflown(d, (d * Top + r) % Word)
    PROVE  (d * Top + r) % Word = d * Top + r
  <1>1. d * Top + r \in Nat /\ Word \in Nat /\ Word > 0
    BY NumberAssumption DEF Word
  <1>2. d * Top + r < Word
    BY <1>1, OverflowCheck
  <1>. HIDE DEF Word
  <1>. QED BY <1>1, <1>2, ModOnce

-----------------------------------------------------------------------------
Index == INSTANCE StructuralIndex_proofs

Bytes   == 0..255
ClosingQuote == Min(Quotes(text))

(* Where a window is unescaped from is neither escaped nor behind the       *)
(* closing quote, and what is written is not longer than what was read.     *)
StringInv ==
    /\ text \in Texts
    /\ width \in Widths
    /\ policy \in Policies
    /\ result \in {"none", "end", "error"}
    /\ src \in 1..ClosingQuote
    /\ src \notin Escaped(text)
    /\ dst \in Seq(Bytes)
    /\ Len(dst) < src + (IF result = "end" THEN width ELSE 0)
    /\ result = "end" => src + First(Quote) - 1 = ClosingQuote
-----------------------------------------------------------------------------
(* The recursion of Escaped, and that there is such a function. *)
Escaping(t, f, i) == i > 1 /\ t[i-1] = Backslash /\ ~f[i-1]

LEMMA EscapingExists ==
  ASSUME NEW t
  PROVE  \A m \in Nat : \E f : f = [i \in 1..m |-> Escaping(t, f, i)]
<1> DEFINE T == {m \in Nat : ~ \E f : f = [i \in 1..m |-> Escaping(t, f, i)]}
<1>1. SUFFICES ASSUME T # {}
               PROVE  FALSE
  BY Zenon
<1>2. PICK m \in T : \A y \in T : m <= y
  <2> HIDE DEF T
  <2>1. T \in SUBSET Nat
    BY DEF T
  <2>2. QED
    BY <1>1, <2>1, Index!Smallest
<1>3. CASE m = 0
  <2>1. [i \in 1..m |-> FALSE] = [i \in 1..m |-> Escaping(t, [j \in 1..m |-> FALSE], i)]
    BY <1>3
  <2>2. QED
    BY <2>1, <1>2
<1>4. CASE m # 0
  <2>1. m - 1 \in Nat
    BY <1>4, <1>2
  <2>2. m - 1 \notin T
    <3> HIDE DEF T
    <3>1. m \in Nat
      BY DEF T
    <3>2. QED
      BY <3>1, <1>2
  <2>3. PICK f : f = [i \in 1..m-1 |-> Escaping(t, f, i)]
    BY <2>1, <2>2
  <2> DEFINE g == [i \in 1..m |-> IF i = m THEN Escaping(t, f, m) ELSE f[i]]
  <2>4. ASSUME NEW i \in 1..m
        PROVE  Escaping(t, g, i) = Escaping(t, f, i)
    <3>1. CASE i > 1
      <4>1. i-1 \in 1..m /\ i-1 # m
        BY <2>1, <3>1
      <4>2. g[i-1] = f[i-1]
        BY <4>1
      <4> HIDE DEF g
      <4>3. QED
        BY <4>2, Zenon DEF Escaping
    <3>2. CASE ~(i > 1)
      BY <3>2, Zenon DEF Escaping
    <3>3. QED
      BY <3>1, <3>2
  <2>5. ASSUME NEW i \in 1..m-1
        PROVE  f[i] = Escaping(t, f, i)
    BY <2>3, Zenon
  <2>6. ASSUME NEW i \in 1..m
        PROVE  g[i] = Escaping(t, g, i)
    <3>1. CASE i = m
      <4>1. g[i] = Escaping(t, f, m)
        BY <3>1, Zenon
      <4> HIDE DEF g
      <4>2. QED
        BY <3>1, <2>4, <4>1, Zenon
    <3>2. CASE i # m
      <4>1. i \in 1..m-1
        BY <3>2, <2>1
      <4>2. g[i] = f[i]
        BY <3>2, Zenon
      <4> HIDE DEF g
      <4>3. QED
        BY <4>1, <4>2, <2>4, <2>5, Zenon
    <3>3. QED
      BY <3>1, <3>2
  <2>7. g = [i \in 1..m |-> Escaping(t, g, i)]
    <3>1. g = [i \in 1..m |-> g[i]]
      BY Zenon
    <3> HIDE DEF g
    <3>2. QED
      BY <3>1, <2>6, Zenon
  <2>8. QED
    BY <2>7, <1>2
<1>5. QED
  BY <1>3, <1>4

(* Which bytes are escaped. *)
LEMMA EscapedBytes ==
  ASSUME NEW t \in Seq(Bytes), NEW i \in 1..Len(t)
  PROVE  i \in Escaped(t)
           <=> i > 1 /\ t[i-1] = Backslash /\ i-1 \notin Escaped(t)
<1> DEFINE escaped == CHOOSE f : f = [j \in 1..Len(t) |-> Escaping(t, f, j)]
<1>1. Len(t) \in Nat
  OBVIOUS
<1>2. escaped = [j \in 1..Len(t) |-> Escaping(t, escaped, j)]
  <2>1. \E f : f = [j \in 1..Len(t) |-> Escaping(t, f, j)]
    BY <1>1, EscapingExists, Zenon
  <2>2. QED
    BY <2>1, Zenon
<1>3. Escaped(t) = {j \in 1..Len(t) : escaped[j]}
  BY Zenon DEF Escaped, Escaping
<1> HIDE DEF escaped
<1>4. \A j \in 1..Len(t) : escaped[j] = Escaping(t, escaped, j)
  BY <1>2, Zenon
<1>5. \A j \in 1..Len(t) : j \in Escaped(t) <=> Escaping(t, escaped, j)
  BY <1>3, <1>4, Zenon
<1>6. i > 1 => i-1 \in 1..Len(t)
  BY <1>1
<1>7. QED
  BY <1>3, <1>5, <1>6, Zenon DEF Escaping

(* A byte that is no backslash does not escape the next, and a backslash    *)
(* that is not escaped does.                                                *)
LEMMA NotEscaped ==
  ASSUME NEW t \in Seq(Bytes), NEW i \in 1..Len(t), i > 1 => t[i-1] # Backslash
  PROVE  i \notin Escaped(t)
BY EscapedBytes

LEMMA BehindBackslash ==
  ASSUME NEW t \in Seq(Bytes), NEW i \in 1..Len(t), i + 1 \in 1..Len(t),
         t[i] = Backslash, i \notin Escaped(t)
  PROVE  i + 1 \in Escaped(t)
<1>1. i + 1 > 1 /\ (i + 1) - 1 = i
  OBVIOUS
<1>2. QED
  BY <1>1, EscapedBytes

(* The closing quote, and the padding behind it. *)
LEMMA ClosingIsQuote ==
  ASSUME text \in Texts
  PROVE  /\ text \in Seq(Bytes)
         /\ ClosingQuote \in 1..Len(text)
         /\ ClosingQuote + Padding <= Len(text)
         /\ text[ClosingQuote] = Quote
         /\ ClosingQuote \notin Escaped(text)
         /\ \A q \in Quotes(text) : ClosingQuote <= q
<1>1. text \in Seq(Bytes) /\ Len(text) \in Nat
  BY DEF Texts, Bytes
<1>2. PICK q \in Quotes(text) : q + Padding <= Len(text)
  BY DEF Texts
<1>3. Quotes(text) \in SUBSET Nat /\ Quotes(text) # {}
  BY <1>1, <1>2 DEF Quotes
<1>4. \E x \in Quotes(text) : \A y \in Quotes(text) : x <= y
  BY <1>3, Index!Smallest
<1>5. ClosingQuote \in Quotes(text) /\ \A y \in Quotes(text) : ClosingQuote <= y
  BY <1>4 DEF ClosingQuote, Min
<1>6. /\ ClosingQuote \in 1..Len(text) /\ text[ClosingQuote] = Quote
      /\ ClosingQuote \notin Escaped(text)
  BY <1>5 DEF Quotes
<1>7. ClosingQuote + Padding <= Len(text)
  <2>1. ClosingQuote <= q /\ q \in Nat /\ Padding \in Nat
    BY <1>2, <1>3, <1>5, StringAssumption
  <2>2. QED
    BY <1>1, <1>2, <1>6, <2>1
<1>8. QED
  BY <1>1, <1>5, <1>6, <1>7
-----------------------------------------------------------------------------
(* copy_and_find() reads the text, and finds the first of each. *)
LEMMA WindowIsText ==
  ASSUME StringInv
  PROVE  /\ width \in Nat /\ width > 0
         /\ Window \in Seq(Bytes) /\ Len(Window) = width
         /\ \A k \in 1..width : /\ Window[k] = text[src + k - 1]
                                /\ src + k - 1 \in 1..Len(text)
<1>1. /\ text \in Seq(Bytes) /\ Len(text) \in Nat /\ ClosingQuote \in Nat
      /\ src \in Nat /\ src >= 1 /\ src <= ClosingQuote
      /\ ClosingQuote + Padding <= Len(text)
  BY ClosingIsQuote DEF StringInv
<1>2. width \in Nat /\ width > 0 /\ width <= Padding /\ Padding \in Nat
  BY StringAssumption DEF StringInv
<1>3. src + width - 1 <= Len(text) /\ src + width - 1 >= src /\ src + width - 1 \in Nat
  BY <1>1, <1>2
<1>4. Window = [k \in 1..width |-> text[src + k - 1]]
  BY <1>1, <1>2, <1>3 DEF Window
<1>5. \A k \in 1..width : src + k - 1 \in 1..Len(text) /\ text[src + k - 1] \in Bytes
  BY <1>1, <1>2, <1>3
<1>6. QED
  BY <1>2, <1>4, <1>5

LEMMA FirstInWindow ==
  ASSUME StringInv, NEW c
  PROVE  /\ First(c) \in 1..width + 1
         /\ First(c) <= width => text[src + First(c) - 1] = c
         /\ \A k \in 1..width : text[src + k - 1] = c => First(c) <= k
<1> DEFINE S == {width + 1} \cup {k \in 1..width : Window[k] = c}
<1>1. width \in Nat /\ width > 0
  BY WindowIsText
<1>2. S \in SUBSET Nat /\ S # {}
  BY <1>1
<1>3. First(c) = Min(S)
  BY DEF First
<1>4. First(c) \in S /\ \A y \in S : First(c) <= y
  <2> HIDE DEF S
  <2>1. \E x \in S : \A y \in S : x <= y
    BY <1>2, Index!Smallest
  <2>2. QED
    BY <1>3, <2>1 DEF Min
<1>5. QED
  BY <1>1, <1>4, WindowIsText

(* In front of the closing quote there is only one quote to find. *)
LEMMA NoBackslashBefore ==
  ASSUME StringInv, NEW e \in src..Len(text),
         \A i \in src..e-1 : text[i] # Backslash
  PROVE  e \notin Escaped(text)
<1>1. text \in Seq(Bytes) /\ Len(text) \in Nat /\ src \in Nat /\ src >= 1
  BY ClosingIsQuote DEF StringInv
<1>2. CASE e = src
  BY <1>2 DEF StringInv
<1>3. CASE e # src
  <2>1. e-1 \in src..e-1 /\ e \in 1..Len(text)
    BY <1>1, <1>3
  <2>2. QED
    BY <1>1, <2>1, NotEscaped
<1>4. QED
  BY <1>2, <1>3

LEMMA NoQuoteBefore ==
  ASSUME StringInv, NEW e \in Nat, \A i \in src..e-1 : text[i] # Quote
  PROVE  e <= ClosingQuote
BY ClosingIsQuote DEF StringInv

LEMMA WindowBefore ==
  ASSUME StringInv, NEW c, NEW f \in 1..width + 1, f <= First(c)
  PROVE  \A i \in src..src + f - 2 : text[i] # c
<1>1. width \in Nat /\ src \in Nat
  BY WindowIsText, ClosingIsQuote DEF StringInv
<1> TAKE i \in src..src + f - 2
<1> DEFINE k == i - src + 1
<1>2. k \in 1..width /\ k < f /\ src + k - 1 = i
  BY <1>1
<1>3. First(c) \in Nat
  BY <1>1, FirstInWindow
<1>4. QED
  <2> HIDE DEF k
  <2>1. text[src + k - 1] = c => First(c) <= k
    BY <1>2, FirstInWindow
  <2>2. k \in Nat /\ f \in Nat
    BY <1>1, <1>2
  <2>3. QED
    BY <1>2, <1>3, <2>1, <2>2
-----------------------------------------------------------------------------
(* Escapes: hexadecimal digits, code points and surrogates. *)
LEMMA DigitIsSmall == \A c \in DOMAIN digit_to_val : digit_to_val[c] \in 0..15
  BY DEF digit_to_val

LEMMA NoDigit == Quote \notin DOMAIN digit_to_val /\ Backslash \notin DOMAIN digit_to_val
  BY DEF digit_to_val, Quote, Backslash

LEMMA NotHexIsBeyond == NotHex \in Nat /\ NotHex > 1114111
  BY SMT DEF NotHex

LEMMA HexValue ==
  ASSUME NEW at \in Nat
  PROVE  /\ hex_to_u32_nocheck(at) \in Nat
         /\ hex_to_u32_nocheck(at) # NotHex =>
              \A k \in at..at+3 : text[k] \notin {Quote, Backslash}
<1>1. CASE IsHex(at)
  <2>1. \A k \in at..at+3 : text[k] \notin {Quote, Backslash}
    BY <1>1, NoDigit DEF IsHex
  <2>2. /\ at \in at..at+3 /\ at+1 \in at..at+3
        /\ at+2 \in at..at+3 /\ at+3 \in at..at+3
    OBVIOUS
  <2> DEFINE a == digit_to_val[text[at]]
             b == digit_to_val[text[at+1]]
             c == digit_to_val[text[at+2]]
             d == digit_to_val[text[at+3]]
  <2>3. a \in Nat /\ b \in Nat /\ c \in Nat /\ d \in Nat
    BY <1>1, <2>2, DigitIsSmall DEF IsHex
  <2>4. hex_to_u32_nocheck(at) = Digits(a, b, c, d)
    BY <1>1, SMT DEF hex_to_u32_nocheck
  <2> HIDE DEF a, b, c, d
  <2>5. Digits(a, b, c, d) \in Nat
    BY <2>3, SMT DEF Digits
  <2>6. QED
    BY <2>1, <2>4, <2>5
<1>2. CASE ~IsHex(at)
  <2>1. hex_to_u32_nocheck(at) = NotHex
    BY <1>2, SMT DEF hex_to_u32_nocheck
  <2>2. QED
    BY <2>1, NotHexIsBeyond
<1>3. QED
  BY <1>1, <1>2

(* UTF-8 has one to four bytes, and none for what is no code point. *)
LEMMA RestIsByte == \A cp \in Nat, unit \in {1, 64, 4096} : Rest(cp, unit) \in Bytes
  BY SMT DEF Rest, Bytes

LEMMA LeadIsByte ==
  ASSUME NEW cp \in Nat
  PROVE  /\ cp <= 2047 => Lead(192, cp, 64) \in Bytes
         /\ cp <= 65535 => Lead(224, cp, 4096) \in Bytes
         /\ cp <= 1114111 => Lead(240, cp, 262144) \in Bytes
  BY SMT DEF Lead, Bytes

LEMMA Utf8Bytes ==
  ASSUME NEW cp \in Nat
  PROVE  /\ codepoint_to_utf8(cp) \in Seq(Bytes)
         /\ Len(codepoint_to_utf8(cp)) \in 0..4
         /\ codepoint_to_utf8(cp) # <<>> => cp <= 1114111
<1>1. CASE cp <= 127
  <2>1. codepoint_to_utf8(cp) = <<cp>> /\ cp \in Bytes /\ cp <= 1114111
    BY <1>1, SMT DEF codepoint_to_utf8, Bytes
  <2>2. QED
    BY <2>1, SMT
<1>2. CASE cp > 127 /\ cp <= 2047
  <2>1. codepoint_to_utf8(cp) = <<Lead(192, cp, 64), Rest(cp, 1)>> /\ cp <= 1114111
    BY <1>2, SMT DEF codepoint_to_utf8
  <2>2. QED
    BY <1>2, <2>1, LeadIsByte, RestIsByte, SMT
<1>3. CASE cp > 2047 /\ cp <= 65535
  <2>1. /\ codepoint_to_utf8(cp) = <<Lead(224, cp, 4096), Rest(cp, 64), Rest(cp, 1)>>
        /\ cp <= 1114111
    BY <1>3, SMT DEF codepoint_to_utf8
  <2>2. QED
    BY <1>3, <2>1, LeadIsByte, RestIsByte, SMT
<1>4. CASE cp > 65535 /\ cp <= 1114111
  <2>1. codepoint_to_utf8(cp) =
          <<Lead(240, cp, 262144), Rest(cp, 4096), Rest(cp, 64), Rest(cp, 1)>>
    BY <1>4, SMT DEF codepoint_to_utf8
  <2>2. QED
    BY <1>4, <2>1, LeadIsByte, RestIsByte, SMT
<1>5. CASE cp > 1114111
  BY <1>5, SMT DEF codepoint_to_utf8
<1>6. QED
  BY <1>1, <1>2, <1>3, <1>4, <1>5, SMT

(* A surrogate pair is a code point outside the basic plane. *)
LEMMA SurrogatePair ==
  ASSUME NEW high, High(high), NEW low, Low(low)
  PROVE  Pair(high, low) \in Nat
<1>1. high \in Nat /\ low \in Nat /\ high >= 55296 /\ low >= 56320
  BY SMT DEF High, Low
<1>2. QED
  BY <1>1, SMT DEF Pair

LEMMA SurrogateIsHex ==
  ASSUME NEW cp, High(cp) \/ Low(cp)
  PROVE  cp # NotHex
BY SMT DEF High, Low, NotHex

LEMMA LoneIsCode ==
  ASSUME NEW cp \in Nat, NEW code \in Lone(cp)
  PROVE  code \in Nat
<1>1. substitution_code_point \in Nat
  BY SMT DEF substitution_code_point
<1>2. QED
  BY <1>1, Zenon DEF Lone

(* An escape that becomes a character is what it takes of the text: \u and  *)
(* four digits, or twice that.                                              *)
LEMMA EscapeTaken ==
  ASSUME NEW p \in Nat, p + 7 <= Len(text), text \in Seq(Bytes),
         NEW code \in handle_unicode_codepoint(p).code,
         codepoint_to_utf8(code) # <<>>
  PROVE  /\ code \in Nat
         /\ \A k \in p+2..p+5 : text[k] \notin {Quote, Backslash}
         /\ \/ handle_unicode_codepoint(p).length = 6
            \/ /\ handle_unicode_codepoint(p).length = 12
               /\ text[p+6] = Backslash /\ text[p+7] = LetterU
               /\ \A k \in p+8..p+11 : text[k] \notin {Quote, Backslash}
<1> DEFINE cp == hex_to_u32_nocheck(p + 2)
<1>1. /\ cp \in Nat
      /\ cp # NotHex => \A k \in p+2..p+5 : text[k] \notin {Quote, Backslash}
  <2>1. p + 2 \in Nat /\ (p + 2) + 3 = p + 5
    BY SMT
  <2> HIDE DEF cp
  <2>2. /\ cp \in Nat
        /\ cp # NotHex => \A k \in p+2..(p+2)+3 : text[k] \notin {Quote, Backslash}
    BY <2>1, HexValue, Zenon DEF cp
  <2>3. QED
    BY <2>1, <2>2, Zenon
<1>2. handle_unicode_codepoint(p) =
        IF High(cp) /\ Low(Second(p))
        THEN [code |-> {Pair(cp, Second(p))}, length |-> 12]
        ELSE [code |-> IF High(cp) \/ Low(cp) THEN Lone(cp) ELSE {cp}, length |-> 6]
  BY SMT DEF handle_unicode_codepoint
<1> HIDE DEF cp
<1>3. CASE High(cp) /\ Low(Second(p))
  <2>1. /\ handle_unicode_codepoint(p).length = 12
        /\ code = Pair(cp, Second(p))
    BY <1>2, <1>3, SMT
  <2>2. code \in Nat /\ cp # NotHex /\ Second(p) # NotHex
    BY <1>3, <2>1, SurrogatePair, SurrogateIsHex, SMT
  <2>3. SubSeq(text, p + 6, p + 7) = <<Backslash, LetterU>>
    BY <2>2, SMT DEF Second
  <2>4. text[p+6] = Backslash /\ text[p+7] = LetterU
    <3>1. /\ SubSeq(text, p + 6, p + 7)[1] = text[p+6]
          /\ SubSeq(text, p + 6, p + 7)[2] = text[p+7]
      BY SMT
    <3>2. QED
      <4>1. <<Backslash, LetterU>>[1] = Backslash /\ <<Backslash, LetterU>>[2] = LetterU
        OBVIOUS
      <4>2. QED
        BY <2>3, <3>1, <4>1, Zenon
  <2>5. \A k \in p+8..p+11 : text[k] \notin {Quote, Backslash}
    <3>1. Second(p) = hex_to_u32_nocheck(p + 8)
      BY <2>3, SMT DEF Second
    <3>2. p + 8 \in Nat /\ (p + 8) + 3 = p + 11
      BY SMT
    <3>3. QED
      BY <2>2, <3>1, <3>2, HexValue, Zenon
  <2>6. QED
    BY <1>1, <2>1, <2>2, <2>4, <2>5, SMT
<1>4. CASE ~(High(cp) /\ Low(Second(p))) /\ (High(cp) \/ Low(cp))
  <2>1. /\ handle_unicode_codepoint(p).length = 6
        /\ code \in Lone(cp)
    BY <1>2, <1>4, SMT
  <2>2. cp # NotHex /\ code \in Nat
    BY <1>1, <1>4, <2>1, SurrogateIsHex, LoneIsCode, SMT
  <2>3. QED
    BY <1>1, <2>1, <2>2, SMT
<1>5. CASE ~(High(cp) \/ Low(cp))
  <2>1. handle_unicode_codepoint(p).length = 6 /\ code = cp
    BY <1>2, <1>5, SMT
  <2>2. cp # NotHex
    BY <1>1, <2>1, Utf8Bytes, NotHexIsBeyond, SMT
  <2>3. QED
    BY <1>1, <2>1, <2>2, SMT
<1>6. QED
  BY <1>3, <1>4, <1>5, SMT
-----------------------------------------------------------------------------
(* One window after the other. *)
LEMMA BeforeIsCopied ==
  ASSUME StringInv, NEW f \in 1..width + 1
  PROVE  Before(f) \in Seq(Bytes) /\ Len(Before(f)) = Len(dst) + f - 1
<1>1. Window \in Seq(Bytes) /\ Len(Window) = width /\ width \in Nat /\ f - 1 \in 0..width
  BY WindowIsText
<1>2. SubSeq(Window, 1, f - 1) \in Seq(Bytes) /\ Len(SubSeq(Window, 1, f - 1)) = f - 1
  BY <1>1
<1>3. dst \in Seq(Bytes) /\ Len(dst) \in Nat
  BY DEF StringInv
<1>4. QED
  BY <1>2, <1>3 DEF Before

(* The first backslash of the window is in front of the closing quote, and  *)
(* escapes what follows.                                                    *)
LEMMA EscapeIsInString ==
  ASSUME StringInv, has_backslash
  PROVE  /\ First(Backslash) \in 1..width
         /\ Escape \in src..ClosingQuote - 2
         /\ Escape = src + First(Backslash) - 1
         /\ text[Escape] = Backslash
         /\ Escape \notin Escaped(text)
         /\ Escape + 1 \in Escaped(text)
<1> DEFINE f == First(Backslash)
<1>1. /\ f \in 1..width /\ width \in Nat /\ f <= First(Quote) /\ f # First(Quote)
  BY FirstInWindow, WindowIsText DEF has_backslash
<1>2. Escape = src + f - 1 /\ text[Escape] = Backslash
  BY <1>1, FirstInWindow DEF Escape
<1>3. /\ text \in Seq(Bytes) /\ Len(text) \in Nat /\ src \in Nat /\ src >= 1
      /\ ClosingQuote \in 1..Len(text) /\ text[ClosingQuote] = Quote
      /\ ClosingQuote \notin Escaped(text)
  BY ClosingIsQuote DEF StringInv
<1>4. Escape \in src..Len(text)
  BY <1>1, <1>2, <1>3, WindowIsText
<1> HIDE DEF f
<1>5. Escape \notin Escaped(text)
  <2>1. \A i \in src..src + f - 2 : text[i] # Backslash
    <3>1. f \in 1..width + 1 /\ f <= First(Backslash)
      BY <1>1 DEF f
    <3>2. QED
      BY <3>1, WindowBefore
  <2>2. Escape - 1 = src + f - 2
    BY <1>1, <1>2, <1>3
  <2>3. QED
    BY <1>4, <2>1, <2>2, NoBackslashBefore
<1>6. Escape < ClosingQuote
  <2>1. \A i \in src..src + f - 2 : text[i] # Quote
    <3>1. f \in 1..width + 1
      BY <1>1
    <3>2. QED
      BY <1>1, <3>1, WindowBefore
  <2>2. Escape \in Nat /\ Escape - 1 = src + f - 2
    BY <1>1, <1>2, <1>3
  <2>3. Escape <= ClosingQuote
    BY <2>1, <2>2, NoQuoteBefore
  <2>4. Escape # ClosingQuote
    BY <1>2, <1>3 DEF Quote, Backslash
  <2>5. QED
    BY <1>3, <2>2, <2>3, <2>4
<1>7. Escape + 1 \in Escaped(text)
  <2>1. Escape \in 1..Len(text) /\ Escape + 1 \in 1..Len(text)
    BY <1>3, <1>4, <1>6
  <2>2. QED
    BY <1>2, <1>3, <1>5, <2>1, BehindBackslash
<1>8. Escape # ClosingQuote - 1
  BY <1>3, <1>7
<1>9. Escape \in src..ClosingQuote - 2
  BY <1>3, <1>4, <1>6, <1>8
<1>10. QED
  BY <1>1, <1>2, <1>5, <1>7, <1>9 DEF f

LEMMA EndKeeps ==
  ASSUME StringInv, EndOfString
  PROVE  StringInv'
<1> DEFINE f == First(Quote)
           e == src + f - 1
<1>1. /\ f \in 1..width /\ width \in Nat /\ f <= First(Backslash)
  BY FirstInWindow, WindowIsText DEF EndOfString, has_quote_first
<1>2. text[e] = Quote
  BY <1>1, FirstInWindow
<1>3. /\ text \in Seq(Bytes) /\ Len(text) \in Nat /\ src \in Nat /\ src >= 1
      /\ ClosingQuote \in 1..Len(text) /\ text[ClosingQuote] = Quote
      /\ \A q \in Quotes(text) : ClosingQuote <= q
  BY ClosingIsQuote DEF StringInv
<1>4. e \in src..Len(text)
  BY <1>1, <1>3, WindowIsText
<1>5. e - 1 = src + f - 2 /\ e \in Nat
  BY <1>1, <1>3
<1>6. f \in 1..width + 1 /\ f <= First(Quote)
  BY <1>1
<1>7. /\ \A i \in src..e-1 : text[i] # Backslash
      /\ \A i \in src..e-1 : text[i] # Quote
  <2> HIDE DEF e
  <2>1. /\ \A i \in src..src + f - 2 : text[i] # Backslash
        /\ \A i \in src..src + f - 2 : text[i] # Quote
    <3> HIDE DEF f
    <3>1. QED
      BY <1>1, <1>6, WindowBefore
  <2>2. QED
    BY <1>5, <2>1
<1> HIDE DEF e
<1>8. e = ClosingQuote
  <2>1. e \in Quotes(text)
    BY <1>2, <1>3, <1>4, <1>7, NoBackslashBefore DEF Quotes
  <2>2. ClosingQuote <= e /\ e <= ClosingQuote
    BY <1>3, <1>5, <1>7, <2>1, NoQuoteBefore
  <2>3. QED
    BY <1>3, <1>5, <2>2
<1>9. dst' = Before(f) /\ result' = "end" /\ UNCHANGED <<text, width, policy, src>>
  BY DEF EndOfString, Step
<1>10. Before(f) \in Seq(Bytes) /\ Len(Before(f)) = Len(dst) + f - 1
  BY <1>6, BeforeIsCopied
<1>11. First(Quote)' = First(Quote) /\ ClosingQuote' = ClosingQuote
  BY <1>9 DEF First, Window, ClosingQuote
<1>12. result = "none" /\ Len(dst) \in Nat /\ Len(dst) < src
  BY DEF EndOfString, Step, StringInv
<1>13. Len(dst') < src' + width
  <2> HIDE DEF f
  <2>1. QED
    BY <1>1, <1>3, <1>9, <1>10, <1>12
<1>14. src + First(Quote) - 1 = ClosingQuote
  BY <1>8 DEF e
<1>15. QED
  BY <1>9, <1>10, <1>11, <1>13, <1>14 DEF StringInv

(* Going on behind what was read, with less written. *)
LEMMA GoesOn ==
  ASSUME StringInv, result = "none", result' = "none",
         UNCHANGED <<text, width, policy>>,
         src' \in src..ClosingQuote, src' \notin Escaped(text),
         dst' \in Seq(Bytes), Len(dst') < src'
  PROVE  StringInv'
<1>1. ClosingQuote' = ClosingQuote
  BY DEF ClosingQuote
<1>2. src' \in 1..ClosingQuote
  BY ClosingIsQuote DEF StringInv
<1>3. QED
  BY <1>1, <1>2 DEF StringInv

LEMMA UnescapeKeeps ==
  ASSUME StringInv, Unescape
  PROVE  StringInv'
<1>1. /\ result = "none" /\ result' = "none" /\ UNCHANGED <<text, width, policy>>
      /\ has_backslash
      /\ src' = Escape + 2
      /\ dst' = Append(Before(First(Backslash)), escape_map[EscapeChar])
      /\ EscapeChar \in DOMAIN escape_map
  BY DEF Unescape, Step
<1> DEFINE f == First(Backslash)
<1>2. /\ f \in 1..width /\ Escape \in src..ClosingQuote - 2
      /\ Escape = src + f - 1 /\ Escape + 1 \in Escaped(text)
  BY <1>1, EscapeIsInString
<1>3. /\ text \in Seq(Bytes) /\ Len(text) \in Nat /\ src \in Nat
      /\ ClosingQuote \in 1..Len(text) /\ width \in Nat
      /\ Len(dst) \in Nat /\ Len(dst) < src
  BY <1>1, ClosingIsQuote, WindowIsText DEF StringInv
<1>4. src' \in src..ClosingQuote /\ src' \in 1..Len(text)
  BY <1>1, <1>2, <1>3
<1>5. src' \notin Escaped(text)
  <2>1. src' - 1 = Escape + 1
    BY <1>1, <1>2, <1>3
  <2>2. QED
    BY <1>2, <1>3, <1>4, <2>1, EscapedBytes
<1>6. escape_map[EscapeChar] \in Bytes
  BY <1>1 DEF escape_map, Bytes
<1>7. Before(f) \in Seq(Bytes) /\ Len(Before(f)) = Len(dst) + f - 1
  <2>1. f \in 1..width + 1
    BY <1>2, <1>3
  <2>2. QED
    BY <2>1, BeforeIsCopied
<1> HIDE DEF f
<1>8. dst' = Append(Before(f), escape_map[EscapeChar])
  BY <1>1 DEF f
<1>9. dst' \in Seq(Bytes) /\ Len(dst') = Len(dst) + f
  BY <1>2, <1>3, <1>6, <1>7, <1>8
<1>10. Len(dst') < src'
  BY <1>1, <1>2, <1>3, <1>9
<1>11. QED
  BY <1>1, <1>4, <1>5, <1>9, <1>10, GoesOn

LEMMA Joined ==
  ASSUME NEW s \in Seq(Bytes), NEW t \in Seq(Bytes)
  PROVE  s \o t \in Seq(Bytes) /\ Len(s \o t) = Len(s) + Len(t)
OBVIOUS

LEMMA UnicodeKeeps ==
  ASSUME StringInv, Unicode
  PROVE  StringInv'
<1>1. /\ result = "none" /\ result' = "none" /\ UNCHANGED <<text, width, policy>>
      /\ has_backslash /\ EscapeChar = LetterU
  BY DEF Unicode, Step
<1>2. PICK code \in handle_unicode_codepoint(Escape).code :
         /\ codepoint_to_utf8(code) # <<>>
         /\ dst' = Before(First(Backslash)) \o codepoint_to_utf8(code)
         /\ src' = Escape + handle_unicode_codepoint(Escape).length
  BY DEF Unicode
<1> DEFINE f == First(Backslash)
           p == Escape
<1>3. /\ f \in 1..width /\ p \in src..ClosingQuote - 2
      /\ p = src + f - 1 /\ p + 1 \in Escaped(text)
  BY <1>1, EscapeIsInString
<1>4. /\ text \in Seq(Bytes) /\ Len(text) \in Nat /\ src \in Nat
      /\ ClosingQuote \in 1..Len(text) /\ width \in Nat
      /\ ClosingQuote + 12 <= Len(text)
      /\ text[ClosingQuote] = Quote /\ ClosingQuote \notin Escaped(text)
      /\ Len(dst) \in Nat /\ Len(dst) < src
  <2>1. ClosingQuote + Padding <= Len(text)
    BY ClosingIsQuote DEF StringInv
  <2>2. QED
    BY <1>1, <2>1, ClosingIsQuote, WindowIsText, StringAssumption DEF StringInv
<1>5. p \in Nat /\ p + 7 <= Len(text)
  BY <1>3, <1>4
<1>6. /\ code \in Nat
      /\ \A k \in p+2..p+5 : text[k] \notin {Quote, Backslash}
      /\ \/ handle_unicode_codepoint(p).length = 6
         \/ /\ handle_unicode_codepoint(p).length = 12
            /\ text[p+6] = Backslash /\ text[p+7] = LetterU
            /\ \A k \in p+8..p+11 : text[k] \notin {Quote, Backslash}
  BY <1>2, <1>4, <1>5, EscapeTaken
<1>7. /\ codepoint_to_utf8(code) \in Seq(Bytes)
      /\ Len(codepoint_to_utf8(code)) \in 0..4
  BY <1>6, Utf8Bytes
<1> DEFINE utf8 == codepoint_to_utf8(code)
<1>8. Before(f) \in Seq(Bytes) /\ Len(Before(f)) = Len(dst) + f - 1
  <2>1. f \in 1..width + 1
    BY <1>3, <1>4
  <2>2. QED
    BY <2>1, BeforeIsCopied
<1> HIDE DEF f, p, utf8
<1>8a. /\ p \in Nat /\ ClosingQuote \in Nat /\ Len(text) \in Nat
       /\ p + 2 <= ClosingQuote /\ ClosingQuote <= Len(text)
       /\ src \in Nat /\ src <= p
  BY <1>3, <1>4, <1>5
<1>9. p + 6 <= ClosingQuote /\ p + 6 \in 1..Len(text) /\ p + 6 \notin Escaped(text)
  <2>1. /\ p + 2 \in p+2..p+5 /\ p + 3 \in p+2..p+5
        /\ p + 4 \in p+2..p+5 /\ p + 5 \in p+2..p+5
    BY <1>5
  <2>2. ClosingQuote # p + 2 /\ ClosingQuote # p + 3 /\ ClosingQuote # p + 4 /\ ClosingQuote # p + 5
    BY <1>4, <1>6, <2>1
  <2>3. p + 6 <= ClosingQuote /\ p + 6 \in 1..Len(text) /\ (p + 6) - 1 = p + 5
    BY <1>8a, <2>2
  <2>4. text[p + 5] # Backslash
    BY <1>6, <2>1
  <2>5. QED
    BY <1>4, <2>3, <2>4, NotEscaped
<1>10. src' \in src..ClosingQuote /\ src' \notin Escaped(text) /\ src' >= p + 6 /\ src' \in Nat
  <2>1. CASE handle_unicode_codepoint(p).length = 6
    BY <1>2, <1>3, <1>4, <1>5, <1>9, <2>1 DEF p
  <2>2. CASE /\ handle_unicode_codepoint(p).length = 12
             /\ text[p+6] = Backslash /\ text[p+7] = LetterU
             /\ \A k \in p+8..p+11 : text[k] \notin {Quote, Backslash}
    <3>1. src' = p + 12
      BY <1>2, <2>2 DEF p
    <3>2. /\ p + 8 \in p+8..p+11 /\ p + 9 \in p+8..p+11
          /\ p + 10 \in p+8..p+11 /\ p + 11 \in p+8..p+11
      BY <1>5
    <3>3. /\ ClosingQuote # p + 6 /\ ClosingQuote # p + 7 /\ ClosingQuote # p + 8
          /\ ClosingQuote # p + 9 /\ ClosingQuote # p + 10 /\ ClosingQuote # p + 11
      <4>1. Quote # Backslash /\ Quote # LetterU
        BY DEF Quote, Backslash, LetterU
      <4>2. QED
        BY <1>4, <2>2, <3>2, <4>1
    <3>4. p + 12 <= ClosingQuote /\ p + 12 \in 1..Len(text) /\ (p + 12) - 1 = p + 11
      BY <1>8a, <1>9, <3>3
    <3>5. text[p + 11] # Backslash
      BY <2>2, <3>2
    <3>6. p + 12 \notin Escaped(text)
      BY <1>4, <3>4, <3>5, NotEscaped
    <3>7. QED
      <4>1. src' \in src..ClosingQuote /\ src' >= p + 6 /\ src' \in Nat
        BY <1>8a, <3>1, <3>4
      <4>2. src' \notin Escaped(text)
        BY <3>1, <3>6
      <4>3. QED
        BY <4>1, <4>2
  <2>3. QED
    BY <1>6, <2>1, <2>2
<1>11. dst' = Before(f) \o utf8 /\ utf8 \in Seq(Bytes) /\ Len(utf8) \in 0..4
  BY <1>2, <1>7 DEF f, utf8
<1>12. dst' \in Seq(Bytes) /\ Len(dst') = Len(dst) + f - 1 + Len(utf8)
  <2>1. dst' \in Seq(Bytes) /\ Len(dst') = Len(Before(f)) + Len(utf8)
    BY <1>8, <1>11, Joined, Zenon
  <2>2. QED
    BY <1>8, <2>1
<1>13. Len(dst') < src'
  <2>1. Len(dst) + f - 1 < p
    BY <1>3, <1>4
  <2>2. QED
    <3>1. Len(utf8) \in Nat /\ Len(utf8) <= 4 /\ f \in Nat /\ src' \in Nat
      <4>1. Len(utf8) \in Nat /\ Len(utf8) <= 4
        <5>1. \A m \in 0..4 : m \in Nat /\ m <= 4
          OBVIOUS
        <5>2. QED
          BY <1>11, <5>1, Zenon
      <4>2. f \in Nat /\ src' \in Nat
        BY <1>3, <1>4, <1>10
      <4>3. QED
        BY <4>1, <4>2
    <3>2. QED
      BY <1>4, <1>5, <1>10, <1>12, <2>1, <3>1
<1>14. QED
  BY <1>1, <1>10, <1>12, <1>13, GoesOn

LEMMA NextWindowKeeps ==
  ASSUME StringInv, NextWindow
  PROVE  StringInv'
<1>1. /\ result = "none" /\ result' = "none" /\ UNCHANGED <<text, width, policy>>
      /\ ~has_quote_first /\ ~has_backslash
      /\ dst' = dst \o Window /\ src' = src + width
  BY DEF NextWindow, Step
<1>2. /\ text \in Seq(Bytes) /\ Len(text) \in Nat /\ src \in Nat /\ src >= 1
      /\ ClosingQuote \in 1..Len(text) /\ width \in Nat /\ width > 0
      /\ Len(dst) \in Nat /\ Len(dst) < src /\ dst \in Seq(Bytes)
      /\ Window \in Seq(Bytes) /\ Len(Window) = width
  BY <1>1, ClosingIsQuote, WindowIsText DEF StringInv
<1>3. First(Quote) = width + 1 /\ First(Backslash) = width + 1
  <2>1. First(Quote) = First(Backslash)
    BY <1>1, <1>2, FirstInWindow DEF has_quote_first, has_backslash
  <2>2. ~(First(Quote) <= width)
    BY <2>1, FirstInWindow DEF Quote, Backslash
  <2>3. QED
    BY <1>2, <2>1, <2>2, FirstInWindow
<1>4. /\ \A i \in src..src' - 1 : text[i] # Backslash
      /\ \A i \in src..src' - 1 : text[i] # Quote
  <2>1. width + 1 \in 1..width + 1 /\ src' - 1 = src + (width + 1) - 2
    BY <1>1, <1>2
  <2>2. QED
    BY <1>2, <1>3, <2>1, WindowBefore
<1>5. src' <= ClosingQuote
  <2>1. src' \in Nat
    BY <1>1, <1>2
  <2>2. QED
    BY <1>4, <2>1, NoQuoteBefore
<1>6. src' \in src..ClosingQuote /\ src' \in src..Len(text)
  BY <1>1, <1>2, <1>5
<1>7. src' \notin Escaped(text)
  BY <1>4, <1>6, NoBackslashBefore
<1>8. dst' \in Seq(Bytes) /\ Len(dst') < src'
  BY <1>1, <1>2
<1>9. QED
  BY <1>1, <1>6, <1>7, <1>8, GoesOn

LEMMA FailKeeps ==
  ASSUME StringInv, BogusEscape \/ BogusUnicode
  PROVE  StringInv'
<1>1. /\ result = "none" /\ result' = "error"
      /\ UNCHANGED <<text, width, policy, src, dst>>
  BY DEF BogusEscape, BogusUnicode, Step, Refuse
<1>2. QED
  BY <1>1 DEF StringInv, ClosingQuote

LEMMA StringInvStep == StringInv /\ [StringNext]_string_vars => StringInv'
<1>1. ASSUME StringInv, UNCHANGED string_vars
      PROVE  StringInv'
  BY <1>1 DEF StringInv, string_vars, ClosingQuote, First, Window
<1>2. QED
  BY <1>1, EndKeeps, UnescapeKeeps, UnicodeKeeps, NextWindowKeeps, FailKeeps
  DEF StringNext

LEMMA StringInvInit == StringInit => StringInv
<1> SUFFICES ASSUME StringInit
             PROVE  StringInv
  OBVIOUS
<1>1. /\ text \in Texts /\ width \in Widths /\ policy \in Policies
      /\ src = 1 /\ dst = <<>> /\ result = "none"
  BY DEF StringInit, Begin
<1>2. text \in Seq(Bytes) /\ ClosingQuote \in 1..Len(text) /\ Len(text) \in Nat
  BY <1>1, ClosingIsQuote
<1>3. src \in 1..ClosingQuote
  BY <1>1, <1>2
<1>4. src \notin Escaped(text)
  <2>1. 1 \in 1..Len(text) /\ ~(1 > 1)
    BY <1>2
  <2>2. QED
    BY <1>1, <1>2, <2>1, NotEscaped
<1>5. QED
  BY <1>1, <1>3, <1>4 DEF StringInv

THEOREM StringInvariant == StringSpec => []StringInv
  BY StringInvInit, StringInvStep, PTL DEF StringSpec

(* The buffer for strings needs no more room than the text itself: nothing  *)
(* written for a string is longer than what was read of it.                 *)
THEOREM OutputIsBehindInput == StringSpec => []OutputBehindInput
<1>1. StringInv => OutputBehindInput
  BY DEF StringInv, OutputBehindInput
<1>2. QED
  BY <1>1, StringInvariant, PTL

(* The string ends at its closing quote, the one stage 1 found, wherever    *)
(* its windows end: an escaped quote is not taken for it, nor one behind it.*)
EndsAtClosingQuote == result = "end" => src + First(Quote) - 1 = ClosingQuote

THEOREM StringEndsAtClosingQuote == StringSpec => []EndsAtClosingQuote
<1>1. StringInv => EndsAtClosingQuote
  BY DEF StringInv, EndsAtClosingQuote
<1>2. QED
  BY <1>1, StringInvariant, PTL

(* No window, and no escape, is read beyond the padding. *)
ReadsInPadding ==
    /\ src + width - 1 <= Len(text)
    /\ has_backslash => Escape + 11 <= Len(text)

THEOREM ReadsStayInPadding == StringSpec => []ReadsInPadding
<1>1. StringInv => ReadsInPadding
  <2> SUFFICES ASSUME StringInv
               PROVE  ReadsInPadding
    OBVIOUS
  <2>1. /\ ClosingQuote + Padding <= Len(text) /\ ClosingQuote \in 1..Len(text)
        /\ src \in 1..ClosingQuote /\ Len(text) \in Nat
    BY ClosingIsQuote DEF StringInv
  <2>2. Padding \in Nat /\ Padding >= 12 /\ width \in 1..Padding
    BY StringAssumption DEF StringInv
  <2>3. src + width - 1 <= Len(text)
    BY <2>1, <2>2
  <2>4. has_backslash => Escape + 11 <= Len(text)
    <3>1. ASSUME has_backslash
          PROVE  Escape \in src..ClosingQuote - 2
      BY <3>1, EscapeIsInString
    <3>2. QED
      BY <2>1, <2>2, <3>1
  <2>5. QED
    BY <2>3, <2>4 DEF ReadsInPadding
<1>2. QED
  BY <1>1, StringInvariant, PTL
=============================================================================
