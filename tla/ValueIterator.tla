--------------------------- MODULE ValueIterator ---------------------------
(***************************************************************************)
(* The engine of the On-Demand front end: json_iterator (one position and  *)
(* one depth for the whole document), token_iterator, and value_iterator,  *)
(* by which a value, array or object moves it.  Every operation maps the   *)
(* json_iterator "it" to the one it leaves, with the result in it.out:     *)
(* "yes" and "no" for true (or SUCCESS) and false, else the error.  A      *)
(* handle h is a value_iterator: the depth and position where it started.  *)
(*                                                                         *)
(* A token stands for the character at a structural index.  it.faults      *)
(* collects what must never happen: "assumption", a SIMDJSON_ASSUME that   *)
(* does not hold; "search", one of the second search of an object; "dead", *)
(* a use of the parser after abandon() took it away; "bounds", a read      *)
(* behind the sentinels.                                                   *)
(***************************************************************************)
EXTENDS Integers, Sequences, FiniteSets

CONSTANTS Strings,    \* the tokens that are strings; a key is one of them
          Numbers     \* the tokens that are numbers

VARIABLES doc,        \* the tokens of the structural indexes, at least one
          padding,    \* the character found behind them
          streaming   \* whether doc is a batch of a stream

Openers == {"[", "{"}
Closers == {"]", "}"}

EndPosition == Len(doc) + 1
Sentinels   == 3

(* What is found at an index: stage 1 leaves two sentinels that point right *)
(* behind the input and one that points to its first character.             *)
Token(p) == IF p < EndPosition THEN doc[p]
            ELSE IF p < EndPosition + 2 THEN padding ELSE doc[1]

(* How far brackets take the depth over the tokens i..j. *)
Rise(i, j) == Cardinality({k \in i..j : Token(k) \in Openers})
                - Cardinality({k \in i..j : Token(k) \in Closers})
-----------------------------------------------------------------------------
(* json_iterator *)

Yield(it, out)  == [it EXCEPT !.out = out]
Fault(it, what) == [it EXCEPT !.faults = @ \cup {what}]
Assume(it, condition) == IF condition THEN it ELSE Fault(it, "assumption")
UseParser(it)   == IF it.alive THEN it ELSE Fault(it, "dead")
ReportError(it, e) == [it EXCEPT !.error = e, !.out = e]
Abandon_Slip(it) == [it EXCEPT !.alive = FALSE]   \* keeps the depth
Abandon(it)     == [it EXCEPT !.alive = FALSE, !.depth = 0]

ReadAt(it, p) == IF p < EndPosition + Sentinels THEN it ELSE Fault(it, "bounds")
Peek(it)      == Token(it.position)
Advance(it)   == [ReadAt(it, it.position) EXCEPT !.position = @ + 1]
MoveTo(it, p, depth) == [it EXCEPT !.position = p, !.depth = depth]

AscendTo(it, depth)  == [Assume(it, it.depth = depth + 1) EXCEPT !.depth = depth]
DescendTo(it, depth) == [Assume(it, it.depth = depth - 1) EXCEPT !.depth = depth]

Balanced == Rise(1, Len(doc)) = 0

SkipRest_Slip(it, depth) ==   \* does not compare the position with the end
    LET After(p) == it.depth + Rise(it.position, p)
        stops == {p \in it.position..EndPosition+Sentinels-1 :
                     Token(p) \in Closers /\ After(p) <= depth}
    IN  IF stops # {}
        THEN LET stop == CHOOSE p \in stops : \A q \in stops : p <= q
             IN  MoveTo(Yield(UseParser(it), "yes"), stop + 1, After(stop))
        ELSE ReportError(ReadAt(it, EndPosition + Sentinels), "TAPE_ERROR")

(* The loop of skip_child(): on to the bracket that takes the depth down to *)
(* depth, or to the end of the indexes.                                     *)
SkipRest(it, depth) ==
    LET After(p) == it.depth + Rise(it.position, p)
        stops == {p \in it.position..Len(doc) :
                     Token(p) \in Closers /\ After(p) <= depth}
    IN  IF stops # {}
        THEN LET stop == CHOOSE p \in stops : \A q \in stops : p <= q
             IN  MoveTo(Yield(UseParser(it), "yes"), stop + 1, After(stop))
        ELSE IF it.position >= EndPosition
             THEN ReportError(UseParser(it), "TAPE_ERROR")
             ELSE ReportError(MoveTo(UseParser(it), EndPosition, After(Len(doc))),
                              "TAPE_ERROR")

SkipFrom_Slip(it, token, depth) ==   \* takes a key for a scalar
    LET inner == token \in Openers \cup {":", ","}
        Out(left) == IF left.depth <= depth THEN Yield(left, "yes")
                                            ELSE SkipRest(left, depth)
    IN  IF inner THEN SkipRest(it, depth) ELSE Out([it EXCEPT !.depth = @ - 1])

(* skip_child() of json_iterator.  The first token tells where in a value   *)
(* the iterator is: at a value or its end, which was counted in depth, at a *)
(* key, or in between.                                                      *)
SkipFrom(it, token, depth) ==
    LET key   == token \in Strings /\ Peek(it) = ":"
        inner == token \in Openers \cup {":", ","}
        Out(left) == IF left.depth <= depth THEN Yield(left, "yes")
                                            ELSE SkipRest(left, depth)
    IN  IF key THEN SkipRest(Advance(ReadAt(it, it.position)), depth)
        ELSE IF inner THEN SkipRest(it, depth)
        ELSE Out([it EXCEPT !.depth = @ - 1])
SkipTo(it, depth) == IF it.depth <= depth THEN Yield(it, "yes")
                     ELSE SkipFrom(Advance(it), Peek(it), depth)
-----------------------------------------------------------------------------
(* value_iterator *)

IsArray(h)     == Token(h.start) = "["
IsOpen(it, h)  == it.depth >= h.depth
AtStart(it, h) == it.position = h.start
AtNext(it, h)  == it.position > h.start /\ it.depth = h.depth /\ h.depth > 0

(* child(), the handle of the value the iterator stands at *)
Child(it, h) == [depth |-> h.depth + 1, start |-> it.position]
AssumeAtChild(it, h) ==
    Assume(it, it.position > h.start /\ it.depth = h.depth + 1 /\ h.depth > 0)

EndContainer(it, h) == Yield(AscendTo(it, h.depth - 1), "no")

StartedArray(it, h) ==
    LET at == Assume(it, it.position = h.start + 1 /\ it.depth = h.depth)
    IN  IF Peek(it) = "]" THEN EndContainer(Advance(at), h)
        ELSE Yield(DescendTo(ReadAt(at, it.position), h.depth + 1), "yes")
StartedObject(it, h) ==
    LET at == Assume(it, it.position = h.start + 1 /\ it.depth = h.depth)
    IN  IF Peek(it) = "}" THEN EndContainer(Advance(at), h)
        ELSE Yield(ReadAt(at, it.position), "yes")
Started(it, h) == IF IsArray(h) THEN StartedArray(it, h) ELSE StartedObject(it, h)

(* The checks of a root container, of which stage 1 has not made sure that  *)
(* it ends: its last token is the partner, and so are all, if the padding   *)
(* could be taken for one.                                                  *)
StartedRoot(it, h) ==
    LET close == IF IsArray(h) THEN "]" ELSE "}"
        open  == \/ Token(Len(doc)) # close
                 \/ Token(EndPosition) = close /\ ~Balanced
    IN  IF ~streaming /\ open
        THEN ReportError(Abandon(UseParser(it)), "INCOMPLETE_ARRAY_OR_OBJECT")
        ELSE Started(it, h)

(* start_container() and what follows it: get_array() and get_object() of a *)
(* value, and of a document (root).                                         *)
StartContainer(it, h, open, root) ==
    LET at == IF AtStart(it, h)
              THEN Advance(Assume(it, it.depth = h.depth /\ h.depth > 0)) ELSE it
    IN  IF Token(h.start) # open THEN Yield(it, "INCORRECT_TYPE")
        ELSE IF root THEN StartedRoot(at, h) ELSE Started(at, h)

(* reset_array() and reset_object() *)
Reset_Slip(it, h) == Started(MoveTo(it, h.start + 1, it.depth), h)   \* not the depth
Reset(it, h) == Started(MoveTo(it, h.start + 1, h.depth), h)

SkipChild(it, h) ==
    SkipTo(Assume(it, it.position > h.start /\ it.depth >= h.depth), h.depth)

(* has_next_element() and has_next_field(): they differ in the bracket, and *)
(* in that an array goes down to its next element at once.                  *)
HasNext(it, h) ==
    LET at == Advance(Assume(it, AtNext(it, h)))
        array == IsArray(h)
    IN  IF Peek(it) = (IF array THEN "]" ELSE "}") THEN EndContainer(at, h)
        ELSE IF Peek(it) = ","
        THEN Yield(IF array THEN DescendTo(at, h.depth + 1) ELSE at, "yes")
        ELSE ReportError(at, "TAPE_ERROR")

FieldKey(it, h) ==
    LET at == Advance(Assume(it, AtNext(it, h)))
    IN  IF Peek(it) \in Strings THEN Yield(at, "yes")
                                ELSE ReportError(at, "TAPE_ERROR")
FieldValue(it, h) ==
    LET at == Advance(Assume(it, AtNext(it, h)))
    IN  IF Peek(it) = ":" THEN Yield(DescendTo(at, h.depth + 1), "yes")
                          ELSE ReportError(at, "TAPE_ERROR")

(* The getters of scalars: the token at the start is parsed, wherever the   *)
(* iterator is, and consumed if the iterator is there.  get_number() of a   *)
(* value leaves it where it is; a document's getters refuse anything behind *)
(* the scalar unless it is one of a stream.                                 *)
Accepts(getter) == IF getter = "get_string" THEN Strings ELSE Numbers
GetScalar(it, h, getter, root) ==
    LET at == IF AtStart(it, h)
              THEN Assume(it, it.depth = h.depth /\ (root <=> h.depth = 1)) ELSE it
        used == AscendTo(Advance(at), h.depth - 1)
    IN  IF Token(h.start) \notin Accepts(getter) THEN Yield(at, "INCORRECT_TYPE")
        ELSE IF root /\ ~streaming /\ Len(doc) # 1
             THEN Yield(UseParser(at), "TRAILING_CONTENT")
        ELSE IF AtStart(it, h) /\ (root \/ getter # "get_number")
             THEN Yield(used, "yes") ELSE Yield(at, "yes")
=============================================================================
