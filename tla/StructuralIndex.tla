-------------------------- MODULE StructuralIndex --------------------------
(***************************************************************************)
(* Stage 1 of the parser as a function: the structural indexes of a window *)
(* of the input, the backward search for the last complete document, and   *)
(* the sentinels and error codes json_structural_indexer::finish leaves.   *)
(*                                                                         *)
(* A text is a sequence of character classes.  "q" is the quote, "d" any   *)
(* character of an atom or a number, " " any whitespace, "u" the first     *)
(* byte of a character of several; BlockScanner has escapes, UTF-8 and     *)
(* control characters.  Offsets count from 0, as in the code.              *)
(***************************************************************************)
EXTENDS Integers, Sequences, FiniteSets, SequencesExt, FiniteSetsExt

Operators == {"[", "]", "{", "}", ",", ":"}
Blank     == " "

At(text, i) == text[i + 1]
Window(text, start, len) == SubSeq(text, start + 1, start + len)

-----------------------------------------------------------------------------
(* json_scanner: what is in a string, and where a token starts. *)

QuotesBefore(w, i) == Cardinality({j \in 0..i-1 : At(w, j) = "q"})

(* string_tail(): the contents of a string and its closing quote. *)
StringTail(w, i) == QuotesBefore(w, i) % 2 = 1

UnclosedString(w) == StringTail(w, Len(w))

Scalar(c) == c \notin Operators \cup {Blank}

(* follows(nonquote_scalar): the next byte continues a run like 123. *)
FollowsScalar(w, i) == i > 0 /\ Scalar(At(w, i-1)) /\ At(w, i-1) # "q"

StructuralStart(w, i) ==
    /\ ~StringTail(w, i)
    /\ \/ At(w, i) \in Operators
       \/ Scalar(At(w, i)) /\ ~FollowsScalar(w, i)

Structurals(w) ==
    LET upto[i \in 0..Len(w)] ==
          IF i = 0 THEN <<>>
          ELSE upto[i-1] \o (IF StructuralStart(w, i-1) THEN <<i-1>> ELSE <<>>)
    IN  upto[Len(w)]

-----------------------------------------------------------------------------
(* Slip: braces are not counted. *)
FindNextDocumentIndex_Brackets(w, idx, n) ==
    LET Token(k) == At(w, idx[k + 1])
        Boundary(k) == /\ Token(k) \notin {"}", "]", ":", ","}
                       /\ Token(k - 1) \notin {"{", "[", ":", ","}
        last == Max({0} \cup {k \in 1..n-1 : Boundary(k)})
        Count(c) == Cardinality({k \in last..n-1 : Token(k) = c})
    IN  IF n = 0 \/ Count("[") = Count("]") THEN n ELSE last

(* Slip: any value starts a document, whatever comes before it. *)
FindNextDocumentIndex_OneSided(w, idx, n) ==
    LET Token(k) == At(w, idx[k + 1])
        last == Max({0} \cup {k \in 1..n-1 : Token(k) \notin {"}", "]", ":", ","}})
        Count(c) == Cardinality({k \in last..n-1 : Token(k) = c})
    IN  IF \/ n = 0
           \/ Count("[") = Count("]") /\ Count("{") = Count("}")
        THEN n
        ELSE last

(* find_next_document_index over the first n of the indexes idx: the code   *)
(* walks backwards to the last pair of neighbours of which the first ends a *)
(* value and the second starts one.  If the brackets from there on balance, *)
(* all n indexes are kept; otherwise the search stops at the pair.          *)
FindNextDocumentIndex(w, idx, n) ==
    LET Token(k) == At(w, idx[k + 1])
        Boundary(k) == /\ Token(k) \notin {"}", "]", ":", ","}
                       /\ Token(k - 1) \notin {"{", "[", ":", ","}
        last == Max({0} \cup {k \in 1..n-1 : Boundary(k)})
        Count(c) == Cardinality({k \in last..n-1 : Token(k) = c})
    IN  IF \/ n = 0
           \/ Count("[") = Count("]") /\ Count("{") = Count("}")
        THEN n
        ELSE last

-----------------------------------------------------------------------------
(* The fields of a dom_parser_implementation that stage 1 fills; idx holds  *)
(* structural_indexes from 0, so idx[k+1] is structural_indexes[k].         *)
Indexed(buf, len, idx, n) ==
    [buf |-> buf, len |-> len, idx |-> idx, n |-> n, next |-> 0]

SI(p, k) == p.idx[k + 1]

(* What set_capacity() leaves: the first index is set, the others hold old  *)
(* memory, of which one is read.                                            *)
NewParser(old) == Indexed(0, 0, <<0, old, old>>, 0)

(* trim_partial_utf8: a window does not end within a character. *)
Trimmed(text, start, len) ==
    IF len > 0 /\ At(text, start + len - 1) = "u" THEN len - 1 ELSE len

(* Stage 1 of a stream on text[start, start+len) with a parser, whose       *)
(* indexes are found: the error code and the parser it leaves.  A partial   *)
(* window is followed by more input, the final one is not.  A window of     *)
(* which nothing is left but half a character is an error before anything   *)
(* is written.                                                              *)
FinishWindow(old, text, start, len, mode, found) ==
    LET trim     == Trimmed(text, start, len)
        w        == Window(text, start, trim)
        padded   == found \o <<trim, trim, 0>>
        kept     == IF UnclosedString(w) THEN Len(found) - 1 ELSE Len(found)
        complete == FindNextDocumentIndex(w, padded, kept)
        final    == [padded EXCEPT ![complete + 2] = padded[complete + 1],
                                   ![complete + 1] = trim]
        Leave(err, idx, n) ==
            [err |-> err, parser |-> Indexed(start, len, idx, n)]
    IN  CASE trim = 0 ->
               [err |-> "UTF8_ERROR",
                parser |-> [old EXCEPT !.buf = start, !.len = len]]
          [] trim > 0 /\ found = <<>> -> Leave("EMPTY", padded, 0)
          [] found # <<>> /\ mode = "streaming_final" ->
               Leave(IF complete = 0 THEN "EMPTY" ELSE "SUCCESS", final, complete)
          [] found # <<>> /\ mode = "streaming_partial" ->
               IF complete > 0 THEN Leave("SUCCESS", padded, complete)
               ELSE IF kept = 0 \/ padded[1] = 0 THEN Leave("CAPACITY", padded, kept)
               ELSE Leave("EMPTY", padded, 0)

Stage1(old, text, start, len, mode) ==
    FinishWindow(old, text, start, len, mode,
           Structurals(Window(text, start, Trimmed(text, start, len))))
=============================================================================
