---------------------------- MODULE WalkDocument ----------------------------
(***************************************************************************)
(* Stage 2 of the DOM parser: json_iterator::walk_document, a machine over *)
(* the structural indexes with one label per goto target, driving          *)
(* tape_builder, which writes the tape.  It serves both stage2 (a whole    *)
(* document) and stage2_next (the next document of a stream).              *)
(*                                                                         *)
(* A token stands for the character at a structural index: the operators,  *)
(* "q" a string, "b" one with a bad escape, "d" a number, "t" an atom, "x" *)
(* a scalar its visitor or the dispatch refuses, whichever error that is.  *)
(* A payload on the tape is the index of the token it was parsed from.     *)
(***************************************************************************)
EXTENDS Integers, Sequences

CONSTANTS Inputs,    \* the tokens stage 1 may find, at least one
          Modes,     \* its modes
          Kept(_),   \* how many of them it may keep in a batch of a stream
          Paddings,  \* what character may follow the input
          MaxDepth,  \* max_depth, the length of both stacks
          CountMax   \* the saturated element count, 0xFFFFFF in the code

ASSUME WalkAssumption ==
    /\ \A t \in Inputs : /\ t \in Seq(STRING)
                         /\ Len(t) > 0
                         /\ Kept(t) \subseteq 0..Len(t)
    /\ Modes \subseteq {"regular", "streaming_partial", "streaming_final"}
    /\ Paddings \subseteq STRING
    /\ MaxDepth \in Nat \ {0}
    /\ CountMax \in Nat

VARIABLES toks,            \* the tokens stage 1 found
          mode,
          padding,
          n,               \* n_structural_indexes
          start,           \* next_structural_index when the walk begins
          pc,              \* the goto label
          error,
          next,            \* next_structural
          depth,
          is_array,        \* the stack of container kinds
          open_containers, \* the stack of tape positions and counts
          tape

batch == <<toks, mode, padding, n>>
input == <<batch, start>>
vars  == <<input, pc, error, next, depth, is_array, open_containers, tape>>

Levels == 0..MaxDepth-1

Init == /\ toks \in Inputs
        /\ mode \in Modes
        /\ padding \in Paddings
        /\ n \in IF mode = "regular" THEN {Len(toks)} ELSE Kept(toks)
        /\ start = 0
        /\ pc = "document_start"
        /\ error = "SUCCESS"
        /\ next = start
        /\ depth = 0
        /\ is_array = [l \in Levels |-> FALSE]
        /\ open_containers = [l \in Levels |-> [tape_index |-> 0, count |-> 0]]
        /\ tape = <<>>

(* The tokens with the sentinels of stage 1: twice the end of the input,    *)
(* then its start.  "$" is memory behind them, accepted nowhere.            *)
Padded(k) == IF k < Len(toks) THEN toks[k + 1]
             ELSE IF k < Len(toks) + 2 THEN padding
             ELSE IF k = Len(toks) + 2 THEN toks[1]
             ELSE "$"

(* The character at index k; the final batch of a stream ends, in two       *)
(* rewritten sentinels, with the end of the input and its incomplete rest.  *)
Token(k) == CASE mode = "streaming_final" /\ k = n     -> padding
              [] mode = "streaming_final" /\ k = n + 1 -> Padded(n)
              [] OTHER                                  -> Padded(k)

-----------------------------------------------------------------------------
(* tape_builder and tape_writer *)

Entry(type, value, count) == [type |-> type, value |-> value, count |-> count]
Skipped == Entry("skip", 0, 0)

Closing(open) == IF open = "[" THEN "]" ELSE "}"

(* empty_container() on a tape of length at *)
EmptyContainer(open, at) == <<Entry(open, at + 2, 0), Entry(Closing(open), at, 0)>>

(* visit_primitive() of the token k; the value of a number is a second word *)
Scalars == {"q", "d", "t"}
ScalarEntries(k) == CASE Token(k) = "d" -> <<Entry("d", 0, 0), Entry("word", k, 0)>>
                      [] Token(k) = "t" -> <<Entry("t", 0, 0)>>
                      [] OTHER          -> <<Entry("q", k, 0)>>

(* Slip: the entry of the container around is closed. *)
EndContainer_Outer(open) ==
    LET c == open_containers[depth - 1]
    IN  tape' = [Append(tape, Entry(Closing(open), c.tape_index, 0))
                   EXCEPT ![c.tape_index + 1] = Entry(open, Len(tape) + 1, c.count)]

(* Slip: the count is not saturated. *)
EndContainer_Wraps(open) ==
    LET c == open_containers[depth]
    IN  tape' = [Append(tape, Entry(Closing(open), c.tape_index, 0))
                   EXCEPT ![c.tape_index + 1] = Entry(open, Len(tape) + 1, c.count)]

(* end_container(): the end entry, then the start entry kept open for it *)
EndContainer(open) ==
    LET c == open_containers[depth]
    IN  tape' = [Append(tape, Entry(Closing(open), c.tape_index, 0))
                   EXCEPT ![c.tape_index + 1] =
                     Entry(open, Len(tape) + 1,
                           IF c.count > CountMax THEN CountMax ELSE c.count)]

(* The entry start_container() puts on the stack. *)
Opened(count) == [tape_index |-> Len(tape), count |-> count]

(* The machine stops with an error. *)
Fail(err) == pc' = "done" /\ error' = err

-----------------------------------------------------------------------------
(* The dispatch on a value at token k, with t the tape so far: an empty     *)
(* container and a scalar are visited at once and the machine goes on at    *)
(* the label after; a container with contents has a label of its own.       *)
Value(k, t, after) ==
    \/ /\ Token(k) \in {"[", "{"}
       /\ Token(k + 1) = Closing(Token(k))
       /\ tape' = t \o EmptyContainer(Token(k), Len(t))
       /\ next' = k + 2
       /\ pc' = after
       /\ UNCHANGED error
    \/ /\ Token(k) \in {"[", "{"}
       /\ Token(k + 1) # Closing(Token(k))
       /\ tape' = t
       /\ next' = k + 1
       /\ pc' = IF Token(k) = "[" THEN "array_begin" ELSE "object_begin"
       /\ UNCHANGED error
    \/ /\ Token(k) \in Scalars
       /\ tape' = t \o ScalarEntries(k)
       /\ next' = k + 1
       /\ pc' = after
       /\ UNCHANGED error
    \/ /\ Token(k) = "b"
       /\ tape' = Append(t, Entry("q", k, 0))
       /\ next' = k + 1
       /\ Fail("STRING_ERROR")
    \/ /\ Token(k) \notin Scalars \cup {"b", "[", "{"}
       /\ tape' = t
       /\ next' = k + 1
       /\ Fail("TAPE_ERROR")

(* Slip: the check for issue 906 is missing. *)
Unmatched_Never == FALSE

(* A whole document that opens a container must end with its closing one,   *)
(* "otherwise, there are ways we could get into memory corruption".         *)
Unmatched == /\ mode = "regular"
             /\ Token(next) \in {"[", "{"}
             /\ Token(n - 1) # Closing(Token(next))

NoDocument == /\ pc = "document_start"
              /\ next = n
              /\ Fail("EMPTY")
              /\ UNCHANGED <<input, next, depth, is_array, open_containers, tape>>

(* visit_root_number() copies the rest of the input, which may fail. *)
DocumentStart ==
    /\ pc = "document_start"
    /\ next # n
    /\ open_containers' = [open_containers EXCEPT ![0] = Opened(0)]
    /\ \/ ~Unmatched /\ Value(next, <<Skipped>>, "document_end")
       \/ /\ Unmatched
          /\ Fail("TAPE_ERROR")
          /\ next' = next + 1
          /\ tape' = <<Skipped>>
       \/ /\ Token(next) = "d"
          /\ Fail("MEMALLOC")
          /\ next' = next + 1
          /\ tape' = <<Skipped>>
    /\ UNCHANGED <<input, depth, is_array>>

(* The key at token k of an object, with t the tape so far. *)
IsKey(k) == Token(k) \in {"q", "b"}
Key(k, t) ==
    /\ next' = k + 1
    /\ tape' = IF IsKey(k) THEN Append(t, Entry("q", k, 0)) ELSE t
    /\ CASE Token(k) = "q" -> pc' = "object_field" /\ UNCHANGED error
         [] Token(k) = "b" -> Fail("STRING_ERROR")
         [] OTHER          -> Fail("TAPE_ERROR")

(* Slip: one level too many. *)
HasRoom_OneMore == depth < MaxDepth

(* The new depth is a level of the stacks. *)
HasRoom == depth + 1 < MaxDepth

(* The depth is increased before it is compared, and stays increased. *)
TooDeep(label) ==
    /\ pc = label
    /\ ~HasRoom
    /\ depth' = depth + 1
    /\ Fail("DEPTH_ERROR")
    /\ UNCHANGED <<input, next, is_array, open_containers, tape>>

ObjectTooDeep == TooDeep("object_begin")
ArrayTooDeep  == TooDeep("array_begin")

(* start_container() and the first key; only a key counts. *)
ObjectBegin ==
    /\ pc = "object_begin"
    /\ HasRoom
    /\ depth' = depth + 1
    /\ is_array' = [is_array EXCEPT ![depth'] = FALSE]
    /\ open_containers' = [open_containers EXCEPT ![depth'] =
                             Opened(IF IsKey(next) THEN 1 ELSE 0)]
    /\ Key(next, Append(tape, Skipped))
    /\ UNCHANGED input

(* start_container(); the first value is counted before it is read. *)
ArrayBegin ==
    /\ pc = "array_begin"
    /\ HasRoom
    /\ depth' = depth + 1
    /\ is_array' = [is_array EXCEPT ![depth'] = TRUE]
    /\ open_containers' = [open_containers EXCEPT ![depth'] = Opened(1)]
    /\ tape' = Append(tape, Skipped)
    /\ pc' = "array_value"
    /\ UNCHANGED <<input, error, next>>

ObjectField ==
    /\ pc = "object_field"
    /\ \/ Token(next) = ":" /\ Value(next + 1, tape, "object_continue")
       \/ /\ Token(next) # ":"
          /\ Fail("TAPE_ERROR")
          /\ next' = next + 1
          /\ UNCHANGED tape
    /\ UNCHANGED <<input, depth, is_array, open_containers>>

ArrayValue == /\ pc = "array_value"
              /\ Value(next, tape, "array_continue")
              /\ UNCHANGED <<input, depth, is_array, open_containers>>

(* increment_count() *)
Increment == open_containers' = [open_containers EXCEPT ![depth].count = @ + 1]

(* A comma: the next key, or the next value. *)
NextField ==
    /\ pc = "object_continue"
    /\ Token(next) = ","
    /\ Increment
    /\ Key(next + 1, tape)
    /\ UNCHANGED <<input, depth, is_array>>

(* Slip: the comma between two values may be missing. *)
NextElement_NoComma ==
    /\ pc = "array_continue"
    /\ Token(next) \in {","} \cup Scalars
    /\ Increment
    /\ next' = IF Token(next) = "," THEN next + 1 ELSE next
    /\ pc' = "array_value"
    /\ UNCHANGED <<input, error, depth, is_array, tape>>

NextElement ==
    /\ pc = "array_continue"
    /\ Token(next) = ","
    /\ Increment
    /\ next' = next + 1
    /\ pc' = "array_value"
    /\ UNCHANGED <<input, error, depth, is_array, tape>>

(* The end of a container. *)
End(label, open) ==
    /\ pc = label
    /\ Token(next) = Closing(open)
    /\ EndContainer(open)
    /\ next' = next + 1
    /\ pc' = "scope_end"
    /\ UNCHANGED <<input, error, depth, is_array, open_containers>>

ObjectEnd == End("object_continue", "{")
ArrayEnd  == End("array_continue", "[")

(* Neither a comma nor the end. *)
BadContinue ==
    /\ \/ pc = "object_continue" /\ Token(next) \notin {",", "}"}
       \/ pc = "array_continue" /\ Token(next) \notin {",", "]"}
    /\ Fail("TAPE_ERROR")
    /\ next' = next + 1
    /\ UNCHANGED <<input, depth, is_array, open_containers, tape>>

(* Slip: the container around is taken for one of the same kind. *)
ScopeEnd_SameKind ==
    /\ pc = "scope_end"
    /\ depth' = depth - 1
    /\ pc' = IF depth' = 0 THEN "document_end"
             ELSE IF is_array[depth] THEN "array_continue"
             ELSE "object_continue"
    /\ UNCHANGED <<input, error, next, is_array, open_containers, tape>>

ScopeEnd ==
    /\ pc = "scope_end"
    /\ depth' = depth - 1
    /\ pc' = IF depth' = 0 THEN "document_end"
             ELSE IF is_array[depth'] THEN "array_continue"
             ELSE "object_continue"
    /\ UNCHANGED <<input, error, next, is_array, open_containers, tape>>

(* Slip: what is behind the document is not looked at. *)
DocumentEnd_Trailing ==
    /\ pc = "document_end"
    /\ tape' = [Append(tape, Entry("r", 0, 0)) EXCEPT
                  ![1] = Entry("r", Len(tape) + 1, 0)]
    /\ pc' = "done"
    /\ error' = "SUCCESS"
    /\ UNCHANGED <<input, next, depth, is_array, open_containers>>

(* visit_document_end(), and whether a whole document was read to its end. *)
DocumentEnd ==
    /\ pc = "document_end"
    /\ tape' = [Append(tape, Entry("r", 0, 0)) EXCEPT
                  ![1] = Entry("r", Len(tape) + 1, 0)]
    /\ pc' = "done"
    /\ error' = IF mode = "regular" /\ next # n THEN "TAPE_ERROR"
                                                    ELSE "SUCCESS"
    /\ UNCHANGED <<input, next, depth, is_array, open_containers>>

(* The user of a stream asks for the document behind the one just read.     *)
NextDocument ==
    /\ pc = "done"
    /\ error = "SUCCESS"
    /\ mode # "regular"
    /\ start' = next
    /\ pc' = "document_start"
    /\ depth' = 0
    /\ tape' = <<>>
    /\ UNCHANGED <<batch, error, next, is_array, open_containers>>

(* A whole document was read, or the walk stopped with an error.            *)
Done == /\ pc = "done"
        /\ mode = "regular" \/ error # "SUCCESS"
        /\ UNCHANGED vars

WalkStep == \/ NoDocument \/ DocumentStart \/ ObjectTooDeep \/ ObjectBegin
            \/ ArrayTooDeep \/ ArrayBegin \/ ObjectField \/ ArrayValue
            \/ NextField \/ NextElement \/ ObjectEnd \/ ArrayEnd \/ BadContinue
            \/ ScopeEnd \/ DocumentEnd
Next == WalkStep \/ NextDocument \/ Done

Spec == Init /\ [][Next]_vars
-----------------------------------------------------------------------------
Labels == {"document_start", "object_begin", "object_field", "object_continue",
           "scope_end", "array_begin", "array_value", "array_continue",
           "document_end", "done"}
Types == {"r", "[", "]", "{", "}", "q", "d", "t", "word", "skip"}

TypeOK ==
    /\ toks \in Inputs /\ mode \in Modes /\ padding \in Paddings
    /\ n \in 0..Len(toks) /\ start \in Nat
    /\ pc \in Labels
    /\ error \in {"SUCCESS", "EMPTY", "TAPE_ERROR", "STRING_ERROR", "DEPTH_ERROR",
                 "MEMALLOC"}
    /\ next \in Nat
    /\ depth \in 0..MaxDepth
    /\ is_array \in [Levels -> BOOLEAN]
    /\ open_containers \in [Levels -> [tape_index : Nat, count : Nat]]
    /\ tape \in Seq([type : Types, value : Nat, count : Nat])

(* The stacks are only used below max_depth, their allocated length. *)
StackInBounds == pc # "done" => depth < MaxDepth

(* No index behind the sentinels of stage 1 is read: the argument of        *)
(* issue 906, which relies on the last token and on two equal sentinels.    *)
ReadsInBounds == next <= Len(toks) + 3

(* The tape never holds more than a word per index read and three more, in  *)
(* documents that are rejected half-way too, though numbers take two words  *)
(* and containers two: the reason document::allocate() adds three words to  *)
(* the capacity.                                                            *)
TapeFits == Len(tape) <= (next - start) + 3

(* The entries kept open are those of the containers around the current     *)
(* position, outermost first, and all other entries are written; the label  *)
(* is one of an array exactly when the innermost of them is an array, also  *)
(* after a container of the other kind inside it has ended.                 *)
OpenEntries == {i \in DOMAIN tape : tape[i].type = "skip"}
StackIsTape ==
    pc \notin {"document_start", "done", "scope_end", "document_end",
               "object_begin", "array_begin"} =>
      /\ OpenEntries = {open_containers[l].tape_index + 1 : l \in 0..depth}
      /\ \A l \in 1..depth : open_containers[l-1].tape_index
                                < open_containers[l].tape_index
      /\ is_array[depth] <=> pc \in {"array_value", "array_continue"}
=============================================================================
