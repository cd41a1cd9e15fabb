----------------------------- MODULE TapeReader -----------------------------
(***************************************************************************)
(* Reading a finished tape: dom::element, array and object, their          *)
(* iterators and JSON pointers, and the string_builder that prints them.   *)
(* An element is the position of its first word on the tape; a key is the  *)
(* token it was parsed from, whose characters are text[token].             *)
(***************************************************************************)
EXTENDS Integers, SequencesExt

CONSTANTS Indexes,     \* the digits of the indexes 0, 1, ... of a JSON pointer
          PrintDepth   \* MAX_DEPTH of string_builder::append

Nowhere == [type |-> "none", value |-> 0, count |-> 0]
Word(tape, i) == IF i < Len(tape) THEN tape[i + 1] ELSE Nowhere
Ends == {"]", "}"}

(* Slip: a number is one word. *)
after_element_OneWord(tape, i) ==
    IF Word(tape, i).type \in {"[", "{"} THEN Word(tape, i).value ELSE i + 1

after_element(tape, i) ==
    CASE Word(tape, i).type \in {"[", "{"} -> Word(tape, i).value
      [] Word(tape, i).type = "d"          -> i + 2
      [] OTHER                             -> i + 1

scope_count(tape, i) == Word(tape, i).count

(* The positions an iterator takes between begin() and end(): of elements,  *)
(* or of keys, whose values are the words behind them.                      *)
Visited(tape, i) ==
    LET end == after_element(tape, i) - 1
        value(at) == IF Word(tape, i).type = "{" THEN at + 1 ELSE at
        from[at \in Nat] == IF at = end \/ at >= Len(tape) THEN <<>>
                            ELSE <<at>> \o from[after_element(tape, value(at))]
    IN  from[i + 1]

Found(at) == [out |-> "yes", node |-> at]
No(why)   == [out |-> why, node |-> 0]

at(tape, i, index) ==
    IF index <= Len(Visited(tape, i)) THEN Found(Visited(tape, i)[index])
                                      ELSE No("INDEX_OUT_OF_BOUNDS")

at_key(tape, i, key, text) ==
    LET keys == Visited(tape, i)
        k == SelectInSeq(keys, LAMBDA field : text[Word(tape, field).value] = key)
    IN  IF k = 0 THEN No("NO_SUCH_FIELD") ELSE Found(keys[k] + 1)

(* at_pointer() of an array reads the next segment as an index, that of an  *)
(* object as a key; behind a scalar there is none.                          *)
at_pointer(tape, root, path, text) ==
    LET child(i, segment) ==
          CASE Word(tape, i).type = "{" -> at_key(tape, i, segment, text)
            [] Word(tape, i).type = "[" ->
                 IF Contains(Indexes, segment)
                 THEN at(tape, i, CHOOSE x \in DOMAIN Indexes : Indexes[x] = segment)
                 ELSE No("INCORRECT_TYPE")
            [] OTHER -> No("INVALID_JSON_POINTER")
        step(found, segment) == IF found.out = "yes" THEN child(found.node, segment)
                                                     ELSE found
    IN  FoldLeft(step, Found(root), path)
-----------------------------------------------------------------------------
(* string_builder::append().  What is printed is a sequence of tokens, a    *)
(* string or number with its payload.                                       *)

Scalar(tape, i) ==
    CASE Word(tape, i).type = "q" -> <<"q", Word(tape, i).value>>
      [] Word(tape, i).type = "d" -> <<"d", Word(tape, i + 1).value>>
      [] OTHER                    -> <<Word(tape, i).type>>

(* Slip: the position is already behind the end. *)
Jump_Past(tape, i) == Word(tape, i).value

(* Behind what was printed by a call of its own: at the end of it *)
Jump(tape, i) == Word(tape, i).value - 1

(* The ends in a row from at on, as far as there are open containers *)
EndsFrom(tape, i, depth) ==
    LET ends[k \in 0..depth] ==
          IF k < depth /\ Word(tape, i + k).type \in Ends
          THEN <<<<Word(tape, i + k).type>>>> \o ends[k + 1] ELSE <<>>
    IN  ends[0]

Joined(items) ==
    FoldLeft(LAMBDA s, item : IF s = <<>> THEN item ELSE s \o <<<<",">>>> \o item,
             <<>>, items)

(* append(element), a loop that keeps the kinds of the containers it is in, *)
(* and append(array) and append(object), which it calls when they are too   *)
(* many.                                                                    *)
append(tape, root) ==
    LET Key(i) == <<Scalar(tape, i), <<":">>>>
        At(i, is_object, after_value) ==
            [call |-> "element", i |-> i, is_object |-> is_object, after |-> after_value]
        print[s \in [call : {"element", "container"}, i : Nat,
                     is_object : Seq(BOOLEAN), after : BOOLEAN]] ==
          LET depth == Len(s.is_object) - 1
              keyed == s.call = "element" /\ s.is_object[depth + 1]
              front == (IF s.after THEN <<<<",">>>> ELSE <<>>)
                         \o (IF keyed THEN Key(s.i) ELSE <<>>)
              i     == IF keyed THEN s.i + 1 ELSE s.i
              w     == Word(tape, i)
              open  == w.type \in {"[", "{"}
              deep  == open /\ depth + 1 >= PrintDepth
              empty == open /\ Word(tape, i + 1).type \in Ends
              (* what a value that is not entered prints, and its last word *)
              whole == CASE deep  -> print[[s EXCEPT !.call = "container", !.i = i]]
                         [] empty /\ ~deep -> <<<<w.type>>, <<Word(tape, i + 1).type>>>>
                         [] OTHER -> <<Scalar(tape, i)>>
              last  == CASE deep  -> Jump(tape, i)
                         [] w.type = "d" \/ (empty /\ ~deep) -> i + 1
                         [] OTHER -> i
              ends  == EndsFrom(tape, last + 1, depth)
              left  == SubSeq(s.is_object, 1, depth + 1 - Len(ends))
              value(at_) == print[At(at_, <<FALSE>>, FALSE)]
              field(at_) == Key(at_) \o value(at_ + 1)
              visited == Visited(tape, s.i)
          IN  CASE s.call = "container" ->
                     <<<<Word(tape, s.i).type>>>>
                       \o Joined([k \in DOMAIN visited |->
                                    IF Word(tape, s.i).type = "{"
                                    THEN field(visited[k]) ELSE value(visited[k])])
                       \o <<<<IF Word(tape, s.i).type = "{" THEN "}" ELSE "]">>>>
                [] s.call = "element" /\ open /\ ~deep /\ ~empty ->
                     front \o <<<<w.type>>>>
                       \o print[At(i + 1, Append(s.is_object, w.type = "{"), FALSE)]
                [] OTHER ->
                     front \o whole \o ends
                       \o (IF Len(left) = 1 \/ last >= Len(tape) THEN <<>>
                           ELSE print[At(last + Len(ends) + 1, left, TRUE)])
    IN  print[At(root, <<FALSE>>, FALSE)]
=============================================================================
