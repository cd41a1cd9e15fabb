---------------------------- MODULE JsonGrammar ----------------------------
(***************************************************************************)
(* The JSON grammar over tokens and, built on it, the documents of a text: *)
(* the reference for stage 2 and for streams.  A token is the character    *)
(* class at a structural index ("q" starts a string, "d" a number, "t" an  *)
(* atom); "$", behind the last one, is accepted nowhere.                   *)
(***************************************************************************)
EXTENDS StructuralIndex

(* The position behind the value that starts at token i of toks, or -k when *)
(* token k cannot be accepted.                                              *)
ValueEnd(toks, i) ==
    LET n == Len(toks)
        Tok(k) == IF k <= n THEN toks[k] ELSE "$"
        (* what follows an item: a comma and one more item, or the end *)
        parse[nt \in {"value", "elements", "members"}, k \in 1..n+1] ==
          LET item == IF nt = "members" THEN parse["value", k + 2]
                                        ELSE parse["value", k]
              close == IF nt = "members" THEN "}" ELSE "]"
          IN  CASE nt = "value" /\ Tok(k) \in {"q", "d", "t"} -> k + 1
                [] nt = "value" /\ Tok(k) = "[" ->
                     IF Tok(k+1) = "]" THEN k + 2 ELSE parse["elements", k+1]
                [] nt = "value" /\ Tok(k) = "{" ->
                     IF Tok(k+1) = "}" THEN k + 2 ELSE parse["members", k+1]
                [] nt = "value" /\ Tok(k) \notin {"q", "d", "t", "[", "{"} -> -k
                [] nt = "members" /\ Tok(k) # "q" -> -k
                [] nt = "members" /\ Tok(k) = "q" /\ Tok(k+1) # ":" -> -(k+1)
                [] OTHER -> IF item < 0 THEN item
                            ELSE IF Tok(item) = close THEN item + 1
                            ELSE IF Tok(item) = "," THEN parse[nt, item + 1]
                            ELSE -item
    IN  parse["value", i]

(* The offset behind the scalar that starts at offset i and is read up to   *)
(* offset stop.                                                             *)
ScalarEnd(text, i, stop) ==
    IF At(text, i) = "q"
    THEN 1 + Min({stop} \cup {k \in i+1..stop-1 : At(text, k) = "q"})
    ELSE Min({stop} \cup {k \in i+1..stop-1 : ~Scalar(At(text, k))})

(* The tokens of a whole text; an unclosed string at its end is no token.   *)
TextIndexes(text) == IF UnclosedString(text) THEN Front(Structurals(text))
                                             ELSE Structurals(text)

(* The documents of a text, [start, stop), up to the first place where the  *)
(* grammar has no document or the text ends within one.                     *)
Documents(text) ==
    LET idx  == TextIndexes(text)
        toks == [k \in DOMAIN idx |-> At(text, idx[k])]
        from[k \in 1..Len(idx)+1] ==
          LET e == ValueEnd(toks, k)
              stop == IF toks[k] \in {"[", "{"} THEN idx[e-1] + 1
                      ELSE ScalarEnd(text, idx[k], Len(text))
          IN  IF k > Len(idx) \/ e < 0 THEN <<>>
              ELSE <<[start |-> idx[k], stop |-> stop]>> \o from[e]
    IN  from[1]

(* The offset from which a text has no more documents. *)
ParsedTo(text) == LET docs == Documents(text)
                  IN  IF docs = <<>> THEN 0 ELSE Last(docs).stop

(* The number of bytes from the first token behind the documents on. *)
IncompleteTail(text) ==
    Len(text) - Min({Len(text)} \cup {i \in ParsedTo(text)..Len(text)-1 :
                                         StructuralStart(text, i)})

(* The text is made of documents and at most the beginning of one more. *)
WellFormed(text) ==
    LET rest == SelectSeq(TextIndexes(text), LAMBDA i : i >= ParsedTo(text))
        toks == [k \in DOMAIN rest |-> At(text, rest[k])]
    IN  rest # <<>> => ValueEnd(toks, 1) = -(Len(toks) + 1)
=============================================================================
