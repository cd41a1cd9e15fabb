------------------------------ MODULE DomTape ------------------------------
(***************************************************************************)
(* The tape a document should have, as doc/tape.md describes it, defined   *)
(* over the grammar: the reference for what stage 2 writes.                *)
(***************************************************************************)
EXTENDS JsonGrammar

(* The entries for the value at token i of toks when the tape is base long. *)
(* A payload is the index of the token, counted from 0.                     *)
ValueTape(toks, i, base, CountMax) ==
    LET Entry(type, value, count) ==
            [type |-> type, value |-> value, count |-> count]
        n == Len(toks)
        (* the tape and number of the items of a container from token k on *)
        build[nt \in {"value", "elements", "members"}, k \in 1..n, at \in Nat] ==
          LET object == toks[k] = "{"
              empty  == toks[k+1] \in {"]", "}"}
              inner  == IF empty THEN [tape |-> <<>>, count |-> 0]
                        ELSE build[IF object THEN "members" ELSE "elements",
                                   k + 1, at + 1]
              stop   == at + 1 + Len(inner.tape)
              count  == IF inner.count > CountMax THEN CountMax ELSE inner.count
              key    == IF nt = "members" THEN <<Entry("q", k - 1, 0)>> ELSE <<>>
              first  == IF nt = "members" THEN k + 2 ELSE k
              item   == key \o build["value", first, at + Len(key)].tape
              behind == ValueEnd(toks, first)
              more   == IF toks[behind] = ","
                        THEN build[nt, behind + 1, at + Len(item)]
                        ELSE [tape |-> <<>>, count |-> 0]
          IN  IF nt # "value"
              THEN [tape |-> item \o more.tape, count |-> 1 + more.count]
              ELSE [count |-> 1, tape |->
                CASE toks[k] = "d" -> <<Entry("d", 0, 0), Entry("word", k - 1, 0)>>
                  [] toks[k] = "t" -> <<Entry("t", 0, 0)>>
                  [] toks[k] = "q" -> <<Entry("q", k - 1, 0)>>
                  [] OTHER -> <<Entry(toks[k], stop + 1, count)>> \o inner.tape
                              \o <<Entry(IF object THEN "}" ELSE "]", at, 0)>>]
    IN  build["value", i, base].tape

(* The whole tape of the document at token i, between its root entries. *)
DocumentTape(toks, i, CountMax) ==
    LET body == ValueTape(toks, i, 1, CountMax)
        Root(value) == [type |-> "r", value |-> value, count |-> 0]
    IN  <<Root(Len(body) + 2)>> \o body \o <<Root(0)>>

(* How deep the arrays and objects of the tokens from..to nest. *)
Nesting(toks, from, to) ==
    LET Open(k) == Cardinality({j \in from..k : toks[j] \in {"[", "{"}})
        Shut(k) == Cardinality({j \in from..k : toks[j] \in {"]", "}"}})
    IN  Max({0} \cup {Open(k) - Shut(k) : k \in from..to})
=============================================================================
