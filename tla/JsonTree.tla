------------------------------ MODULE JsonTree ------------------------------
(* The values of a document as a tree, and the ways to find one: the        *)
(* reference for navigation.  A value is named by its first token.          *)
EXTENDS Integers, Sequences, FiniteSets, SequencesExt

(* How many containers are open before token k. *)
Nest(toks, k) ==
    LET Before(tokens) == Cardinality({j \in 1..k-1 : toks[j] \in tokens})
    IN  Before({"[", "{"}) - Before({"]", "}"})

(* The last token of the value at token i. *)
LastToken(toks, i) ==
    IF toks[i] \notin {"[", "{"} THEN i
    ELSE CHOOSE k \in i+1..Len(toks) :
           /\ Nest(toks, k + 1) = Nest(toks, i)
           /\ \A j \in i+1..k-1 : Nest(toks, j + 1) > Nest(toks, i)

(* The elements of an array, the field values of an object, in order.  The  *)
(* key of a field stands two tokens before its value.                       *)
Items(toks, i) ==
    LET before == IF toks[i] = "[" THEN {"[", ","} ELSE {":"}
    IN  SetToSortSeq({k \in i+1..LastToken(toks, i) - 1 :
                         /\ Nest(toks, k) = Nest(toks, i) + 1
                         /\ toks[k-1] \in before},
                     LAMBDA j, k : j < k)

(* For every token what begins there: its items and where it ends. *)
Tree(toks) == [tokens |-> toks,
               items  |-> <<>> \o [i \in DOMAIN toks |-> Items(toks, i)],
               last   |-> <<>> \o [i \in DOMAIN toks |-> LastToken(toks, i)]]

(* The items from..to of the object at i whose key it is. *)
Named(tree, i, key, from, to) ==
    {j \in from..to : tree.tokens[tree.items[i][j] - 2] = key}

(* What the JSON pointer leads to from the value at i: a value, or the      *)
(* reason why there is none.  Of several fields the first one counts.       *)
Lookup(tree, i, path, Indexes) ==
    LET No(why) == [out |-> why, node |-> 0]
        step[k \in 1..Len(path)+1, at \in DOMAIN tree.tokens] ==
          LET items == tree.items[at]
              named == Named(tree, at, path[k], 1, Len(items))
              order == CHOOSE x \in DOMAIN Indexes : Indexes[x] = path[k]
          IN  CASE k > Len(path) -> [out |-> "yes", node |-> at]
                [] k <= Len(path) /\ tree.tokens[at] = "{" ->
                     IF named = {} THEN No("NO_SUCH_FIELD")
                                   ELSE step[k + 1, items[Min(named)]]
                [] k <= Len(path) /\ tree.tokens[at] = "[" ->
                     IF path[k] \notin Range(Indexes) THEN No("INCORRECT_TYPE")
                     ELSE IF order > Len(items) THEN No("INDEX_OUT_OF_BOUNDS")
                     ELSE step[k + 1, items[order]]
                [] OTHER -> No("INVALID_JSON_POINTER")
    IN  step[1, i]
=============================================================================
