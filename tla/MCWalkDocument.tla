--------------------------- MODULE MCWalkDocument ---------------------------
(* Small inputs for stage 2: all token sequences up to a length, longer     *)
(* ones over fewer tokens, nested documents with one token damaged, and     *)
(* documents at the depth limit.                                            *)
EXTENDS WalkDocument

CONSTANTS MaxTokens,       \* length of an input
          Alphabet,        \* its tokens
          MaxBatchTokens,  \* length of an input with
          BatchAlphabet,   \*   one of these tokens only
          PaddedAlphabet,  \* tokens of the inputs with every padding
          NumbersIn,       \* how many containers may be around a number
          Indexes,         \* of JSON pointers
          PrintDepth       \* the containers printed without a call of their own

Reference == INSTANCE DomTape
Json   == INSTANCE JsonTree
Reader == INSTANCE TapeReader

MCIndexes == <<"0", "1">>

Lists(tokens, max) == UNION {[1..k -> tokens] : k \in 1..max}
TokenLists == Lists(Alphabet, MaxTokens)
KeptTokens(t) ==
    LET Kept1(found) ==
          Reference!FindNextDocumentIndex(t, [k \in DOMAIN t |-> k - 1], found)
    IN  {Kept1(Len(t))} \cup (IF t[Len(t)] = "q" THEN {Kept1(Len(t) - 1)} ELSE {})

(* Documents nested up to two deep with up to two items each, and the same  *)
(* with one token replaced or left out.                                     *)
Containers(items) ==
    LET Member(v) == <<"q", ":">> \o v
        Listed(s) == {<<>>} \cup s \cup {x \o <<",">> \o y : x \in s, y \in s}
    IN  {<<"[">> \o l \o <<"]">> : l \in Listed(items)}
          \cup {<<"{">> \o l \o <<"}">> : l \in Listed({Member(v) : v \in items})}
Flat   == {<<"d">>} \cup Containers({<<"d">>})
Nested == Flat \cup Containers(Flat)
Damaged(t) == {[t EXCEPT ![k] = c] : k \in DOMAIN t, c \in Alphabet}
                \cup {Reference!RemoveAt(t, k) : k \in DOMAIN t}
NestedLists == UNION {Damaged(t) : t \in Nested} \ {<<>>}

(* A number or an empty container in as many arrays and objects as are      *)
(* wanted, the empty ones up to the last that is accepted and beyond.       *)
Within(ts) == UNION {{<<"[">> \o t \o <<"]">>, <<"{", "q", ":">> \o t \o <<"}">>} : t \in ts}
Deep[k \in Nat] == IF k = 0 THEN {<<"d">>} ELSE Within(Deep[k - 1])
DeepEmpty[k \in Nat] == IF k = 0 THEN {<<"[", "]">>, <<"{", "}">>} ELSE Within(DeepEmpty[k - 1])
DeepLists == UNION {Deep[k] : k \in NumbersIn} \cup DeepEmpty[MaxDepth - 1] \cup DeepEmpty[MaxDepth]

AllInputs == TokenLists \cup Lists(BatchAlphabet, MaxBatchTokens)
               \cup NestedLists \cup DeepLists

(* What follows the input is varied for whole documents of operators and    *)
(* strings, which other scalars do not differ from at the sentinels.        *)
VariedPadding == mode = "regular" /\ Len(toks) <= MaxTokens
                   /\ \A k \in DOMAIN toks : toks[k] \in PaddedAlphabet
MCInit == Init /\ (padding = "$" \/ VariedPadding)

MCSpec == MCInit /\ [][Next]_vars
-----------------------------------------------------------------------------
Tokens == [k \in 1..Len(toks)+3 |-> Token(k - 1)]
Behind == Reference!ValueEnd(Tokens, start + 1)
Valid  == start < n /\ Behind > 0 /\ (mode = "regular" => Behind = n + 1)
Depth  == Reference!Nesting(Tokens, start + 1, Behind - 1)

(* The machine accepts what the grammar accepts, and refuses of it only     *)
(* what nests deeper than max_depth ("refuse to parse documents with a      *)
(* depth exceeding 1024", doc/basics.md:1619); a root number may be         *)
(* refused for want of memory.                                              *)
AcceptsGrammar ==
    pc = "done" =>
      /\ error = "SUCCESS" => Valid
      /\ Valid => \/ error \in {"SUCCESS", "MEMALLOC"}
                  \/ error = "DEPTH_ERROR" /\ Depth > MaxDepth
      /\ error = "EMPTY" <=> start = n

(* A document that nests no deeper than max_depth is not too deep for the   *)
(* walk: the depth of which doc/basics.md:1619 and the comment of           *)
(* parser::allocate() (dom/parser.h:448) speak.                             *)
DepthIsAccepted ==
    pc = "done" /\ Valid /\ Depth <= MaxDepth => error # "DEPTH_ERROR"

(* Of an accepted document the tape is the one it should have, and the next *)
(* document of the batch starts right behind it.                            *)
WritesTape ==
    pc = "done" /\ error = "SUCCESS" =>
      /\ tape = Reference!DocumentTape(Tokens, start + 1, CountMax)
      /\ next = Behind - 1

(* Documents that were accepted as a whole, and what they are read back as. *)
Accepted == pc = "done" /\ error = "SUCCESS" /\ mode = "regular" /\ padding = "$"

(* The word on the tape where the value or key at token k begins. *)
Words(t) == CASE t = "d" -> 2 [] t \in {",", ":"} -> 0 [] OTHER -> 1
Place(k) == Json!FoldLeft(LAMBDA sum, t : sum + Words(t), 1, SubSeq(toks, 1, k - 1))

KeyTokens == {k \in 1..Len(toks)-1 : toks[k+1] = ":"}
Paths == UNION {[1..len -> {"a", "b", "0", "1"}] : len \in 0..3}

(* Iterating over the tape gives the items of every array and object in     *)
(* order, size() their number as far as it is kept, and a JSON pointer      *)
(* leads from the root to the value it names, to the first of several       *)
(* fields of one name, or to the reason why there is none.                  *)
ReadsBack == Accepted =>
    \E tree \in {Json!Tree(toks)}, place \in {[k \in DOMAIN toks |-> Place(k)]} :
      /\ \A k \in DOMAIN toks : toks[k] \in {"[", "{"} =>
           LET items == tree.items[k]
               front(j) == IF toks[k] = "[" THEN items[j] ELSE items[j] - 2
           IN  /\ Reader!Visited(tape, place[k])
                    = <<>> \o [j \in DOMAIN items |-> place[front(j)]]
               /\ Reader!scope_count(tape, place[k])
                    = IF Len(items) > CountMax THEN CountMax ELSE Len(items)
      /\ \A named \in {KeyTokens} \cup {KeyTokens \ {k} : k \in KeyTokens}, path \in Paths :
           LET names == [k \in 0..Len(toks) |-> IF k + 1 \in named THEN "a" ELSE "b"]
               keyed == [tree EXCEPT !.tokens =
                           [k \in DOMAIN toks |-> IF k \in KeyTokens THEN names[k - 1]
                                                                     ELSE toks[k]]]
               found == Json!Lookup(keyed, 1, path, Indexes)
           IN  Reader!at_pointer(tape, 1, path, names)
                 = IF found.out = "yes" THEN [found EXCEPT !.node = place[@]] ELSE found

(* What string_builder prints of a document is its tokens, however deep the *)
(* containers are in which it calls itself.                                 *)
PrintsBack == Accepted =>
    Reader!append(tape, 1)
      = <<>> \o [k \in DOMAIN toks |-> IF toks[k] \in {"q", "d"} THEN <<toks[k], k - 1>>
                                                                ELSE <<toks[k]>>]
=============================================================================
