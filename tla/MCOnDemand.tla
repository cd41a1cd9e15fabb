----------------------------- MODULE MCOnDemand -----------------------------
(* Small inputs for the On-Demand front end: all token sequences up to a    *)
(* length, nested documents, the same with one token damaged, and batches   *)
(* of several documents.                                                    *)
EXTENDS OnDemand, TLC

CONSTANTS MaxTokens,   \* length of an arbitrary input
          Alphabet,    \* its tokens
          Damage       \* what a token is replaced by

Grammar == INSTANCE JsonGrammar
Json    == INSTANCE JsonTree

MCIndexes == <<"0", "1">>
MCPaths   == {<<"a", "a">>, <<"1", "0">>}

Listed(items) == {<<>>} \cup items \cup {x \o <<",">> \o y : x \in items, y \in items}
Arrays(items)   == {<<"[">> \o l \o <<"]">> : l \in Listed(items)}
Objects(fields) == {<<"{">> \o l \o <<"}">> : l \in Listed(fields)}
Field(k, v)     == <<k, ":">> \o v
One    == <<"1">>
Array  == <<"[", "1", "]">>
Object == <<"{", "a", ":", "1", "}">>
Nested == Arrays({One, Array, Object})
            \cup Objects({Field("a", One), Field("b", One), Field("a", Object)})
Batch  == Array \o Object \o One \o <<"[", "]">>
Lists  == UNION {[1..k -> Alphabet] : k \in 1..MaxTokens}
Damaged(t) == {[t EXCEPT ![k] = c] : k \in DOMAIN t, c \in Damage}
                \cup {RemoveAt(t, k) : k \in DOMAIN t}
Batches == {Batch} \cup Damaged(Batch)
MCDocs  == Lists \cup Nested \cup UNION {Damaged(t) : t \in Nested} \cup Batches

(* The texts that are a document.  Only the batch holds several. *)
Kind(token) == IF token \in Strings THEN "q" ELSE IF token \in Numbers THEN "d" ELSE token
SoundTexts ==
    {t \in MCDocs : \/ t = Batch
                    \/ Grammar!ValueEnd([k \in DOMAIN t |-> Kind(t[k])], 1) = Len(t) + 1}
Trees == [t \in SoundTexts |-> Json!Tree(t)] @@ <<>>

MCInit == Init /\ (streaming <=> doc \in Batches) /\ (padding = "$" \/ Len(doc) <= 4)
MCSpec == MCInit /\ [][Next]_vars
-----------------------------------------------------------------------------
(* The user is at nodes of the tree; during a call of the library he is     *)
(* where he called from.                                                    *)
Seen     == IF call = Idle THEN [it |-> iter, held |-> held] ELSE call.seen
Progress(it, h) ==
    LET items == Trees[doc].items[h.start]
    IN  IF h.mode \in {"fresh", "spent"} THEN 0
        ELSE IF it.depth < h.depth THEN Len(items) + 1
        ELSE Cardinality({k \in DOMAIN items : items[k] <= it.position})
(* appended to <<>>: TLC computes with tuples *)
Nodes == <<>> \o [k \in DOMAIN Seen.held |-> [kind  |-> Seen.held[k].kind,
                                             start |-> Seen.held[k].start,
                                             mode  |-> Seen.held[k].mode]]
Reached == <<>> \o [k \in DOMAIN Seen.held |->
                      IF doc \in SoundTexts THEN Progress(Seen.it, Seen.held[k]) ELSE 0]
Contract == INSTANCE OnDemandContract WITH
    tree <- IF doc \in SoundTexts THEN Trees[doc] ELSE Json!Tree(<<>>),
    held <- Nodes, progress <- Reached

(* On a well-formed text the front end is a walk over the tree of values:   *)
(* every answer (which value, which error, where raw text ends, how many)   *)
(* and every later possibility is the tree's, in whatever order the user    *)
(* takes, skips, searches, resets, rewinds and drops.                       *)
NavigatesTree == Contract!Spec
-----------------------------------------------------------------------------
(* The iterator never runs further than the three sentinels that stage 1    *)
(* leaves behind the last token.                                            *)
ReadsInBounds == "bounds" \notin iter.faults

(* In a well-formed text the depth, which every skip and every getter keeps *)
(* up by itself, is the number of brackets open at the position, and one    *)
(* more at a value; or zero behind the document.                            *)
DepthIsNesting ==
    call = Idle /\ doc \in SoundTexts /\ root < EndPosition /\ iter.position <= Len(doc) =>
      LET p == iter.position
          atKey   == doc[p] \in Strings /\ p < Len(doc) /\ doc[p+1] = ":"
          atValue == doc[p] \notin Closers \cup {",", ":"} /\ ~atKey
      IN  iter.depth = IF atValue /\ iter.depth # 0 THEN Json!Nest(doc, p) + 1
                       ELSE Json!Nest(doc, p)
=============================================================================
