-------------------------- MODULE MCDocumentStream --------------------------
(* Small inputs for streams with batches of a few bytes. *)
EXTENDS OnDemandStream

CONSTANTS MaxLength,  \* of a text
          Alphabet    \* its characters

AllTexts == UNION {[1..n -> Alphabet] : n \in 0..MaxLength}

(* Atoms and numbers have one byte outside strings, so that no batch ends   *)
(* within one, and none touches a string.                                   *)
OneByteScalars(t) ==
    \A i \in 0..Len(t)-2 :
      At(t, i) = "d" /\ ~StringTail(t, i) => At(t, i+1) \notin {"d", "q"}

(* From the end of one of docs to the end of the next it is no more than a  *)
(* batch, so that no batch in the middle of the text is without documents.  *)
Compact(docs, len, size) ==
    LET ends == <<0>> \o [k \in DOMAIN docs |-> docs[k].stop] \o <<len>>
    IN  \A k \in 1..Len(ends)-1 : ends[k+1] - ends[k] <= size

AnyTexts == {t \in AllTexts : OneByteScalars(t)}

(* Up to two unlike pieces, then an object, and any beginning of their      *)
(* concatenation.                                                           *)
Object == <<"{", "q", "d", "q", ":", "{", "}", "}">>
Pieces == {<<"[", "d", ",", "[", "]", "]">>, Object, <<" ", "q", "[", "q">>}
Pairs  == {<<p, q>> \in Pieces \X Pieces : p # q}
PieceTexts == UNION {LET t == pair[1] \o pair[2] \o Object
                     IN  {SubSeq(t, 1, n) : n \in 0..Len(t)} : pair \in Pairs}

(* The concatenations without one of their operators. *)
BrokenTexts == UNION {LET t == pair[1] \o pair[2] \o Object
                      IN  {RemoveAt(t, i) : i \in {k \in DOMAIN t : t[k] \in Operators}} :
                        pair \in Pairs}

(* Batches of three bytes cut the short texts, batches of nine the pieces.  *)
(* The worker may index ahead in compact texts only: elsewhere it meets an  *)
(* empty batch, and DeliversEverything fails.                               *)
MCTexts == AnyTexts \cup PieceTexts \cup BrokenTexts
MCInit == /\ FrontInit
          /\ text \in IF batch_size = 3 THEN AnyTexts
                                       ELSE PieceTexts \cup BrokenTexts
          /\ use_thread => \E docs \in {Promised(text)} :
                             Compact(docs, Len(text), batch_size)
          /\ front = "ondemand" => Sound(text)

MCSpec == MCInit /\ [][FrontNext]_frontVars /\ FrontFairness

Blanks(n)  == [i \in 1..n |-> " "]
GapTexts    == {<<"[", "]">> \o Blanks(n) \o <<"[", "]">> : n \in 0..8}
=============================================================================
