--------------------------- MODULE KernelContract ---------------------------
(***************************************************************************)
(* What any kernel promises (the virtual functions of                      *)
(* simdjson::implementation and dom_parser_implementation::stage1): one    *)
(* task on one text, and one answer.  A task is a mode of stage 1,         *)
(* "minify" or "validate".                                                 *)
(*                                                                         *)
(* Kernels may differ in what stage 2 refuses later: bytes outside strings *)
(* that are not UTF-8, a control character behind a backslash or outside a *)
(* string, a character of several bytes behind a backslash (the fallback   *)
(* goes on within it), a quote right behind an atom.  They may differ in   *)
(* which error they give.                                                  *)
(***************************************************************************)
EXTENDS ByteText

CONSTANT Pending  \* no answer yet

VARIABLES text,
          behind,   \* the byte found behind the text, several times
          task,
          answer

cvars == <<text, behind, task, answer>>

Streaming == {"streaming_partial", "streaming_final"}

Escaped(t) == StringContents(t) \cap EscapedBytes(t)

(* Only stage 1 can find these. *)
MustFail(t) == LET c == Classes(t)
               IN  \/ UnclosedString(c)
                   \/ Structurals(c) = <<>>
                   \/ \E i \in StringContents(t) \ Escaped(t) : At(t, i) < Space

EscapedCharacter(t) == \E i \in Escaped(t) : At(t, i) >= 128

MayFail(t) == \/ MustFail(t) \/ ControlInString(t)
              \/ ~ValidUtf8(t) \/ EscapedCharacter(t)

(* The sentinels stop a walk that runs over the end. *)
WithSentinels(indexes, len) == indexes \o <<len, len, 0>>

WholeDocument(t, a) ==
    /\ MustFail(t) /\ Oddities(t) = {} => a.err # "SUCCESS"
    /\ ~MayFail(t) /\ Oddities(t) = {} =>
         /\ a.err = "SUCCESS"
         /\ a.idx = WithSentinels(Structurals(Classes(t)), Len(t))
    /\ a.err = "SUCCESS" /\ Oddities(t) # {} =>
         IsPrefix(Structurals(Window(Classes(t), 0, Min(Oddities(t)))), a.idx)

(* A window of a stream in UTF-8; the last character may go on behind it, if*)
(* it is in a string.                                                       *)
WindowOfStream(t) ==
    /\ \E n \in IF task = "streaming_partial" THEN 0..3 ELSE {0} :
         ValidUtf8(t \o [k \in 1..n |-> behind])
    /\ ~ValidUtf8(t) => UnclosedString(Classes(t))

Window1(t, mode) == Stage1(NewParser(0), Classes(t), 0, Len(t), mode)

Batch(t, mode, a) ==
    (/\ WindowOfStream(t) /\ ~ControlInString(t) /\ ~EscapedCharacter(t)
     /\ Oddities(t) = {} /\ t # <<>>) =>
      LET r == Window1(t, mode)
      IN  /\ a.err = r.err
          /\ a.n = r.parser.n
          /\ a.n > 0 => SubSeq(a.idx, 1, a.n + 1)
                          = SubSeq(r.parser.idx, 1, a.n + 1)

Minifies(t, a) == IF UnclosedString(Classes(t))
                  THEN a.err = "UNCLOSED_STRING"
                  ELSE a.err = "SUCCESS" /\ a.out = Minified(t)

Fulfils(t, a) == CASE task = "regular"   -> WholeDocument(t, a)
                   [] task \in Streaming -> Batch(t, task, a)
                   [] task = "minify"    -> Minifies(t, a)
                   [] task = "validate"  -> a.valid = ValidUtf8(t)

Init == answer = Pending

Answer == /\ answer = Pending
          /\ answer' # Pending
          /\ Fulfils(text, answer')
          /\ UNCHANGED <<text, behind, task>>

Spec == Init /\ [][Answer]_cvars
=============================================================================
