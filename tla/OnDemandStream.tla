--------------------------- MODULE OnDemandStream ---------------------------
(***************************************************************************)
(* ondemand::document_stream, the stream behind iterate_many.  Batches and *)
(* the worker are as in dom::document_stream.  But no stage 2 reads a      *)
(* document: the user gets a document over the stream's one json_iterator, *)
(* reads as much of it as he likes, and the stream then goes on from       *)
(* wherever he left the iterator, and anchors it anew in each batch.  A    *)
(* behaviour is one stream, of either front end.                           *)
(***************************************************************************)
EXTENDS DocumentStream

CONSTANT Fronts    \* "dom" and "ondemand"

VARIABLES front,
          iter     \* doc.iter: the json_iterator of ValueIterator, with buf,
                   \*   where its text starts, and root

frontVars == <<vars, front, iter>>

(* json_iterator(&buf[start], parser), at the first of the indexes *)
json_iterator(start) ==
    [buf |-> start, root |-> 1, position |-> 1, depth |-> 1, error |-> "SUCCESS",
     alive |-> TRUE, out |-> "yes", faults |-> {}]

FrontInit == Init /\ front \in Fronts /\ iter = json_iterator(0)

(* What the iterator reads: the indexes of the parser, in its own text *)
Offset(p) == iter.buf + SI(parser, p - 1)
Read(p)   == IF Offset(p) < Len(text) THEN At(text, Offset(p)) ELSE Padding
Tokens    == [p \in 1..parser.n |-> Read(p)]

Engine == INSTANCE ValueIterator WITH
    Strings <- {"q"}, Numbers <- {"d"},
    doc <- Tokens, padding <- Read(parser.n + 1), streaming <- TRUE
Rise(i, j) == Engine!Rise(i, j)

(* The document at the root, as far as it can be read: the token behind it, *)
(* and what it is in the text.                                              *)
DocumentEnd == LET e == ValueEnd(SubSeq(Tokens, iter.root, parser.n), 1)
               IN  IF e < 0 THEN 0 ELSE iter.root + e - 1
Document ==
    [start |-> Offset(iter.root),
     stop  |-> CASE DocumentEnd = 0 -> 0
                 [] Read(iter.root) \in {"[", "{"} -> Offset(DocumentEnd - 1) + 1
                 [] OTHER -> ScalarEnd(text, Offset(iter.root), parser.buf + parser.len)]
AtRoot == iter.position = iter.root

(* iterator::source(): the view [start, stop).  Of a scalar it leaves out   *)
(* where the batch starts.                                                  *)
source_of_document ==
    LET container == Read(iter.root) \in {"[", "{"}
        from == IF AtRoot THEN iter.root + 1 ELSE iter.root
        stops == {p \in from..parser.n + 1 : iter.depth + Rise(from, p) = 0}
        stop == IF stops = {} THEN parser.n + 2
                ELSE CHOOSE p \in stops : \A q \in stops : p <= q
    IN  [start |-> doc_index,
         stop  |-> IF AtRoot /\ ~container THEN SI(parser, iter.root) - 1
                   ELSE batch_start + SI(parser, stop - 1) + 1]
-----------------------------------------------------------------------------
(* start() *)
IterateBegin == Begin /\ UNCHANGED iter
IterateSkip  == StartSkip /\ UNCHANGED iter
IterateFails == StartFails /\ UNCHANGED iter

IterateStart ==
    /\ pc = "start" /\ error = "SUCCESS"
    /\ doc_index' = batch_start
    /\ iter' = json_iterator(batch_start)
    /\ IF use_thread /\ next_batch_start(batch_start, parser) < Len(text)
       THEN \E alloc \in Allocation :
              /\ Return(alloc)
              /\ IF alloc = "SUCCESS" THEN start_stage1_thread(batch_start, parser)
                 ELSE UNCHANGED <<stage1_thread_error, posted>>
       ELSE Return(error) /\ UNCHANGED <<stage1_thread_error, posted>>
    /\ UNCHANGED <<batch_start, parser, doc, stage1_thread_parser, outcome, open,
                   collected, userVars>>

(* Skip what the user left of the document, to the root of the next. *)
next_document ==
    LET skipped == Engine!SkipTo(iter, 0)
    IN  IF skipped.out # "yes" THEN skipped
        ELSE [skipped EXCEPT !.depth = 1, !.root = skipped.position]

(* next(): behind the last document of the batch, go on to the next batch. *)
IterateNext ==
    /\ pc = "next"
    /\ \E moved \in {next_document} :
         /\ iter' = moved
         /\ IF moved.out # "yes" THEN Return(moved.out) /\ UNCHANGED doc_index
            ELSE /\ doc_index' = batch_start + SI(parser, moved.root - 1)
                 /\ IF moved.root > parser.n THEN Goto("advance", "EMPTY")
                                             ELSE Return("SUCCESS")
    /\ UNCHANGED <<batch_start, parser, doc, workerVars, userVars>>

IterateBatch == NextBatch /\ UNCHANGED iter
IterateLoad  == LoadFromThread /\ UNCHANGED iter

(* Slip: the iterator keeps the text of the batch before. *)
Reanchored_Stale(start) == [json_iterator(start) EXCEPT !.buf = iter.buf]
(* "Whenever we move to another window, we need to update all pointers" *)
Reanchored(start) == json_iterator(start)

(* A batch is there, and its first document goes to the user at once. *)
IterateLoaded ==
    /\ pc = "loaded"
    /\ iter' = Reanchored(batch_start)
    /\ IF error = "EMPTY" THEN Goto("advance", error) ELSE Return(error)
    /\ IF error = "SUCCESS" THEN doc_index' = batch_start ELSE UNCHANGED doc_index
    /\ IF /\ use_thread /\ error = "SUCCESS"
          /\ next_batch_start(batch_start, parser) < Len(text)
       THEN start_stage1_thread(batch_start, parser)
       ELSE UNCHANGED <<stage1_thread_error, posted>>
    /\ UNCHANGED <<batch_start, parser, doc, stage1_thread_parser, outcome, open,
                   collected, userVars>>
-----------------------------------------------------------------------------
(* The depth at a token of the document, DepthIsNesting of MCOnDemand *)
DepthAt(p) ==
    LET key   == Read(p) = "q" /\ Read(p + 1) = ":"
        value == Read(p) \in {"[", "{", "q", "d"} /\ ~key
    IN  IF p = DocumentEnd THEN 0
        ELSE Rise(iter.root, p - 1) + (IF value THEN 1 ELSE 0)

(* The user reads the document up to a key, a value, a comma, the end of a  *)
(* container that is not empty, or to its own end.                          *)
Stops(p) == \/ p = DocumentEnd
            \/ /\ Read(p) # ":"
               /\ ~(Read(p) \in {"]", "}"} /\ Read(p - 1) \in {"[", "{"})
ReadDocument ==
    /\ pc = "loop" /\ ~finished /\ error = "SUCCESS" /\ AtRoot
    /\ \E p \in {q \in iter.root + 1..parser.n + 1 : q <= DocumentEnd /\ Stops(q)} :
         iter' = [iter EXCEPT !.position = p, !.depth = DepthAt(p)]
    /\ UNCHANGED vars

IterateTake ==
    /\ pc = "loop" /\ ~finished /\ error = "SUCCESS"
    /\ out' = Append(out, Document)
    /\ Goto("next", error)
    /\ UNCHANGED <<iter, streamVars, workerVars, text, use_thread, batch_size>>
IterateError   == TakeError /\ UNCHANGED iter
IterateDestroy == Destroy /\ UNCHANGED iter
IterateExecute == Execute /\ UNCHANGED iter

IterateStep ==
    \/ IterateBegin \/ IterateSkip \/ IterateFails \/ IterateStart
    \/ IterateNext \/ IterateBatch \/ IterateLoad \/ IterateLoaded
    \/ IterateTake \/ IterateError

DomStep   == StreamStep /\ UNCHANGED iter
FrontStep == \/ front = "dom" /\ DomStep
             \/ front = "ondemand" /\ IterateStep
FrontNext == /\ \/ FrontStep \/ IterateExecute \/ IterateDestroy
                \/ front = "ondemand" /\ ReadDocument
                \/ Gone /\ UNCHANGED iter
             /\ UNCHANGED front

FrontFairness == /\ WF_frontVars(FrontStep /\ UNCHANGED front)
                 /\ WF_frontVars(IterateExecute /\ UNCHANGED front)
FrontSpec == FrontInit /\ [][FrontNext]_frontVars /\ FrontFairness
-----------------------------------------------------------------------------
(* Whoever reads the documents, stage 2 or the user's iterator, reads the   *)
(* batch the stream believes to be in, with the text that its indexes are   *)
(* of, and between documents the iterator stands at the depth and the       *)
(* position of one.                                                         *)
ReadsOwnBatch ==
    /\ BatchInParser
    /\ front = "ondemand" /\ pc = "loop" /\ error = "SUCCESS" =>
         /\ iter.buf = parser.buf
         /\ iter.root <= parser.n
         /\ AtRoot => iter.depth = 1
         /\ iter.faults = {}

(* source() of an array or object is the document.  In On-Demand there may  *)
(* be blanks in front of it, and the user must not have read into it, or    *)
(* all of it.                                                               *)
SourcesAreDocuments ==
    IF front = "dom" THEN SourceIsDocument
    ELSE pc = "loop" /\ error = "SUCCESS" /\ Read(iter.root) \in {"[", "{"}
           /\ (AtRoot \/ iter.depth = 0) =>
             /\ source_of_document.stop = Document.stop
             /\ \A i \in doc_index..Document.start - 1 : At(text, i) = Blank
=============================================================================
