--------------------------- MODULE DocumentStream ---------------------------
(***************************************************************************)
(* dom::document_stream, the stream behind parse_many: it cuts the input   *)
(* into batches, runs stage 1 on a batch and stage 2 on one document of it *)
(* at a time.  With threads, a worker indexes the next batch into a second *)
(* parser while stage 2 reads the current one, and the two parsers are     *)
(* swapped at the end of the batch.                                        *)
(*                                                                         *)
(* The user runs one range-for over the stream, may leave it at any        *)
(* document, and then destroys the stream.  The worker is the mailbox of   *)
(* WorkerContract, which Stage1Worker implements.                          *)
(***************************************************************************)
EXTENDS JsonGrammar

CONSTANTS Texts,      \* the inputs
          MaxOffset,  \* the largest size_t
          BatchSizes, \* the values batch_size may have
          Threading,  \* the values parser.threaded may have
          Allocation, \* outcomes of an allocation: "SUCCESS" or "MEMALLOC"
          OldMemory,  \* what memory may hold that was never written
          Padding     \* the character behind the text, in its padding

ASSUME StreamAssumption ==
    /\ BatchSizes \subseteq Nat \ {0}
    /\ Threading \subseteq BOOLEAN
    /\ Allocation \subseteq {"SUCCESS", "MEMALLOC"}
    /\ OldMemory \subseteq Nat
    /\ MaxOffset \in Nat
    /\ \A t \in Texts : t \in Seq(STRING) /\ Len(t) <= MaxOffset

VARIABLES text,          \* buf and len
          use_thread,
          batch_size,
          pc,            \* where the stream's thread stands
          error,
          batch_start,
          doc_index,
          parser,        \* *parser, the indexes of the current batch
          doc,           \* parser->doc: the document stage 2 read last
          stage1_thread_parser,
          stage1_thread_error,
          finished,      \* the user's iterator
          out,           \* the documents the user got
          posted,        \* the worker's mailbox, as in WorkerContract:
          outcome,       \*   the job posted, the job executed last,
          open,          \*   and whether the worker still runs
          collected

streamVars == <<batch_start, doc_index, parser, doc>>
workerVars == <<stage1_thread_parser, stage1_thread_error, posted, outcome,
                open, collected>>
userVars   == <<text, use_thread, batch_size, out>>
vars == <<streamVars, workerVars, userVars, pc, error, finished>>

NoBatch == -1
NoDoc   == [start |-> 0, stop |-> 0]

Init == /\ text \in Texts
        /\ use_thread \in Threading
        /\ batch_size \in BatchSizes
        /\ pc = "begin"
        /\ error \in Allocation
        /\ batch_start = 0
        /\ doc_index = 0
        /\ parser \in {NewParser(old) : old \in OldMemory}
        /\ doc = NoDoc
        /\ stage1_thread_parser \in {NewParser(old) : old \in OldMemory}
        /\ stage1_thread_error = "UNINITIALIZED"
        /\ finished = FALSE
        /\ out = <<>>
        /\ posted = NoBatch
        /\ outcome = NoBatch
        /\ open = TRUE
        /\ collected = NoBatch

-----------------------------------------------------------------------------
(* Where the batch after the one that starts at start and is indexed by p   *)
(* begins.                                                                  *)
next_batch_start(start, p) == start + SI(p, p.n)

(* The one result of stage 1, as a set: its indexes are found first. *)
run_stage1(p, start) ==
    LET remaining == Len(text) - start
        len   == IF remaining <= batch_size THEN remaining ELSE batch_size
        mode  == IF remaining <= batch_size THEN "streaming_final"
                                            ELSE "streaming_partial"
        batch == Window(text, start, Trimmed(text, start, len))
    IN  {FinishWindow(p, text, start, len, mode, found) : found \in {Structurals(batch)}}

(* The character at structural index k: the sentinels point behind the     *)
(* batch, at the last batch's end into the padding.                         *)
Token(p, k) == IF p.buf + SI(p, k) < Len(text)
               THEN At(text, p.buf + SI(p, k))
               ELSE Padding

(* stage2_next: the document at the parser's next index, as error code, the *)
(* advanced parser, and the document.  Stage 2 compares its position with n *)
(* only at the start; within a document the next index is read unchecked.   *)
stage2_next(p) ==
    LET toks == [k \in 1..(Len(p.idx) - p.next) |-> Token(p, p.next + k - 1)]
        e    == ValueEnd(toks, 1)
        i    == p.buf + SI(p, p.next)
        stop == IF toks[1] \in {"[", "{"}
                THEN p.buf + SI(p, p.next + e - 2) + 1
                ELSE ScalarEnd(text, i, p.buf + p.len)
        Leave(err, next, d) ==
            [err |-> err, parser |-> [p EXCEPT !.next = next], doc |-> d]
    IN  IF p.next = p.n THEN Leave("EMPTY", p.next, doc)
        ELSE IF e < 0 THEN Leave("TAPE_ERROR", p.next, doc)
        ELSE Leave("SUCCESS", p.next + e - 1, [start |-> i, stop |-> stop])

(* A size_t: what would be negative stands for a huge number. *)
truncated_bytes ==
    IF error = "CAPACITY" THEN Len(text) - batch_start
    ELSE SI(parser, parser.n) - SI(parser, parser.n + 1)

(* Slip: the index behind the document. *)
source_Slip ==
    [start |-> doc_index, stop |-> batch_start + SI(parser, parser.next) + 1]

(* iterator::source(): the view [start, stop). *)
source ==
    [start |-> doc_index,
     stop  |-> IF At(text, doc_index) \in {"[", "{"}
               THEN batch_start + SI(parser, parser.next - 1) + 1
               ELSE batch_start + SI(parser, parser.next) - 1]

-----------------------------------------------------------------------------
(* Back to the user's loop: the end of begin() and of operator++. *)
Return(err) == /\ pc' = "loop"
               /\ error' = err
               /\ finished' = (finished \/ err = "EMPTY")

Goto(label, err) == /\ pc' = label
                    /\ error' = err
                    /\ UNCHANGED finished

(* start(), unless the constructor had no memory: allocate, and index the   *)
(* first batch.  Without any input stage 1 returns before it writes.        *)
Begin == /\ pc = "begin"
         /\ \E alloc \in IF error = "SUCCESS" THEN Allocation ELSE {error} :
              IF alloc # "SUCCESS"
              THEN Return(alloc) /\ UNCHANGED <<batch_start, parser>>
              ELSE /\ batch_start' = 0
                   /\ IF text = <<>>
                      THEN Goto("start", "EMPTY") /\ UNCHANGED parser
                      ELSE \E r \in run_stage1(parser, 0) :
                           parser' = r.parser /\ Goto("start", r.err)
         /\ UNCHANGED <<doc_index, doc, workerVars, userVars>>

(* Slip: the first batch is tried again. *)
StartSkip_Stuck == /\ pc = "start"
                   /\ error = "EMPTY"
                   /\ \E r \in run_stage1(parser, batch_start) :
                      parser' = r.parser /\ Goto("start", r.err)
                   /\ UNCHANGED <<batch_start, doc_index, doc, workerVars,
                                  userVars>>

(* start(): "in exceptional cases, we may start with an empty block". *)
StartSkip == /\ pc = "start"
             /\ error = "EMPTY"
             /\ batch_start' = next_batch_start(batch_start, parser)
             /\ IF batch_start' >= Len(text)
                THEN Return(error) /\ UNCHANGED parser
                ELSE \E r \in run_stage1(parser, batch_start') :
                     parser' = r.parser /\ Goto("start", r.err)
             /\ UNCHANGED <<doc_index, doc, workerVars, userVars>>

StartFails == /\ pc = "start"
              /\ error \notin {"SUCCESS", "EMPTY"}
              /\ Return(error)
              /\ UNCHANGED <<streamVars, workerVars, userVars>>

(* start_stage1_thread(): hand the batch behind p to the worker. *)
start_stage1_thread(start, p) ==
    /\ stage1_thread_error' = "UNINITIALIZED"
    /\ posted' = next_batch_start(start, p)

(* start(): start the thread if more than one batch is left. *)
StartThread ==
    /\ pc = "start"
    /\ error = "SUCCESS"
    /\ IF use_thread /\ next_batch_start(batch_start, parser) < Len(text)
       THEN \E alloc \in Allocation :
              IF alloc # "SUCCESS"
              THEN /\ Return(alloc)
                   /\ UNCHANGED <<stage1_thread_error, posted>>
              ELSE /\ Goto("next", error)
                   /\ start_stage1_thread(batch_start, parser)
       ELSE /\ Goto("next", error)
            /\ UNCHANGED <<stage1_thread_error, posted>>
    /\ UNCHANGED <<streamVars, stage1_thread_parser, outcome, open, collected,
                   userVars>>

(* next(): stage 2 on the document at the parser's position. *)
NextDocument ==
    /\ pc = "next"
    /\ doc_index' = batch_start + SI(parser, parser.next)
    /\ \E r \in {stage2_next(parser)} :
         /\ parser' = r.parser
         /\ doc' = r.doc
         /\ IF r.err = "EMPTY" THEN Goto("advance", r.err) ELSE Return(r.err)
    /\ UNCHANGED <<batch_start, workerVars, userVars>>

(* next(): the batch is used up; index or fetch the one behind it. *)
NextBatch ==
    /\ pc = "advance"
    /\ batch_start' = next_batch_start(batch_start, parser)
    /\ IF batch_start' >= Len(text)
       THEN Return(error) /\ UNCHANGED parser
       ELSE IF use_thread
       THEN Goto("load", error) /\ UNCHANGED parser
       ELSE \E r \in run_stage1(parser, batch_start') :
            parser' = r.parser /\ Goto("loaded", r.err)
    /\ UNCHANGED <<doc_index, doc, workerVars, userVars>>

(* Slip: no wait for the worker. *)
LoadFromThread_NoWait ==
    /\ pc = "load"
    /\ collected' = outcome
    /\ parser' = stage1_thread_parser
    /\ stage1_thread_parser' = parser
    /\ Goto("loaded", stage1_thread_error)
    /\ UNCHANGED <<stage1_thread_error, posted, batch_start, doc_index, doc,
                   outcome, open, userVars>>

(* load_from_stage1_thread(): wait for the worker and swap the parsers.     *)
LoadFromThread ==
    /\ pc = "load"
    /\ posted = NoBatch
    /\ collected' = outcome
    /\ parser' = stage1_thread_parser
    /\ stage1_thread_parser' = parser
    /\ Goto("loaded", stage1_thread_error)
    /\ UNCHANGED <<stage1_thread_error, posted, batch_start, doc_index, doc,
                   outcome, open, userVars>>

(* A batch is there: with threads, send the worker ahead, unless the batch  *)
(* was in error.  An empty batch is skipped.                                *)
Loaded ==
    /\ pc = "loaded"
    /\ CASE error = "SUCCESS" -> Goto("next", error)
         [] error = "EMPTY"   -> Goto("advance", error)
         [] OTHER             -> Return(error)
    /\ IF /\ use_thread
          /\ error = "SUCCESS"
          /\ next_batch_start(batch_start, parser) < Len(text)
       THEN start_stage1_thread(batch_start, parser)
       ELSE UNCHANGED <<stage1_thread_error, posted>>
    /\ UNCHANGED <<streamVars, stage1_thread_parser, outcome, open, collected,
                   userVars>>

(* Slip: has_work is not cleared. *)
Execute_KeepsJob ==
    /\ open
    /\ posted # NoBatch
    /\ \E r \in run_stage1(stage1_thread_parser, posted) :
         /\ stage1_thread_parser' = r.parser
         /\ stage1_thread_error' = r.err
    /\ outcome' = posted
    /\ UNCHANGED <<posted, open, collected, streamVars, userVars, pc, error,
                   finished>>

(* The worker's thread: run_stage1 into the second parser. *)
Execute ==
    /\ open
    /\ posted # NoBatch
    /\ \E r \in run_stage1(stage1_thread_parser, posted) :
         /\ stage1_thread_parser' = r.parser
         /\ stage1_thread_error' = r.err
    /\ outcome' = posted
    /\ posted' = NoBatch
    /\ UNCHANGED <<open, collected, streamVars, userVars, pc, error, finished>>

-----------------------------------------------------------------------------
(* The user's loop: operator*, then operator++.  A document is taken; an    *)
(* error is taken too, but the iteration is over after it.                  *)
TakeDocument == /\ pc = "loop"
                /\ ~finished
                /\ error = "SUCCESS"
                /\ out' = Append(out, doc)
                /\ Goto("next", error)
                /\ UNCHANGED <<streamVars, workerVars, text, use_thread,
                                batch_size>>

TakeError == /\ pc = "loop"
             /\ ~finished
             /\ error # "SUCCESS"
             /\ finished' = TRUE
             /\ UNCHANGED <<pc, error, streamVars, workerVars, userVars>>

(* The destructor, after the loop or in the middle of it. *)
Destroy == /\ pc = "loop"
           /\ pc' = "gone"
           /\ open' = FALSE
           /\ posted' = NoBatch
           /\ UNCHANGED <<stage1_thread_parser, stage1_thread_error, outcome,
                          collected, streamVars, userVars, error, finished>>

Gone == pc = "gone" /\ UNCHANGED vars

StreamStep == \/ Begin \/ StartSkip \/ StartFails \/ StartThread
              \/ NextDocument \/ NextBatch \/ LoadFromThread \/ Loaded
              \/ TakeDocument \/ TakeError

Next == StreamStep \/ Execute \/ Destroy \/ Gone

(* The library's code and the worker's thread make progress, and the user   *)
(* goes on with the loop unless the stream is destroyed.                    *)
Fairness == WF_vars(StreamStep) /\ WF_vars(Execute)

Spec == Init /\ [][Next]_vars /\ Fairness
-----------------------------------------------------------------------------
(* Stage 2 reads the batch the stream believes to be in, so that the        *)
(* positions the user is given, batch_start plus an index, are right.       *)
BatchInParser == pc = "next" \/ (pc = "loop" /\ error = "SUCCESS")
                   => parser.buf = batch_start

(* The worker indexes the batch right behind the one stage 2 reads, and     *)
(* what is swapped in is the complete result for that batch.                *)
WorkerIsAhead ==
    /\ posted # NoBatch => posted = next_batch_start(parser.buf, parser)
    /\ pc = "load" => \/ posted = batch_start
                      \/ /\ posted = NoBatch
                         /\ stage1_thread_parser.buf = batch_start
                         /\ stage1_thread_error # "UNINITIALIZED"

(* Stage 2 compares its position with the end of the batch only between     *)
(* documents.  Each it starts is still decided in the batch: one that is    *)
(* accepted ends within the indexes stage 1 kept, and one that is refused   *)
(* is so by the first index behind them, at the latest.                     *)
DecidedAt == LET toks == [k \in 1..(Len(parser.idx) - parser.next) |->
                             Token(parser, parser.next + k - 1)]
             IN  ValueEnd(toks, 1)
StaysInBatch ==
    /\ parser.next <= parser.n
    /\ pc = "next" /\ parser.next < parser.n =>
         \E e \in {DecidedAt} : parser.next + Max({e, -e}) - 1 <= parser.n

(* source() is the document itself when that is an array or an object.      *)
SourceIsDocument ==
    (pc = "loop" /\ error = "SUCCESS" /\ At(text, doc.start) \in {"[", "{"})
      => source = doc

(* Every iteration that the user does not leave ends. *)
Terminates == <>(finished \/ pc = "gone")

(* The worker is used as a mailbox for one job. *)
Mailbox == INSTANCE WorkerContract WITH Jobs <- 0..MaxOffset, NoJob <- NoBatch
UsesMailbox == Mailbox!Spec

(* The documents of the text come out in order and whole, all of them if    *)
(* the iteration ends without an error, and truncated_bytes() is what       *)
(* remains behind them.                                                     *)
Complete == finished /\ error = "EMPTY"
Reference == [t \in Texts |-> [documents |-> Documents(t), sound |-> WellFormed(t),
                              unparsed |-> IncompleteTail(t)]]
Promised(t) == Reference[t].documents
Unparsed(t) == Reference[t].unparsed
Sound(t)    == Reference[t].sound
(* A document or an incomplete rest does not fit a batch. *)
TooLarge(t, size) ==
    \/ \E d \in ToSet(Promised(t)) : d.stop - d.start > size
    \/ Unparsed(t) > size
MayFail(t, size) == ~Sound(t) \/ TooLarge(t, size)
Contract == INSTANCE StreamContract WITH
    Promised  <- Promised,
    Unparsed  <- Unparsed,
    Sound     <- Sound,
    MayFail   <- MayFail,
    status    <- CASE Complete -> "complete"
                   [] finished /\ error \in Allocation -> "exhausted"
                   [] finished /\ error \notin Allocation \cup {"EMPTY"} -> "failed"
                   [] ~finished /\ pc = "gone" -> "abandoned"
                   [] OTHER -> "open",
    truncated <- IF Complete THEN truncated_bytes ELSE 0
KeepsPromise == Contract!Spec

-----------------------------------------------------------------------------
(* What the documentation says of every text, and some texts refute.       *)

(* doc/parse_many.md: any amount of documents separated by any amount of    *)
(* whitespace.                                                              *)
DeliversEverything == Complete => out = Documents(text)
=============================================================================
