------------------------ MODULE OnDemandStream_proofs ------------------------
(***************************************************************************)
(* Proofs about the streams of both front ends, for any texts and batch    *)
(* sizes: which batch is in which parser, what the worker is asked for,    *)
(* and where an On-Demand user's iterator stands between documents.        *)
(***************************************************************************)
EXTENDS OnDemandStream, StructuralIndex_proofs

Labels == {"begin", "start", "next", "loop", "advance", "load", "loaded", "gone"}
StreamErrors == Stage1Errors \cup {"MEMALLOC", "TAPE_ERROR"}
Batches == {NoBatch} \cup 0..MaxOffset

(* doc_index, doc and out, which no decision of the stream depends on, are  *)
(* left out.                                                                *)
StreamTypeOK ==
    /\ text \in Texts
    /\ use_thread \in BOOLEAN
    /\ batch_size \in Nat \ {0}
    /\ pc \in Labels
    /\ error \in StreamErrors
    /\ batch_start \in Nat
    /\ IndexedParser(parser)
    /\ IndexedParser(stage1_thread_parser)
    /\ stage1_thread_error \in Stage1Errors \cup {"UNINITIALIZED"}
    /\ finished \in BOOLEAN
    /\ posted \in Batches
    /\ outcome \in Batches
    /\ collected \in Batches
    /\ open = (pc # "gone")

(* The worker found no document in its batch: from then on the stream goes  *)
(* over the rest of the text without it.                                    *)
GapMet == stage1_thread_error = "EMPTY"

Behind == next_batch_start(parser.buf, parser)

(* The worker has the batch at b, or the second parser its result. *)
Ahead(b) ==
    \/ posted = b
    \/ /\ posted = NoBatch
       /\ stage1_thread_parser.buf = b
       /\ stage1_thread_error # "UNINITIALIZED"
       /\ stage1_thread_error = "SUCCESS" => stage1_thread_parser.n > 0

(* The user has a batch, or is about to get it. *)
HasBatch == pc \in {"start", "next", "loop", "loaded"} /\ error = "SUCCESS"

BatchesMatch ==
    /\ pc \in {"begin", "start"} => posted = NoBatch
    /\ pc = "begin" => error \in {"SUCCESS", "MEMALLOC"}
    /\ pc = "next" => error = "SUCCESS"
    /\ pc \in {"advance", "load"} => error = "EMPTY"
    /\ HasBatch => parser.buf = batch_start /\ parser.n > 0
    /\ HasBatch /\ pc \in {"next", "loop"} /\ use_thread /\ Behind < Len(text)
         => Ahead(Behind)
    /\ pc = "advance" =>
         \/ GapMet
         \/ /\ parser.buf = batch_start
            /\ use_thread /\ Behind < Len(text) => Ahead(Behind)
    /\ pc = "load" => /\ use_thread
                      /\ batch_start < Len(text)
                      /\ GapMet \/ Ahead(batch_start)
    /\ pc = "loaded" => IF use_thread
                        THEN posted = NoBatch /\ error = stage1_thread_error
                        ELSE parser.buf = batch_start
    /\ posted # NoBatch => /\ posted = Behind
                           /\ posted < Len(text)
                           /\ use_thread
                           /\ stage1_thread_error = "UNINITIALIZED"

(* Between and in the documents of On-Demand the iterator is in its batch.  *)
Results   == {"SUCCESS", "yes", "no", "TAPE_ERROR"}
Iterators == [buf : Nat, root : Nat, position : Nat, depth : Int,
              error : Results, alive : BOOLEAN, out : Results,
              faults : SUBSET {"assumption", "search", "dead", "bounds"}]
IteratorInBatch ==
    front = "ondemand" /\ HasBatch /\ pc \in {"next", "loop"} =>
      /\ iter \in Iterators
      /\ iter.buf = parser.buf
      /\ iter.root \in 1..parser.n
      /\ iter.position \in iter.root..parser.n + 1
      /\ AtRoot => iter.depth = 1
      /\ iter.alive = TRUE
      /\ iter.faults = {}

StreamInv == StreamTypeOK /\ BatchesMatch /\ IteratorInBatch
-----------------------------------------------------------------------------

LEMMA Stage1OfStream ==
  ASSUME StreamTypeOK, NEW p, IndexedParser(p),
         NEW start \in Nat, start < Len(text),
         NEW r \in run_stage1(p, start)
  PROVE  /\ IndexedParser(r.parser)
         /\ r.parser.buf = start
         /\ r.err \in Stage1Errors
         /\ r.err = "SUCCESS" => r.parser.n > 0
<1>1. text \in Seq(STRING)
  BY StreamAssumption DEF StreamTypeOK
<1> DEFINE remaining == Len(text) - start
           len  == IF remaining <= batch_size THEN remaining ELSE batch_size
           mode == IF remaining <= batch_size THEN "streaming_final"
                                              ELSE "streaming_partial"
<1>2. /\ len \in Nat /\ len > 0 /\ start + len <= Len(text)
      /\ mode \in {"streaming_final", "streaming_partial"}
  BY <1>1 DEF StreamTypeOK
<1>3. r = Stage1(p, text, start, len, mode)
  BY DEF run_stage1, Stage1
<1> HIDE DEF len, mode
<1>4. QED
  BY <1>1, <1>2, <1>3, Stage1Indexes

LEMMA NextStartIsNat ==
  ASSUME NEW p, IndexedParser(p), NEW start \in Nat
  PROVE  next_batch_start(start, p) \in Nat
<1>1. p.n \in 0..p.n + 2
  BY DEF IndexedParser
<1>2. SI(p, p.n) \in Nat
  BY <1>1, IndexIsNat
<1>3. QED
  BY <1>2 DEF next_batch_start

(* Stage 2 moves on in the indexes, and touches nothing else of a parser.   *)
LEMMA Stage2Keeps ==
  ASSUME NEW p, IndexedParser(p), NEW r, r = stage2_next(p)
  PROVE  /\ IndexedParser(r.parser)
         /\ r.parser.buf = p.buf /\ r.parser.n = p.n /\ r.parser.idx = p.idx
         /\ r.err \in {"SUCCESS", "EMPTY", "TAPE_ERROR"}
<1> DEFINE Leave(err, next, d) ==
             [err |-> err, parser |-> [p EXCEPT !.next = next], doc |-> d]
<1>1. ASSUME NEW err \in {"SUCCESS", "EMPTY", "TAPE_ERROR"}, NEW next, NEW d,
             r = Leave(err, next, d)
      PROVE  /\ IndexedParser(r.parser)
             /\ r.parser.buf = p.buf /\ r.parser.n = p.n /\ r.parser.idx = p.idx
             /\ r.err \in {"SUCCESS", "EMPTY", "TAPE_ERROR"}
  <2>1. p = [buf |-> p.buf, len |-> p.len, idx |-> p.idx, n |-> p.n,
             next |-> p.next]
    BY DEF IndexedParser
  <2>2. r.parser = [buf |-> p.buf, len |-> p.len, idx |-> p.idx, n |-> p.n,
                    next |-> next]
    BY <2>1, <1>1
  <2>3. r.err = err
    BY <1>1
  <2> HIDE DEF Leave
  <2>4. QED
    BY <2>2, <2>3 DEF IndexedParser
<1>2. \E err \in {"SUCCESS", "EMPTY", "TAPE_ERROR"} : \E next, d :
         r = Leave(err, next, d)
  <2>1. \/ r = Leave("EMPTY", p.next, doc)
        \/ r = Leave("TAPE_ERROR", p.next, doc)
        \/ \E next, d : r = Leave("SUCCESS", next, d)
    BY Zenon DEF stage2_next
  <2> HIDE DEF Leave
  <2>2. QED
    BY <2>1
<1>3. QED
  BY <1>1, <1>2
-----------------------------------------------------------------------------
(* The iterator skips to the end of what it reads, or reports an error; it  *)
(* never reads behind the sentinels on the way.                             *)
Skipped(from, to) ==
    /\ to \in Iterators
    /\ to.buf = from.buf
    /\ to.position \in 1..parser.n + 3
    /\ to.out \in {"yes", "TAPE_ERROR"}
    /\ to.alive = TRUE
    /\ to.faults = {}

(* What the operations of the iterator leave as it was. *)
Kept(it, to) ==
    /\ to \in Iterators
    /\ to.buf = it.buf
    /\ to.alive = it.alive
    /\ to.faults = it.faults

LEMMA YieldKeeps ==
  ASSUME NEW it \in Iterators, NEW x \in Results
  PROVE  LET to == Engine!Yield(it, x)
         IN  Kept(it, to) /\ to.out = x /\ to.position = it.position
BY DEF Engine!Yield, Iterators, Kept

LEMMA ReportErrorKeeps ==
  ASSUME NEW it \in Iterators, NEW e \in Results
  PROVE  LET to == Engine!ReportError(it, e)
         IN  Kept(it, to) /\ to.out = e /\ to.position = it.position
BY DEF Engine!ReportError, Iterators, Kept

LEMMA MoveToKeeps ==
  ASSUME NEW it \in Iterators, NEW p \in Nat, NEW depth \in Int
  PROVE  LET to == Engine!MoveTo(it, p, depth)
         IN  Kept(it, to) /\ to.out = it.out /\ to.position = p
BY DEF Engine!MoveTo, Iterators, Kept

LEMMA AdvanceKeeps ==
  ASSUME NEW it \in Iterators, parser.n \in Nat, it.position <= parser.n + 3
  PROVE  LET to == Engine!Advance(it)
         IN  Kept(it, to) /\ to.position = it.position + 1
<1>1. it.position < Engine!EndPosition + Engine!Sentinels
  BY DEF Engine!EndPosition, Engine!Sentinels, Iterators, Tokens
<1>2. Engine!Advance(it) = [it EXCEPT !.position = it.position + 1]
  BY <1>1 DEF Engine!Advance, Engine!ReadAt
<1>3. QED
  BY <1>2 DEF Iterators, Kept

LEMMA AscendKeeps ==
  ASSUME NEW it \in Iterators
  PROVE  LET to == [it EXCEPT !.depth = @ - 1]
         IN  Kept(it, to) /\ to.position = it.position
BY DEF Iterators, Kept

LEMMA RootKeeps ==
  ASSUME NEW it \in Iterators, NEW p \in Nat
  PROVE  LET to == [it EXCEPT !.depth = 1, !.root = p]
         IN  /\ Kept(it, to) /\ to.position = it.position /\ to.out = it.out
             /\ to.root = p /\ to.depth = 1
<1> DEFINE at == [it EXCEPT !.depth = 1]
<1>1. /\ at \in Iterators /\ at.depth = 1
      /\ Kept(it, at) /\ at.position = it.position /\ at.out = it.out
  BY DEF Iterators, Kept
<1>2. [it EXCEPT !.depth = 1, !.root = p] = [at EXCEPT !.root = p]
  OBVIOUS
<1> HIDE DEF at
<1>3. QED
  BY <1>1, <1>2 DEF Iterators, Kept

LEMMA RiseIsInt ==
  ASSUME NEW i \in Int, NEW j \in Int
  PROVE  Engine!Rise(i, j) \in Int
<1>1. IsFiniteSet(i..j)
  BY FS_Interval
<1> DEFINE up   == {k \in i..j : Engine!Token(k) \in Engine!Openers}
           down == {k \in i..j : Engine!Token(k) \in Engine!Closers}
<1>2. Cardinality(up) \in Nat /\ Cardinality(down) \in Nat
  <2>1. up \subseteq i..j /\ down \subseteq i..j
    OBVIOUS
  <2> HIDE DEF up, down
  <2>2. IsFiniteSet(up) /\ IsFiniteSet(down)
    BY <1>1, <2>1, FS_Subset
  <2>3. QED
    BY <2>2, FS_CardinalityType
<1>3. Engine!Rise(i, j) = Cardinality(up) - Cardinality(down)
  BY Zenon DEF Engine!Rise, Engine!Cardinality, Cardinality
<1> HIDE DEF up, down
<1>4. QED
  BY <1>2, <1>3

LEMMA SkipRestStays ==
  ASSUME StreamTypeOK, NEW it \in Iterators, it.alive = TRUE, it.faults = {},
         it.position \in 1..parser.n + 3
  PROVE  Skipped(it, Engine!SkipRest(it, 0))
<1>1. Len(Tokens) = parser.n /\ parser.n \in Nat
  BY DEF Tokens, StreamTypeOK, IndexedParser
<1> DEFINE After(p) == it.depth + Engine!Rise(it.position, p)
           stops == {p \in it.position..Len(Tokens) :
                       Engine!Token(p) \in Engine!Closers /\ After(p) <= 0}
           stop == CHOOSE p \in stops : \A q \in stops : p <= q
<1>2. Engine!SkipRest(it, 0) =
        IF stops # {}
        THEN Engine!MoveTo(Engine!Yield(Engine!UseParser(it), "yes"),
                           stop + 1, After(stop))
        ELSE IF it.position >= Len(Tokens) + 1
             THEN Engine!ReportError(Engine!UseParser(it), "TAPE_ERROR")
             ELSE Engine!ReportError(
                    Engine!MoveTo(Engine!UseParser(it), Len(Tokens) + 1,
                                  After(Len(Tokens))), "TAPE_ERROR")
  BY Zenon DEF Engine!SkipRest, Engine!EndPosition
<1>3. Engine!UseParser(it) = it
  BY DEF Engine!UseParser
<1>4. ASSUME NEW p \in Int
      PROVE  After(p) \in Int
  <2>1. it.position \in Int /\ it.depth \in Int
    BY DEF Iterators
  <2>2. Engine!Rise(it.position, p) \in Int
    BY <2>1, RiseIsInt
  <2>3. QED
    BY <2>1, <2>2
<1>5. CASE stops # {}
  <2>1. stops \in SUBSET Nat
    BY <1>1
  <2>2. stop \in stops
    <3> HIDE DEF stops
    <3>1. \E p \in stops : \A q \in stops : p <= q
      BY <1>5, <2>1, Smallest
    <3>2. QED
      BY <3>1
  <2>3. stop \in 1..parser.n
    BY <2>2, <1>1
  <2>4. After(stop) \in Int
    BY <2>3, <1>4
  <2> HIDE DEF stop, stops, After
  <2> DEFINE at == Engine!Yield(it, "yes")
  <2>5. Kept(it, at) /\ at.out = "yes"
    BY YieldKeeps DEF Results
  <2>6. Engine!SkipRest(it, 0) = Engine!MoveTo(at, stop + 1, After(stop))
    BY <1>2, <1>3, <1>5
  <2> HIDE DEF at
  <2> DEFINE to == Engine!MoveTo(at, stop + 1, After(stop))
  <2>7. Kept(at, to) /\ to.out = "yes" /\ to.position = stop + 1
    <3>1. stop + 1 \in Nat /\ at \in Iterators
      BY <1>1, <2>3, <2>5 DEF Kept
    <3>2. QED
      BY <2>4, <2>5, <3>1, MoveToKeeps
  <2> HIDE DEF to
  <2>8. QED
    BY <1>1, <2>3, <2>5, <2>6, <2>7 DEF Kept, Skipped, to
<1>6. CASE stops = {}
  <2>1. After(Len(Tokens)) \in Int
    BY <1>1, <1>4
  <2> HIDE DEF stop, stops, After
  <2>2. CASE it.position >= Len(Tokens) + 1
    <3>1. Engine!SkipRest(it, 0) = Engine!ReportError(it, "TAPE_ERROR")
      BY <1>2, <1>3, <1>6, <2>2
    <3>2. QED
      BY <3>1, ReportErrorKeeps DEF Kept, Skipped, Results
  <2>3. CASE ~(it.position >= Len(Tokens) + 1)
    <3> DEFINE at == Engine!MoveTo(it, Len(Tokens) + 1, After(Len(Tokens)))
    <3>1. Kept(it, at) /\ at.position = Len(Tokens) + 1
      BY <1>1, <2>1, MoveToKeeps
    <3>2. Engine!SkipRest(it, 0) = Engine!ReportError(at, "TAPE_ERROR")
      BY <1>2, <1>3, <1>6, <2>3
    <3> HIDE DEF at
    <3>3. QED
      BY <1>1, <3>1, <3>2, ReportErrorKeeps DEF Kept, Skipped, Results
  <2>4. QED
    BY <2>2, <2>3
<1>7. QED
  BY <1>5, <1>6

LEMMA SkipToStays ==
  ASSUME StreamTypeOK, iter \in Iterators, iter.alive = TRUE, iter.faults = {},
         iter.position \in 1..parser.n + 1
  PROVE  Skipped(iter, Engine!SkipTo(iter, 0))
<1>1. Len(Tokens) = parser.n /\ parser.n \in Nat
  BY DEF Tokens, StreamTypeOK, IndexedParser
<1>2. CASE iter.depth <= 0
  <2>1. Engine!SkipTo(iter, 0) = Engine!Yield(iter, "yes")
    BY <1>2 DEF Engine!SkipTo
  <2>2. QED
    BY <1>1, <2>1, YieldKeeps DEF Kept, Skipped, Results
<1>3. CASE ~(iter.depth <= 0)
  <2> DEFINE at    == Engine!Advance(iter)
             token == Engine!Peek(iter)
  <2>1. Engine!SkipTo(iter, 0) = Engine!SkipFrom(at, token, 0)
    BY <1>3 DEF Engine!SkipTo
  <2>2. /\ at \in Iterators /\ at.alive = TRUE /\ at.faults = {}
        /\ at.position \in 1..parser.n + 2 /\ at.buf = iter.buf
    BY <1>1, AdvanceKeeps DEF Kept
  <2> HIDE DEF at, token
  <2>3. CASE token \in {"q"} /\ Engine!Peek(at) = ":"
    <3>1. Engine!ReadAt(at, at.position) = at
      BY <1>1, <2>2 DEF Engine!ReadAt, Engine!EndPosition, Engine!Sentinels
    <3>2. /\ Engine!Advance(at) \in Iterators
          /\ Engine!Advance(at).alive = TRUE
          /\ Engine!Advance(at).faults = {}
          /\ Engine!Advance(at).position \in 1..parser.n + 3
          /\ Engine!Advance(at).buf = iter.buf
      BY <1>1, <2>2, AdvanceKeeps DEF Kept
    <3>3. Engine!SkipTo(iter, 0) = Engine!SkipRest(Engine!Advance(at), 0)
      BY <2>1, <2>3, <3>1 DEF Engine!SkipFrom
    <3>4. QED
      BY <3>2, <3>3, SkipRestStays DEF Skipped
  <2>4. CASE /\ ~(token \in {"q"} /\ Engine!Peek(at) = ":")
             /\ token \in Engine!Openers \cup {":", ","}
    <3>1. Engine!SkipTo(iter, 0) = Engine!SkipRest(at, 0)
      BY <2>1, <2>4 DEF Engine!SkipFrom
    <3>2. QED
      <4>1. at.position \in 1..parser.n + 3
        BY <1>1, <2>2
      <4>2. QED
        BY <2>2, <3>1, <4>1, SkipRestStays DEF Skipped
  <2>5. CASE /\ ~(token \in {"q"} /\ Engine!Peek(at) = ":")
             /\ ~(token \in Engine!Openers \cup {":", ","})
    <3> DEFINE left == [at EXCEPT !.depth = @ - 1]
    <3>1. Engine!SkipTo(iter, 0) = IF left.depth <= 0
                                   THEN Engine!Yield(left, "yes")
                                   ELSE Engine!SkipRest(left, 0)
      BY <2>1, <2>5 DEF Engine!SkipFrom
    <3>2. /\ left \in Iterators /\ left.alive = TRUE /\ left.faults = {}
          /\ left.position \in 1..parser.n + 2 /\ left.buf = iter.buf
      BY <2>2, AscendKeeps DEF Kept
    <3> HIDE DEF left
    <3>3. CASE left.depth <= 0
      BY <1>1, <3>1, <3>2, <3>3, YieldKeeps DEF Kept, Skipped, Results
    <3>4. CASE ~(left.depth <= 0)
      <4>1. left.position \in 1..parser.n + 3
        BY <1>1, <3>2
      <4>2. QED
        BY <3>1, <3>2, <3>4, <4>1, SkipRestStays DEF Skipped
    <3>5. QED
      BY <3>3, <3>4
  <2>6. QED
    BY <2>3, <2>4, <2>5
<1>4. QED
  BY <1>2, <1>3

(* Behind a document the iterator stands at the root of the next, if there  *)
(* is one in the batch, or an error is reported.                            *)
LEMMA NextDocumentStays ==
  ASSUME StreamTypeOK, iter \in Iterators, iter.alive = TRUE, iter.faults = {},
         iter.position \in 1..parser.n + 1
  PROVE  /\ Skipped(iter, next_document)
         /\ next_document.out = "yes" =>
              next_document.root = next_document.position
                /\ next_document.depth = 1
<1> DEFINE skipped == Engine!SkipTo(iter, 0)
<1>1. Skipped(iter, skipped)
  BY SkipToStays
<1>2. next_document = IF skipped.out # "yes" THEN skipped
                      ELSE [skipped EXCEPT !.depth = 1, !.root = skipped.position]
  BY DEF next_document
<1> HIDE DEF skipped
<1>3. CASE skipped.out # "yes"
  BY <1>1, <1>2, <1>3
<1>4. CASE skipped.out = "yes"
  <2>1. skipped.position \in Nat
    BY <1>1 DEF Skipped, Iterators
  <2> DEFINE to == [skipped EXCEPT !.depth = 1, !.root = skipped.position]
  <2>2. /\ Kept(skipped, to) /\ to.position = skipped.position
        /\ to.out = skipped.out /\ to.root = skipped.position /\ to.depth = 1
    BY <1>1, <2>1, RootKeeps DEF Skipped
  <2>3. next_document = to
    BY <1>2, <1>4
  <2> HIDE DEF to
  <2>4. QED
    BY <1>1, <2>2, <2>3 DEF Skipped, Kept
<1>5. QED
  BY <1>3, <1>4
-----------------------------------------------------------------------------
(* What every step keeps of the batches, one action after the other. *)

LEMMA BeginKeeps ==
  ASSUME StreamTypeOK, BatchesMatch, Begin
  PROVE  StreamTypeOK' /\ BatchesMatch'
<1>1. \/ /\ batch_start' = batch_start /\ parser' = parser
         /\ pc' = "loop" /\ error' = "MEMALLOC"
         /\ finished' \in BOOLEAN
      \/ /\ batch_start' = 0 /\ parser' = parser
         /\ pc' = "start" /\ error' = "EMPTY" /\ UNCHANGED finished
      \/ /\ batch_start' = 0 /\ IndexedParser(parser') /\ parser'.buf = 0
         /\ error' = "SUCCESS" => parser'.n > 0
         /\ error' \in Stage1Errors
         /\ pc' = "start" /\ UNCHANGED finished
  <2>1. PICK alloc \in IF error = "SUCCESS" THEN Allocation ELSE {error} :
           IF alloc # "SUCCESS"
           THEN Return(alloc) /\ UNCHANGED <<batch_start, parser>>
           ELSE /\ batch_start' = 0
                /\ IF text = <<>>
                   THEN Goto("start", "EMPTY") /\ UNCHANGED parser
                   ELSE \E r \in run_stage1(parser, 0) :
                        parser' = r.parser /\ Goto("start", r.err)
    BY DEF Begin
  <2>2. CASE alloc # "SUCCESS"
    <3>1. alloc = "MEMALLOC"
      BY <2>2, StreamAssumption DEF Begin, BatchesMatch
    <3>2. QED
      BY <2>1, <2>2, <3>1 DEF Return, StreamTypeOK
  <2>3. CASE alloc = "SUCCESS" /\ text = <<>>
    BY <2>1, <2>3 DEF Goto
  <2>4. CASE alloc = "SUCCESS" /\ text # <<>>
    <3>1. PICK r \in run_stage1(parser, 0) : parser' = r.parser /\ Goto("start", r.err)
      BY <2>1, <2>4
    <3>2. 0 < Len(text)
      BY <2>4, StreamAssumption DEF StreamTypeOK
    <3>3. QED
      BY <2>1, <2>4, <3>1, <3>2, Stage1OfStream DEF Goto, StreamTypeOK
  <2>5. QED
    BY <2>2, <2>3, <2>4
<1>2. UNCHANGED <<doc_index, doc, workerVars, userVars>> /\ pc = "begin"
  BY DEF Begin
<1>3. StreamTypeOK'
  BY <1>1, <1>2 DEF StreamTypeOK, workerVars, userVars, Labels, StreamErrors, Stage1Errors
<1>4. BatchesMatch'
  BY <1>1, <1>2 DEF StreamTypeOK, BatchesMatch, workerVars, userVars, HasBatch
<1>5. QED
  BY <1>3, <1>4

LEMMA StartSkipKeeps ==
  ASSUME StreamTypeOK, BatchesMatch, StartSkip
  PROVE  StreamTypeOK' /\ BatchesMatch'
<1>1. /\ UNCHANGED <<doc_index, doc, workerVars, userVars>>
      /\ pc = "start" /\ error = "EMPTY"
      /\ batch_start' = next_batch_start(batch_start, parser)
  BY DEF StartSkip
<1>2. batch_start' \in Nat
  BY <1>1, NextStartIsNat DEF StreamTypeOK
<1>3. \/ /\ parser' = parser
         /\ pc' = "loop" /\ error' = "EMPTY" /\ finished' \in BOOLEAN
      \/ /\ IndexedParser(parser') /\ parser'.buf = batch_start'
         /\ error' = "SUCCESS" => parser'.n > 0
         /\ error' \in Stage1Errors
         /\ pc' = "start" /\ UNCHANGED finished
  <2>1. CASE batch_start' >= Len(text)
    BY <1>1, <2>1 DEF StartSkip, Return, StreamTypeOK
  <2>2. CASE ~(batch_start' >= Len(text))
    <3>1. PICK r \in run_stage1(parser, batch_start') :
             parser' = r.parser /\ Goto("start", r.err)
      BY <2>2 DEF StartSkip
    <3>2. batch_start' < Len(text)
      BY <1>2, <2>2, StreamAssumption DEF StreamTypeOK
    <3>3. QED
      BY <1>2, <3>1, <3>2, Stage1OfStream DEF Goto, StreamTypeOK
  <2>3. QED
    BY <2>1, <2>2
<1>4. StreamTypeOK'
  BY <1>1, <1>2, <1>3
  DEF StreamTypeOK, workerVars, userVars, Labels, StreamErrors, Stage1Errors
<1>5. BatchesMatch'
  BY <1>1, <1>3 DEF StreamTypeOK, BatchesMatch, workerVars, userVars, HasBatch
<1>6. QED
  BY <1>4, <1>5

LEMMA StartFailsKeeps ==
  ASSUME StreamTypeOK, BatchesMatch, StartFails
  PROVE  StreamTypeOK' /\ BatchesMatch'
<1> USE DEF StartFails, Return, streamVars, workerVars, userVars
<1>1. StreamTypeOK'
  BY DEF StreamTypeOK, Labels
<1>2. BatchesMatch'
  BY DEF StreamTypeOK, BatchesMatch, HasBatch
<1>3. QED
  BY <1>1, <1>2

(* The worker is sent ahead, or there is nothing ahead of the batch. *)
LEMMA SentAhead ==
  ASSUME StreamTypeOK, parser.buf = batch_start,
         next_batch_start(batch_start, parser) < Len(text),
         start_stage1_thread(batch_start, parser), UNCHANGED <<parser, text>>
  PROVE  /\ posted' = Behind' /\ posted' < Len(text)
         /\ posted' \in 0..MaxOffset
         /\ stage1_thread_error' = "UNINITIALIZED"
<1>1. posted' = next_batch_start(batch_start, parser) /\ posted' \in Nat
  BY NextStartIsNat DEF start_stage1_thread, StreamTypeOK
<1>2. Len(text) \in Nat /\ Len(text) <= MaxOffset /\ MaxOffset \in Nat
  BY StreamAssumption DEF StreamTypeOK
<1>3. QED
  BY <1>1, <1>2 DEF start_stage1_thread, Behind

LEMMA StartThreadKeeps ==
  ASSUME StreamTypeOK, BatchesMatch, StartThread
  PROVE  StreamTypeOK' /\ BatchesMatch'
<1>1. /\ UNCHANGED <<batch_start, doc_index, parser, doc, stage1_thread_parser,
                     outcome, open, collected, text, use_thread, batch_size, out>>
      /\ pc = "start" /\ error = "SUCCESS"
      /\ parser.buf = batch_start /\ parser.n > 0 /\ posted = NoBatch
  BY DEF StartThread, BatchesMatch, HasBatch, streamVars, userVars
<1>2. \/ /\ pc' = "loop" /\ error' = "MEMALLOC" /\ finished' \in BOOLEAN
         /\ UNCHANGED <<stage1_thread_error, posted>>
      \/ /\ pc' = "next" /\ error' = "SUCCESS" /\ UNCHANGED finished
         /\ use_thread /\ next_batch_start(batch_start, parser) < Len(text)
         /\ start_stage1_thread(batch_start, parser)
      \/ /\ pc' = "next" /\ error' = "SUCCESS" /\ UNCHANGED finished
         /\ ~(use_thread /\ next_batch_start(batch_start, parser) < Len(text))
         /\ UNCHANGED <<stage1_thread_error, posted>>
  BY <1>1, StreamAssumption DEF StartThread, Return, Goto, StreamTypeOK
<1>3. CASE /\ pc' = "loop" /\ error' = "MEMALLOC" /\ finished' \in BOOLEAN
           /\ UNCHANGED <<stage1_thread_error, posted>>
  BY <1>1, <1>3
  DEF StreamTypeOK, Labels, StreamErrors, BatchesMatch, HasBatch
<1>4. CASE /\ pc' = "next" /\ error' = "SUCCESS" /\ UNCHANGED finished
           /\ use_thread /\ next_batch_start(batch_start, parser) < Len(text)
           /\ start_stage1_thread(batch_start, parser)
  <2>1. /\ posted' = Behind' /\ posted' < Len(text)
        /\ posted' \in 0..MaxOffset
        /\ stage1_thread_error' = "UNINITIALIZED"
    BY <1>1, <1>4, SentAhead
  <2>2. StreamTypeOK'
    BY <1>1, <1>4, <2>1
    DEF StreamTypeOK, Labels, StreamErrors, Stage1Errors, Batches
  <2>3. BatchesMatch'
    BY <1>1, <1>4, <2>1 DEF StreamTypeOK, BatchesMatch, HasBatch, Ahead
  <2>4. QED
    BY <2>2, <2>3
<1>5. CASE /\ pc' = "next" /\ error' = "SUCCESS" /\ UNCHANGED finished
           /\ ~(use_thread /\ next_batch_start(batch_start, parser) < Len(text))
           /\ UNCHANGED <<stage1_thread_error, posted>>
  <2>1. StreamTypeOK'
    BY <1>1, <1>5 DEF StreamTypeOK, Labels, StreamErrors, Stage1Errors
  <2>2. BatchesMatch'
    BY <1>1, <1>5 DEF StreamTypeOK, BatchesMatch, HasBatch, Behind
  <2>3. QED
    BY <2>1, <2>2
<1>6. QED
  BY <1>2, <1>3, <1>4, <1>5

LEMMA NextDocumentKeeps ==
  ASSUME StreamTypeOK, BatchesMatch, NextDocument
  PROVE  StreamTypeOK' /\ BatchesMatch'
<1>1. /\ UNCHANGED <<batch_start, workerVars, userVars>>
      /\ pc = "next" /\ error = "SUCCESS"
      /\ parser.buf = batch_start /\ parser.n > 0
  BY DEF NextDocument, BatchesMatch, HasBatch
<1>2. /\ IndexedParser(parser') /\ parser'.buf = parser.buf
      /\ parser'.n = parser.n /\ parser'.idx = parser.idx
      /\ finished' \in BOOLEAN
      /\ \/ pc' = "advance" /\ error' = "EMPTY"
         \/ pc' = "loop" /\ error' \in {"SUCCESS", "TAPE_ERROR"}
  <2>1. PICK r \in {stage2_next(parser)} :
           /\ parser' = r.parser
           /\ IF r.err = "EMPTY" THEN Goto("advance", r.err) ELSE Return(r.err)
    BY DEF NextDocument
  <2>2. QED
    BY <2>1, Stage2Keeps DEF Goto, Return, StreamTypeOK
<1>3. Behind' = Behind
  BY <1>2 DEF Behind, next_batch_start, SI
<1>4. StreamTypeOK'
  BY <1>1, <1>2
  DEF StreamTypeOK, workerVars, userVars, Labels, StreamErrors, Stage1Errors
<1>5. BatchesMatch'
  BY <1>1, <1>2, <1>3
  DEF StreamTypeOK, BatchesMatch, workerVars, userVars, HasBatch, Ahead
<1>6. QED
  BY <1>4, <1>5

LEMMA NextBatchKeeps ==
  ASSUME StreamTypeOK, BatchesMatch, NextBatch
  PROVE  StreamTypeOK' /\ BatchesMatch'
<1>1. /\ UNCHANGED <<doc_index, doc, workerVars, userVars>>
      /\ pc = "advance" /\ error = "EMPTY"
      /\ batch_start' = next_batch_start(batch_start, parser)
  BY DEF NextBatch, BatchesMatch
<1>2. batch_start' \in Nat
  BY <1>1, NextStartIsNat DEF StreamTypeOK
<1>3. CASE batch_start' >= Len(text)
  <2>1. /\ parser' = parser
        /\ pc' = "loop" /\ error' = "EMPTY" /\ finished' \in BOOLEAN
    BY <1>1, <1>3 DEF NextBatch, Return, StreamTypeOK
  <2>2. StreamTypeOK'
    BY <1>1, <1>2, <2>1
    DEF StreamTypeOK, workerVars, userVars, Labels, StreamErrors, Stage1Errors
  <2>3. BatchesMatch'
    BY <1>1, <2>1
    DEF StreamTypeOK, BatchesMatch, workerVars, userVars, HasBatch, Behind
  <2>4. QED
    BY <2>2, <2>3
<1>4. CASE ~(batch_start' >= Len(text)) /\ use_thread
  <2>1. /\ parser' = parser /\ batch_start' < Len(text)
        /\ pc' = "load" /\ error' = "EMPTY" /\ finished' = finished
    BY <1>1, <1>2, <1>4, StreamAssumption DEF NextBatch, Goto, StreamTypeOK
  <2>2. StreamTypeOK'
    BY <1>1, <1>2, <2>1
    DEF StreamTypeOK, workerVars, userVars, Labels, StreamErrors, Stage1Errors
  <2>3. GapMet' \/ Ahead(batch_start)'
    BY <1>1, <1>4, <2>1
    DEF BatchesMatch, workerVars, userVars, GapMet, Ahead, Behind
  <2>4. BatchesMatch'
    BY <1>1, <1>4, <2>1, <2>3
    DEF StreamTypeOK, BatchesMatch, workerVars, userVars, HasBatch, Behind
  <2>5. QED
    BY <2>2, <2>4
<1>5. CASE ~(batch_start' >= Len(text)) /\ ~use_thread
  <2>1. PICK r \in run_stage1(parser, batch_start') :
           parser' = r.parser /\ Goto("loaded", r.err)
    BY <1>5 DEF NextBatch
  <2>2. batch_start' < Len(text)
    BY <1>2, <1>5, StreamAssumption DEF StreamTypeOK
  <2>3. /\ IndexedParser(parser') /\ parser'.buf = batch_start'
        /\ error' = "SUCCESS" => parser'.n > 0
        /\ error' \in Stage1Errors
        /\ pc' = "loaded" /\ UNCHANGED finished
    BY <1>2, <2>1, <2>2, Stage1OfStream DEF Goto, StreamTypeOK
  <2>4. posted = NoBatch
    BY <1>5, <1>1 DEF BatchesMatch
  <2>5. StreamTypeOK'
    BY <1>1, <1>2, <2>3
    DEF StreamTypeOK, workerVars, userVars, Labels, StreamErrors, Stage1Errors
  <2>6. BatchesMatch'
    BY <1>1, <1>5, <2>3, <2>4
    DEF StreamTypeOK, BatchesMatch, workerVars, userVars, HasBatch
  <2>7. QED
    BY <2>5, <2>6
<1>6. QED
  BY <1>3, <1>4, <1>5

LEMMA LoadFromThreadKeeps ==
  ASSUME StreamTypeOK, BatchesMatch, LoadFromThread
  PROVE  StreamTypeOK' /\ BatchesMatch'
<1>1. /\ pc = "load" /\ use_thread /\ posted = NoBatch
      /\ GapMet \/ Ahead(batch_start)
      /\ pc' = "loaded" /\ error' = stage1_thread_error /\ UNCHANGED finished
      /\ parser' = stage1_thread_parser /\ stage1_thread_parser' = parser
      /\ collected' = outcome
      /\ UNCHANGED <<stage1_thread_error, posted, batch_start, doc_index, doc,
                     outcome, open, text, use_thread, batch_size, out>>
  BY DEF LoadFromThread, Goto, userVars, BatchesMatch
<1>2. stage1_thread_error # "UNINITIALIZED"
  BY <1>1, StreamAssumption DEF GapMet, Ahead, NoBatch, StreamTypeOK
<1>3. stage1_thread_error = "SUCCESS" =>
        stage1_thread_parser.buf = batch_start /\ stage1_thread_parser.n > 0
  BY <1>1 DEF GapMet, Ahead, NoBatch, StreamTypeOK
<1>4. StreamTypeOK'
  BY <1>1, <1>2 DEF StreamTypeOK, Labels, StreamErrors
<1>5. BatchesMatch'
  BY <1>1, <1>3 DEF BatchesMatch, HasBatch
<1>6. QED
  BY <1>4, <1>5

(* Both front ends go on to read the batch, if there is one. *)
LEMMA BatchTaken ==
  ASSUME StreamTypeOK, BatchesMatch, pc = "loaded", error = "SUCCESS",
         pc' \in {"next", "loop"}, error' = "SUCCESS", finished' \in BOOLEAN,
         UNCHANGED <<batch_start, parser, stage1_thread_parser, outcome, open,
                     collected, text, use_thread, batch_size>>,
         IF use_thread /\ next_batch_start(batch_start, parser) < Len(text)
         THEN start_stage1_thread(batch_start, parser)
         ELSE UNCHANGED <<stage1_thread_error, posted>>
  PROVE  StreamTypeOK' /\ BatchesMatch'
<1>1. parser.buf = batch_start /\ parser.n > 0
  BY DEF BatchesMatch, HasBatch
<1>2. CASE use_thread /\ next_batch_start(batch_start, parser) < Len(text)
  <2>1. /\ posted' = Behind' /\ posted' < Len(text)
        /\ posted' \in 0..MaxOffset
        /\ stage1_thread_error' = "UNINITIALIZED"
    BY <1>1, <1>2, SentAhead
  <2>2. StreamTypeOK'
    BY <2>1 DEF StreamTypeOK, Labels, StreamErrors, Stage1Errors, Batches
  <2>3. BatchesMatch'
    BY <1>1, <1>2, <2>1 DEF StreamTypeOK, BatchesMatch, HasBatch, Ahead
  <2>4. QED
    BY <2>2, <2>3
<1>3. CASE ~(use_thread /\ next_batch_start(batch_start, parser) < Len(text))
  <2>1. posted = NoBatch
    BY <1>1, <1>3 DEF BatchesMatch, Behind
  <2>2. StreamTypeOK'
    BY <1>3 DEF StreamTypeOK, Labels, StreamErrors, Stage1Errors
  <2>3. BatchesMatch'
    BY <1>1, <1>3, <2>1 DEF StreamTypeOK, BatchesMatch, HasBatch, Behind
  <2>4. QED
    BY <2>2, <2>3
<1>4. QED
  BY <1>2, <1>3

(* A batch without documents is skipped, and after one in error the user    *)
(* gets the error.                                                          *)
LEMMA BatchNotTaken ==
  ASSUME StreamTypeOK, BatchesMatch, pc = "loaded", error # "SUCCESS",
         IF error = "EMPTY" THEN pc' = "advance" ELSE pc' = "loop",
         error' = error, finished' \in BOOLEAN,
         UNCHANGED <<batch_start, parser, stage1_thread_parser,
                     stage1_thread_error, posted, outcome, open,
                     collected, text, use_thread, batch_size>>
  PROVE  StreamTypeOK' /\ BatchesMatch'
<1>1. StreamTypeOK'
  BY DEF StreamTypeOK, Labels
<1>2. BatchesMatch'
  BY DEF StreamTypeOK, BatchesMatch, HasBatch, Behind, GapMet, Ahead
<1>3. QED
  BY <1>1, <1>2

LEMMA LoadedKeeps ==
  ASSUME StreamTypeOK, BatchesMatch, Loaded
  PROVE  StreamTypeOK' /\ BatchesMatch'
<1> USE DEF Loaded, streamVars, userVars, Goto, Return
<1>1. CASE error = "SUCCESS"
  <2>1. pc' = "next" /\ error' = "SUCCESS" /\ finished' \in BOOLEAN
    BY <1>1 DEF StreamTypeOK
  <2>2. QED
    BY <1>1, <2>1, BatchTaken
<1>2. CASE error # "SUCCESS"
  <2>1. /\ IF error = "EMPTY" THEN pc' = "advance" ELSE pc' = "loop"
        /\ error' = error /\ finished' \in BOOLEAN
    BY <1>2 DEF StreamTypeOK
  <2>2. QED
    BY <1>2, <2>1, BatchNotTaken
<1>3. QED
  BY <1>1, <1>2

LEMMA TakeDocumentKeeps ==
  ASSUME StreamTypeOK, BatchesMatch, TakeDocument
  PROVE  StreamTypeOK' /\ BatchesMatch'
<1> USE DEF TakeDocument, streamVars, workerVars, Goto
<1>1. StreamTypeOK'
  BY DEF StreamTypeOK, Labels
<1>2. BatchesMatch'
  BY DEF StreamTypeOK, BatchesMatch, HasBatch, Behind, Ahead
<1>3. QED
  BY <1>1, <1>2

LEMMA TakeErrorKeeps ==
  ASSUME StreamTypeOK, BatchesMatch, TakeError
  PROVE  StreamTypeOK' /\ BatchesMatch'
<1> USE DEF TakeError, streamVars, workerVars, userVars
<1>1. StreamTypeOK'
  BY DEF StreamTypeOK
<1>2. BatchesMatch'
  BY DEF StreamTypeOK, BatchesMatch, HasBatch, Behind
<1>3. QED
  BY <1>1, <1>2

LEMMA DestroyKeeps ==
  ASSUME StreamTypeOK, BatchesMatch, Destroy
  PROVE  StreamTypeOK' /\ BatchesMatch'
<1> USE DEF Destroy, streamVars, userVars
<1>1. StreamTypeOK'
  BY DEF StreamTypeOK, Labels, Batches
<1>2. BatchesMatch'
  BY DEF StreamTypeOK, BatchesMatch, HasBatch
<1>3. QED
  BY <1>1, <1>2

LEMMA ExecuteKeeps ==
  ASSUME StreamTypeOK, BatchesMatch, Execute
  PROVE  StreamTypeOK' /\ BatchesMatch'
<1>1. /\ posted # NoBatch /\ posted' = NoBatch /\ outcome' = posted
      /\ UNCHANGED <<open, collected, batch_start, doc_index, parser, doc, text,
                     use_thread, batch_size, out, pc, error, finished>>
  BY DEF Execute, streamVars, userVars
<1>2. posted \in Nat /\ posted < Len(text) /\ posted = Behind
  BY <1>1 DEF StreamTypeOK, Batches, BatchesMatch
<1>3. /\ IndexedParser(stage1_thread_parser')
      /\ stage1_thread_parser'.buf = posted
      /\ stage1_thread_error' \in Stage1Errors
      /\ stage1_thread_error' = "SUCCESS" => stage1_thread_parser'.n > 0
  BY <1>2, Stage1OfStream DEF Execute, StreamTypeOK
<1>4. StreamTypeOK'
  BY <1>1, <1>3 DEF StreamTypeOK, Batches
<1>5. \A b : Ahead(b) => b = posted /\ Ahead(b)'
  BY <1>1, <1>3 DEF Ahead, Stage1Errors
<1>6. ~GapMet
  BY <1>1 DEF BatchesMatch, GapMet
<1>7. BatchesMatch'
  <2>1. pc # "loaded" \/ ~use_thread
    BY <1>1 DEF BatchesMatch
  <2>2. Behind' = Behind
    BY <1>1 DEF Behind
  <2>3. Ahead(Behind) => Ahead(Behind)'
    BY <1>5, <2>2 DEF Ahead
  <2>4. Ahead(batch_start) => Ahead(batch_start)'
    BY <1>5, <1>1 DEF Ahead
  <2>5. QED
    BY <1>1, <1>6, <2>1, <2>2, <2>3, <2>4 DEF BatchesMatch, HasBatch
<1>8. QED
  BY <1>4, <1>7
-----------------------------------------------------------------------------
LEMMA StutterKeeps ==
  ASSUME StreamTypeOK, BatchesMatch, UNCHANGED vars
  PROVE  StreamTypeOK' /\ BatchesMatch'
<1> USE DEF vars, streamVars, workerVars, userVars
<1>1. StreamTypeOK'
  BY DEF StreamTypeOK
<1>2. BatchesMatch'
  BY DEF StreamTypeOK, BatchesMatch, HasBatch, Behind, Ahead, GapMet
<1>3. QED
  BY <1>1, <1>2

(* The actions of the On-Demand stream of their own. *)

LEMMA IterateStartKeeps ==
  ASSUME StreamTypeOK, BatchesMatch, IterateStart
  PROVE  StreamTypeOK' /\ BatchesMatch'
<1>1. /\ UNCHANGED <<batch_start, parser, stage1_thread_parser, outcome, open,
                     collected, text, use_thread, batch_size>>
      /\ pc = "start" /\ error = "SUCCESS"
      /\ parser.buf = batch_start /\ parser.n > 0 /\ posted = NoBatch
  BY DEF IterateStart, BatchesMatch, HasBatch, userVars
<1>2. /\ pc' = "loop" /\ finished' \in BOOLEAN
      /\ \/ /\ error' = "MEMALLOC"
            /\ UNCHANGED <<stage1_thread_error, posted>>
         \/ /\ error' = "SUCCESS"
            /\ use_thread /\ next_batch_start(batch_start, parser) < Len(text)
            /\ start_stage1_thread(batch_start, parser)
         \/ /\ error' = "SUCCESS"
            /\ ~(use_thread /\ next_batch_start(batch_start, parser) < Len(text))
            /\ UNCHANGED <<stage1_thread_error, posted>>
  BY <1>1, StreamAssumption DEF IterateStart, Return, StreamTypeOK
<1>3. CASE /\ error' = "MEMALLOC"
           /\ UNCHANGED <<stage1_thread_error, posted>>
  BY <1>1, <1>2, <1>3
  DEF StreamTypeOK, Labels, StreamErrors, BatchesMatch, HasBatch
<1>4. CASE /\ error' = "SUCCESS"
           /\ use_thread /\ next_batch_start(batch_start, parser) < Len(text)
           /\ start_stage1_thread(batch_start, parser)
  <2>1. /\ posted' = Behind' /\ posted' < Len(text)
        /\ posted' \in 0..MaxOffset
        /\ stage1_thread_error' = "UNINITIALIZED"
    BY <1>1, <1>4, SentAhead
  <2>2. StreamTypeOK'
    BY <1>1, <1>2, <1>4, <2>1
    DEF StreamTypeOK, Labels, StreamErrors, Stage1Errors, Batches
  <2>3. BatchesMatch'
    BY <1>1, <1>2, <1>4, <2>1 DEF StreamTypeOK, BatchesMatch, HasBatch, Ahead
  <2>4. QED
    BY <2>2, <2>3
<1>5. CASE /\ error' = "SUCCESS"
           /\ ~(use_thread /\ next_batch_start(batch_start, parser) < Len(text))
           /\ UNCHANGED <<stage1_thread_error, posted>>
  <2>1. StreamTypeOK'
    BY <1>1, <1>2, <1>5 DEF StreamTypeOK, Labels, StreamErrors, Stage1Errors
  <2>2. BatchesMatch'
    BY <1>1, <1>2, <1>5 DEF StreamTypeOK, BatchesMatch, HasBatch, Behind
  <2>3. QED
    BY <2>1, <2>2
<1>6. QED
  BY <1>2, <1>3, <1>4, <1>5

LEMMA IterateNextKeeps ==
  ASSUME StreamInv, front = "ondemand", IterateNext
  PROVE  StreamTypeOK' /\ BatchesMatch'
<1>1. /\ UNCHANGED <<batch_start, parser, doc, workerVars, userVars>>
      /\ pc = "next" /\ error = "SUCCESS"
      /\ StreamTypeOK /\ BatchesMatch
  BY DEF IterateNext, StreamInv, BatchesMatch
<1>2. PICK moved \in {next_document} :
         IF moved.out # "yes" THEN Return(moved.out) /\ UNCHANGED doc_index
         ELSE /\ doc_index' = batch_start + SI(parser, moved.root - 1)
              /\ IF moved.root > parser.n THEN Goto("advance", "EMPTY")
                                          ELSE Return("SUCCESS")
  BY DEF IterateNext
<1>3. moved.out \in {"yes", "TAPE_ERROR"}
  <2>1. /\ iter \in Iterators /\ iter.alive = TRUE /\ iter.faults = {}
        /\ iter.position \in iter.root..parser.n + 1 /\ iter.root \in 1..parser.n
    BY <1>1 DEF StreamInv, IteratorInBatch, HasBatch
  <2>2. iter.position \in 1..parser.n + 1
    <3>1. parser.n \in Nat
      BY <1>1 DEF StreamTypeOK, IndexedParser
    <3>2. QED
      BY <2>1, <3>1
  <2>3. QED
    BY <1>1, <1>2, <2>1, <2>2, NextDocumentStays DEF Skipped
<1>4. /\ finished' \in BOOLEAN
      /\ \/ pc' = "advance" /\ error' = "EMPTY"
         \/ pc' = "loop" /\ error' \in {"SUCCESS", "TAPE_ERROR"}
  BY <1>1, <1>2, <1>3 DEF Goto, Return, StreamTypeOK
<1>5. StreamTypeOK'
  BY <1>1, <1>4
  DEF StreamTypeOK, workerVars, userVars, Labels, StreamErrors, Stage1Errors
<1>6. BatchesMatch'
  BY <1>1, <1>4
  DEF StreamTypeOK, BatchesMatch, workerVars, userVars, HasBatch, Ahead, Behind
<1>7. QED
  BY <1>5, <1>6

LEMMA IterateLoadedKeeps ==
  ASSUME StreamTypeOK, BatchesMatch, IterateLoaded
  PROVE  StreamTypeOK' /\ BatchesMatch'
<1> USE DEF IterateLoaded, userVars, Goto, Return
<1>1. CASE error = "SUCCESS"
  <2>1. pc' = "loop" /\ error' = "SUCCESS" /\ finished' \in BOOLEAN
    BY <1>1 DEF StreamTypeOK
  <2>2. QED
    BY <1>1, <2>1, BatchTaken
<1>2. CASE error # "SUCCESS"
  <2>1. /\ IF error = "EMPTY" THEN pc' = "advance" ELSE pc' = "loop"
        /\ error' = error /\ finished' \in BOOLEAN
    BY <1>2 DEF StreamTypeOK
  <2>2. QED
    BY <1>2, <2>1, BatchNotTaken
<1>3. QED
  BY <1>1, <1>2

LEMMA IterateTakeKeeps ==
  ASSUME StreamTypeOK, BatchesMatch, IterateTake
  PROVE  StreamTypeOK' /\ BatchesMatch'
<1> USE DEF IterateTake, streamVars, workerVars, Goto
<1>1. StreamTypeOK'
  BY DEF StreamTypeOK, Labels
<1>2. BatchesMatch'
  BY DEF StreamTypeOK, BatchesMatch, HasBatch, Behind, Ahead
<1>3. QED
  BY <1>1, <1>2

LEMMA ReadDocumentKeeps ==
  ASSUME StreamTypeOK, BatchesMatch, ReadDocument
  PROVE  StreamTypeOK' /\ BatchesMatch'
<1> USE DEF ReadDocument, vars, streamVars, workerVars, userVars
<1>1. StreamTypeOK'
  BY DEF StreamTypeOK
<1>2. BatchesMatch'
  BY DEF StreamTypeOK, BatchesMatch, HasBatch, Behind, Ahead, GapMet
<1>3. QED
  BY <1>1, <1>2
-----------------------------------------------------------------------------
(* What every step keeps of the iterator. *)

(* A new batch anchors it at the first document. *)
LEMMA AnchoredInBatch ==
  ASSUME StreamTypeOK, StreamTypeOK', iter' = json_iterator(parser'.buf),
         parser'.n > 0
  PROVE  IteratorInBatch'
<1>1. parser'.buf \in Nat /\ parser'.n \in Nat
  BY DEF StreamTypeOK, IndexedParser
<1>2. json_iterator(parser'.buf) \in Iterators
  BY <1>1 DEF json_iterator, Iterators, Results
<1>3. QED
  BY <1>1, <1>2 DEF json_iterator, IteratorInBatch, AtRoot

(* Where the user may leave it in a document is in the document's batch. *)
LEMMA ReadDocumentInBatch ==
  ASSUME StreamInv, front = "ondemand", UNCHANGED front, ReadDocument
  PROVE  IteratorInBatch'
<1>1. /\ UNCHANGED <<parser, pc, error>> /\ HasBatch /\ pc = "loop"
  BY DEF ReadDocument, vars, streamVars, HasBatch
<1>2. PICK p \in iter.root + 1..parser.n + 1 :
         iter' = [iter EXCEPT !.position = p, !.depth = DepthAt(p)]
  BY DEF ReadDocument
<1>3. /\ iter \in Iterators /\ iter.buf = parser.buf
      /\ iter.root \in 1..parser.n
      /\ iter.alive = TRUE /\ iter.faults = {}
  BY <1>1 DEF StreamInv, IteratorInBatch
<1>4. parser.n \in Nat
  BY DEF StreamInv, StreamTypeOK, IndexedParser
<1>5. DepthAt(p) \in Int
  <2>1. Rise(iter.root, p - 1) \in Int
    <3>1. iter.root \in Int /\ p - 1 \in Int
      BY <1>2, <1>3, <1>4
    <3>2. QED
      BY <3>1, RiseIsInt DEF Rise
  <2> DEFINE rise == Rise(iter.root, p - 1)
  <2>2. DepthAt(p) \in {0, rise, rise + 1}
    <3>1. \E x \in {0, 1} : DepthAt(p) = 0 \/ DepthAt(p) = rise + x
      BY Zenon DEF DepthAt
    <3>2. rise \in Int
      BY <2>1
    <3> HIDE DEF rise
    <3>3. QED
      BY <3>1, <3>2
  <2> HIDE DEF rise
  <2>3. QED
    BY <2>1, <2>2 DEF rise
<1>6. p \in Nat /\ p # iter.root /\ p \in iter.root..parser.n + 1
  BY <1>2, <1>3, <1>4
<1> DEFINE d == DepthAt(p)
           at == [iter EXCEPT !.position = p]
<1>7. /\ at \in Iterators /\ at.buf = iter.buf /\ at.root = iter.root
      /\ at.position = p /\ at.alive = iter.alive /\ at.faults = iter.faults
  BY <1>3, <1>6 DEF Iterators
<1>8. iter' = [at EXCEPT !.depth = d]
  BY <1>2
<1> HIDE DEF d, at
<1>9. d \in Int
  BY <1>5 DEF d
<1>10. /\ iter' \in Iterators /\ iter'.buf = iter.buf /\ iter'.root = iter.root
       /\ iter'.position = p /\ iter'.alive = iter.alive
       /\ iter'.faults = iter.faults
  BY <1>7, <1>8, <1>9 DEF Iterators
<1>11. QED
  BY <1>1, <1>3, <1>6, <1>10 DEF IteratorInBatch, AtRoot

LEMMA IterateNextInBatch ==
  ASSUME StreamInv, front = "ondemand", IterateNext
  PROVE  IteratorInBatch'
<1>1. /\ UNCHANGED parser /\ pc = "next" /\ error = "SUCCESS"
  BY DEF IterateNext, StreamInv, BatchesMatch
<1>2. /\ iter \in Iterators /\ iter.alive = TRUE /\ iter.faults = {}
      /\ iter.buf = parser.buf
      /\ iter.position \in iter.root..parser.n + 1 /\ iter.root \in 1..parser.n
  BY <1>1 DEF StreamInv, IteratorInBatch, HasBatch
<1>3. parser.n \in Nat
  BY DEF StreamInv, StreamTypeOK, IndexedParser
<1>4. iter.position \in 1..parser.n + 1
  BY <1>2, <1>3
<1> DEFINE moved == next_document
<1>5. /\ Skipped(iter, moved)
      /\ moved.out = "yes" => moved.root = moved.position /\ moved.depth = 1
  BY <1>2, <1>4, NextDocumentStays DEF StreamInv
<1>6. /\ iter' = moved
      /\ IF moved.out # "yes" THEN Return(moved.out)
         ELSE IF moved.root > parser.n THEN Goto("advance", "EMPTY")
                                       ELSE Return("SUCCESS")
  BY DEF IterateNext
<1> HIDE DEF moved
<1>7. CASE moved.out # "yes"
  BY <1>5, <1>6, <1>7 DEF Return, Skipped, IteratorInBatch, HasBatch
<1>8. CASE moved.out = "yes" /\ moved.root > parser.n
  BY <1>6, <1>8 DEF Goto, IteratorInBatch, HasBatch
<1>9. CASE moved.out = "yes" /\ ~(moved.root > parser.n)
  <2>1. moved.root \in 1..parser.n /\ moved.position = moved.root
    BY <1>3, <1>5, <1>9 DEF Skipped
  <2>2. moved.position \in moved.root..parser.n + 1
    BY <1>3, <2>1
  <2>3. QED
    BY <1>1, <1>2, <1>5, <1>6, <1>9, <2>1, <2>2 DEF Skipped, IteratorInBatch, AtRoot
<1>10. QED
  BY <1>7, <1>8, <1>9

LEMMA IterateStepInBatch ==
  ASSUME StreamInv, StreamTypeOK', BatchesMatch',
         front = "ondemand", UNCHANGED front, IterateStep
  PROVE  IteratorInBatch'
<1>1. CASE IterateBegin \/ IterateSkip
  <2>1. HasBatch' => pc' \in {"start"}
    BY <1>1, StreamAssumption
    DEF StreamInv, BatchesMatch, IterateBegin, IterateSkip, Begin, StartSkip,
        Return, Goto, HasBatch
  <2>2. QED
    BY <2>1 DEF IteratorInBatch
<1>2. CASE IterateFails
  BY <1>2 DEF IterateFails, StartFails, Return, HasBatch, IteratorInBatch
<1>3. CASE IterateStart
  <2>1. /\ iter' = json_iterator(batch_start) /\ parser' = parser
        /\ parser.buf = batch_start /\ parser.n > 0
    BY <1>3 DEF IterateStart, StreamInv, BatchesMatch, HasBatch
  <2>2. QED
    BY <2>1, AnchoredInBatch DEF StreamInv
<1>4. CASE IterateNext
  BY <1>4, IterateNextInBatch
<1>5. CASE IterateBatch \/ IterateLoad
  <2>1. pc' \in {"loaded", "load"} \/ (pc' = "loop" /\ error' = "EMPTY")
    BY <1>5 DEF StreamInv, BatchesMatch, IterateBatch, IterateLoad, NextBatch,
                LoadFromThread, Return, Goto
  <2>2. QED
    BY <2>1 DEF IteratorInBatch, HasBatch
<1>6. CASE IterateLoaded
  <2>1. /\ iter' = json_iterator(batch_start) /\ parser' = parser
        /\ error' = error /\ pc = "loaded"
    BY <1>6 DEF IterateLoaded, Reanchored, Goto, Return
  <2>2. CASE error = "SUCCESS"
    <3>1. parser.buf = batch_start /\ parser.n > 0
      BY <2>1, <2>2 DEF StreamInv, BatchesMatch, HasBatch
    <3>2. QED
      BY <2>1, <3>1, AnchoredInBatch DEF StreamInv
  <2>3. CASE error # "SUCCESS"
    BY <2>1, <2>3 DEF IteratorInBatch, HasBatch
  <2>4. QED
    BY <2>2, <2>3
<1>7. CASE IterateTake
  BY <1>7 DEF IterateTake, Goto, streamVars, StreamInv, IteratorInBatch, HasBatch,
              AtRoot
<1>8. CASE IterateError
  BY <1>8 DEF IterateError, TakeError, IteratorInBatch, HasBatch
<1>9. QED
  BY <1>1, <1>2, <1>3, <1>4, <1>5, <1>6, <1>7, <1>8 DEF IterateStep
-----------------------------------------------------------------------------

LEMMA StepKeeps ==
  ASSUME StreamInv, FrontNext
  PROVE  StreamTypeOK' /\ BatchesMatch'
<1>1. StreamTypeOK /\ BatchesMatch
  BY DEF StreamInv
<1>2. CASE front = "dom" /\ DomStep
  <2>1. CASE Begin
    BY <1>1, <2>1, BeginKeeps
  <2>2. CASE StartSkip
    BY <1>1, <2>2, StartSkipKeeps
  <2>3. CASE StartFails
    BY <1>1, <2>3, StartFailsKeeps
  <2>4. CASE StartThread
    BY <1>1, <2>4, StartThreadKeeps
  <2>5. CASE NextDocument
    BY <1>1, <2>5, NextDocumentKeeps
  <2>6. CASE NextBatch
    BY <1>1, <2>6, NextBatchKeeps
  <2>7. CASE LoadFromThread
    BY <1>1, <2>7, LoadFromThreadKeeps
  <2>8. CASE Loaded
    BY <1>1, <2>8, LoadedKeeps
  <2>9. CASE TakeDocument
    BY <1>1, <2>9, TakeDocumentKeeps
  <2>10. CASE TakeError
    BY <1>1, <2>10, TakeErrorKeeps
  <2>11. QED
    BY <1>2, <2>1, <2>2, <2>3, <2>4, <2>5, <2>6, <2>7, <2>8, <2>9, <2>10
    DEF DomStep, StreamStep
<1>3. CASE front = "ondemand" /\ IterateStep
  <2>1. CASE IterateBegin
    BY <1>1, <2>1, BeginKeeps DEF IterateBegin
  <2>2. CASE IterateSkip
    BY <1>1, <2>2, StartSkipKeeps DEF IterateSkip
  <2>3. CASE IterateFails
    BY <1>1, <2>3, StartFailsKeeps DEF IterateFails
  <2>4. CASE IterateStart
    BY <1>1, <2>4, IterateStartKeeps
  <2>5. CASE IterateNext
    BY <1>3, <2>5, IterateNextKeeps
  <2>6. CASE IterateBatch
    BY <1>1, <2>6, NextBatchKeeps DEF IterateBatch
  <2>7. CASE IterateLoad
    BY <1>1, <2>7, LoadFromThreadKeeps DEF IterateLoad
  <2>8. CASE IterateLoaded
    BY <1>1, <2>8, IterateLoadedKeeps
  <2>9. CASE IterateTake
    BY <1>1, <2>9, IterateTakeKeeps
  <2>10. CASE IterateError
    BY <1>1, <2>10, TakeErrorKeeps DEF IterateError
  <2>11. QED
    BY <1>3, <2>1, <2>2, <2>3, <2>4, <2>5, <2>6, <2>7, <2>8, <2>9, <2>10
    DEF IterateStep
<1>4. CASE IterateExecute
  BY <1>1, <1>4, ExecuteKeeps DEF IterateExecute
<1>5. CASE IterateDestroy
  BY <1>1, <1>5, DestroyKeeps DEF IterateDestroy
<1>6. CASE ReadDocument
  BY <1>1, <1>6, ReadDocumentKeeps
<1>7. CASE Gone
  <2>1. UNCHANGED vars
    BY <1>7 DEF Gone
  <2>2. QED
    BY <1>1, <2>1, StutterKeeps
<1>8. QED
  BY <1>2, <1>3, <1>4, <1>5, <1>6, <1>7 DEF FrontNext, FrontStep

LEMMA StepKeepsIterator ==
  ASSUME StreamInv, FrontNext, StreamTypeOK', BatchesMatch'
  PROVE  IteratorInBatch'
<1>1. front' = front
  BY DEF FrontNext
<1>2. CASE front # "ondemand"
  BY <1>1, <1>2 DEF IteratorInBatch
<1>3. CASE front = "ondemand"
  <2>1. CASE IterateStep
    BY <1>1, <1>3, <2>1, IterateStepInBatch
  <2>2. CASE IterateExecute
    BY <1>1, <2>2 DEF IterateExecute, Execute, streamVars, StreamInv,
                      IteratorInBatch, HasBatch, AtRoot
  <2>3. CASE IterateDestroy
    BY <2>3 DEF IterateDestroy, Destroy, IteratorInBatch
  <2>4. CASE ReadDocument
    BY <1>1, <1>3, <2>4, ReadDocumentInBatch
  <2>5. CASE Gone
    BY <2>5 DEF Gone, vars, IteratorInBatch
  <2>6. QED
    BY <1>3, <2>1, <2>2, <2>3, <2>4, <2>5 DEF FrontNext, FrontStep
<1>4. QED
  BY <1>2, <1>3

LEMMA StreamInvInit ==
  ASSUME FrontInit
  PROVE  StreamInv
<1> USE DEF FrontInit, Init
<1>1. StreamTypeOK
  BY StreamAssumption, NewParserIsIndexed
  DEF StreamTypeOK, Labels, StreamErrors, Stage1Errors, Batches
<1>2. BatchesMatch
  BY StreamAssumption DEF BatchesMatch, HasBatch
<1>3. IteratorInBatch
  BY DEF IteratorInBatch
<1>4. QED
  BY <1>1, <1>2, <1>3 DEF StreamInv

LEMMA StreamInvStep ==
  ASSUME StreamInv, [FrontNext]_frontVars
  PROVE  StreamInv'
<1>1. CASE FrontNext
  BY <1>1, StepKeeps, StepKeepsIterator DEF StreamInv
<1>2. CASE UNCHANGED frontVars
  <2>1. UNCHANGED vars /\ iter' = iter /\ front' = front
    BY <1>2 DEF frontVars
  <2>2. StreamTypeOK' /\ BatchesMatch'
    BY <2>1, StutterKeeps DEF StreamInv
  <2>3. IteratorInBatch'
    BY <2>1 DEF StreamInv, IteratorInBatch, HasBatch, AtRoot, vars, streamVars
  <2>4. QED
    BY <2>2, <2>3 DEF StreamInv
<1>3. QED
  BY <1>1, <1>2
-----------------------------------------------------------------------------
(* The batches, the worker's requests and the iterator are always as        *)
(* StreamInv says, for any texts, batch sizes and failing allocations.      *)
THEOREM StreamInvariant == FrontSpec => []StreamInv
  BY StreamInvInit, StreamInvStep, PTL DEF FrontSpec

(* Type correctness of the streams; in particular every parser always holds *)
(* indexes that point into its batch, and its sentinels.                    *)
THEOREM StreamTypeCorrect == FrontSpec => []StreamTypeOK
<1>1. StreamInv => StreamTypeOK
  BY DEF StreamInv
<1>2. QED
  BY <1>1, StreamInvariant, PTL

(* Stage 2, or the user's iterator, reads the batch the stream believes to  *)
(* be in, with the text its indexes are of.                                 *)
THEOREM OwnBatchIsRead == FrontSpec => []ReadsOwnBatch
<1>1. StreamInv => ReadsOwnBatch
  <2> SUFFICES ASSUME StreamInv
               PROVE  ReadsOwnBatch
    OBVIOUS
  <2>1. BatchInParser
    BY DEF StreamInv, BatchesMatch, HasBatch, BatchInParser
  <2>2. front = "ondemand" /\ pc = "loop" /\ error = "SUCCESS" =>
          /\ iter.buf = parser.buf
          /\ iter.root <= parser.n
          /\ AtRoot => iter.depth = 1
          /\ iter.faults = {}
    <3>1. parser.n \in Nat
      BY DEF StreamInv, StreamTypeOK, IndexedParser
    <3>2. iter.root \in 1..parser.n => iter.root <= parser.n
      BY <3>1
    <3>3. QED
      BY <3>2 DEF StreamInv, IteratorInBatch, HasBatch
  <2>3. QED
    BY <2>1, <2>2 DEF ReadsOwnBatch
<1>2. QED
  BY <1>1, StreamInvariant, PTL

(* The worker indexes the batch right behind the one that is read, and what *)
(* is swapped in is its complete result, unless the worker has met a batch  *)
(* without documents.                                                       *)
THEOREM WorkerIsAheadOrGapMet == FrontSpec => [](WorkerIsAhead \/ GapMet)
<1>1. StreamInv => WorkerIsAhead \/ GapMet
  BY DEF StreamInv, BatchesMatch, WorkerIsAhead, GapMet, Ahead, Behind
<1>2. QED
  BY <1>1, StreamInvariant, PTL

(* In a stream that never meets a batch without documents, the job of the  *)
(* worker is the batch behind the one being read (load_from_stage1_thread). *)
COROLLARY WorkerIsAheadWithoutGaps == FrontSpec /\ []~GapMet => []WorkerIsAhead
  BY WorkerIsAheadOrGapMet, PTL

(* An On-Demand document begins at a token of its batch, and the iterator   *)
(* is in the batch or at its end.                                           *)
THEOREM IteratorStaysInBatch == FrontSpec => []IteratorInBatch
<1>1. StreamInv => IteratorInBatch
  BY DEF StreamInv
<1>2. QED
  BY <1>1, StreamInvariant, PTL
-----------------------------------------------------------------------------
(* Refinement: to the worker either stream is the user of a mailbox. *)
LEMMA StreamStepIsMailboxStep ==
  ASSUME StreamInv, StreamInv', [FrontNext]_frontVars
  PROVE  [Mailbox!Next]_(Mailbox!cvars)
<1>1. StreamTypeOK /\ StreamTypeOK' /\ BatchesMatch
  BY DEF StreamInv
<1>2. ASSUME \/ start_stage1_thread(batch_start, parser)
             \/ UNCHANGED <<stage1_thread_error, posted>>,
             UNCHANGED <<outcome, open, collected>>,
             pc # "gone"
      PROVE  [Mailbox!Next]_(Mailbox!cvars)
  <2>1. CASE posted' = posted
    BY <1>2, <2>1 DEF Mailbox!cvars
  <2>2. CASE posted' # posted
    <3>1. posted' \in Batches /\ posted' \in Nat
      BY <1>1, <1>2, <2>2, NextStartIsNat DEF start_stage1_thread, StreamTypeOK
    <3>2. posted' \in 0..MaxOffset
      BY <3>1 DEF Batches, NoBatch
    <3>3. Mailbox!Post(posted')
      BY <1>1, <1>2 DEF Mailbox!Post, StreamTypeOK
    <3>4. QED
      BY <3>2, <3>3 DEF Mailbox!Next
  <2>3. QED
    BY <2>1, <2>2
<1>3. ASSUME UNCHANGED workerVars
      PROVE  [Mailbox!Next]_(Mailbox!cvars)
  BY <1>3 DEF workerVars, Mailbox!cvars
<1>4. CASE Begin \/ StartSkip \/ StartFails \/ NextDocument \/ NextBatch
           \/ TakeDocument \/ TakeError \/ IterateNext \/ IterateTake
  BY <1>3, <1>4
  DEF Begin, StartSkip, StartFails, NextDocument, NextBatch, TakeDocument,
      TakeError, IterateNext, IterateTake
<1>5. CASE StartThread \/ Loaded \/ IterateStart \/ IterateLoaded
  <2>1. /\ \/ start_stage1_thread(batch_start, parser)
           \/ UNCHANGED <<stage1_thread_error, posted>>
        /\ UNCHANGED <<outcome, open, collected>>
        /\ pc # "gone"
    BY <1>5 DEF StartThread, Loaded, IterateStart, IterateLoaded
  <2>2. QED
    BY <1>2, <2>1
<1>6. CASE LoadFromThread
  BY <1>6 DEF LoadFromThread, Mailbox!Next, Mailbox!Collect
<1>7. CASE Execute
  BY <1>7 DEF Execute, Mailbox!Next, Mailbox!Execute
<1>8. CASE Destroy
  BY <1>1, <1>8 DEF Destroy, StreamTypeOK, Mailbox!Next, Mailbox!Close
<1>9. CASE ReadDocument \/ Gone \/ UNCHANGED frontVars
  BY <1>3, <1>9 DEF ReadDocument, Gone, frontVars, vars
<1>10. QED
  BY <1>4, <1>5, <1>6, <1>7, <1>8, <1>9
  DEF FrontNext, FrontStep, DomStep, StreamStep, IterateStep, IterateBegin,
      IterateSkip, IterateFails, IterateBatch, IterateLoad, IterateError,
      IterateExecute, IterateDestroy

(* Both streams use the worker as the one-job mailbox of WorkerContract,    *)
(* the one WorkerImplementsContract proves of the worker's thread.          *)
THEOREM StreamUsesMailbox == FrontSpec => UsesMailbox
<1>1. FrontInit => Mailbox!Init
  BY DEF FrontInit, Init, Mailbox!Init
<1>2. QED
  BY <1>1, StreamInvariant, StreamStepIsMailboxStep, PTL
  DEF FrontSpec, UsesMailbox, Mailbox!Spec
=============================================================================
