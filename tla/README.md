# A TLA+ model of simdjson

simdjson parses JSON in two stages. *Stage 1* finds the structural indexes of
the input: the offsets where an operator, a string or another scalar starts.
*Stage 2* walks them. In the DOM front end it writes a *tape* at once; in the
On-Demand front end the user's calls move over the indexes lazily. Streams
(`parse_many`, `iterate_many`) cut a long input into batches, run stage 1 on a
batch and stage 2 on one document at a time, and may let a worker thread index
the next batch ahead.

The modules here follow the code in `src/`, `include/simdjson/` at this commit.
`PROJECT.json` maps each definition to the lines it stands for.

## 1. Inventory

| Part | State it keeps | Operations | What makes it correct |
|---|---|---|---|
| stage-1 worker thread (`dom/document_stream-inl.h`) | mutex, condition variable, `has_work`, `can_work`, one job, the thread | `start_thread`, `run`, `finish`, `stop_thread`, the thread's loop | no lost wake-up; `finish()` means the latest job is done; the destructor joins |
| DOM document stream (same file) | `batch_start`, `doc_index`, `error`, two parsers swapped per batch, the mailbox to the worker | `begin`/`start`, `next`, `operator*`, `operator++`, `source`, `truncated_bytes`, the destructor | documents come out whole, once, in order; positions belong to the batch in the parser; the iteration ends |
| stage 1 indexer (`generic/stage1/json_structural_indexer.h`, `json_scanner.h`, `json_string_scanner.h`) | carries between 64-byte blocks, `structural_indexes` with three sentinels | `index`, `step`, `next`, `finish` | the indexes are those of the text; the sentinels stop a walk that runs over the end |
| `find_next_document_index` | none | one backward search | a batch is cut between documents |
| stage 2 (`generic/stage2/json_iterator.h`, `tape_builder.h`, `tape_writer.h`) | the position, `depth`, `is_array`, `open_containers`, the tape | one goto label each for the parts of arrays and objects | accepts the grammar; never reads behind the sentinels; stacks and tape suffice; the tape is right |
| numbers, strings, atoms (`numberparsing.h`, `stringparsing.h`, `atomparsing.h`) | none | parse one token | the value is that of the text, or an error |
| UTF-8 validation (`utf8_lookup4_algorithm.h`), minifier (`json_minifier.h`) | carries between blocks | a block at a time | valid exactly when the bytes are UTF-8; only whitespace outside strings goes |
| kernels (`fallback`, `haswell`, `icelake`, `westmere`, `arm64`, `ppc64`) | none of their own | the same interface | agree with one another |
| implementation selection (`implementation.cpp`) | an atomic pointer | detect and store on first use | the best supported kernel is used by all threads |
| DOM parser and document (`dom/parser-inl.h`, `dom/document-inl.h`) | capacities, buffers, `valid`, the document | `parse`, `load`, `allocate`, `ensure_capacity` | buffers suffice for what is parsed into them; limits are respected |
| DOM elements and the tape reader (`dom/element-inl.h`, `array-inl.h`, `object-inl.h`, `serialization-inl.h`, `parsedjson_iterator-inl.h`) | an index into the tape | iterate, look up, JSON pointer, print | navigation visits the values of the document |
| On-Demand (`generic/ondemand/*`) | `_depth`, the token position, one shared iterator | start, step, skip and end of values, arrays, objects; rewind | values stay usable as documented; a half-read child leaves the parent able to go on |
| On-Demand stream (`ondemand/document_stream-inl.h`) | as the DOM stream's, for a live document | as the DOM stream's | as the DOM stream's |

How they interact: a DOM stream calls its worker (lock, condition variable);
the worker runs stage 1 of the *second* parser; the stream swaps the two
parsers; stage 2 reads what stage 1 left in the parser, and the stream reads
where stage 2 stopped (`next_structural_index`) and what stage 1 left behind it
(the sentinels) to find the next batch and the truncated bytes. Apart from this
worker and from the first use of the library, nothing is concurrent: parsers
and documents belong to one thread.

What is hard here: the protocol between two threads over one condition
variable; the swap of parsers while positions stay with the stream; a batch
that ends inside a document, a string or a scalar; sentinels that are read as
if they were tokens; stacks, tapes and buffers of exactly the size the largest
document needs; carries between blocks. `PROJECT.json` lists them as hazards at
their lines.

## 2. The modules

```
 threads and streams
   WorkerContract  <--implements--  Stage1Worker      <- Stage1Worker_proofs
        ^
        | used as a mailbox
   DocumentStream  --implements-->  StreamContract
     ^  |        \
     |  v         JsonGrammar (reference)
     | StructuralIndex  <- StructuralIndex_proofs
   OnDemandStream  <- OnDemandStream_proofs  (both streams)
        (its iterator is ValueIterator's, below)

 stage 1
   ByteText (reference)  <--  KernelContract
        ^                           ^ implements
   BlockScanner + Utf8Checker  --  Kernels  --  FallbackScanner
        |      \___ BlockScanner_proofs <- Kernels_proofs
        \___ StructuralIndex (the same function of a window)

 stage 2 and the DOM
   WalkDocument  --against-->  JsonGrammar, DomTape (references)
        |  \___ Stage2_proofs
        v
   TapeReader    --against-->  JsonTree (reference)
   ParserImplementation  <-  DomParser  <- DomParser_proofs

 On-Demand
   ValueIterator  <-  OnDemand  --implements-->  OnDemandContract  ->  JsonTree
                         \___ OnDemand_proofs

 scalars
   NumberParsing, StringParsing  <- Stage2_proofs
```

Each `MC...` module instantiates the module of its name for TLC. A definition
with an underscore and a capital behind it, marked "Slip", is a variant with an
error that somebody could make; the properties are checked to notice it.

**Stage1Worker** (`stage1_worker`). Two threads: the stream's (`pcM`), which
calls `start_thread`, `run`, `finish`, and finally the destructor, in the order
the stream may, and the worker's (`pcW`). `mutex` says who holds
`locking_mutex`; `waiting` is the set of threads asleep on `cond_var`;
`NotifyOne` wakes any one of them, `NotifyAll` all, and `Spurious` one without
a reason (at most `MaxSpurious` times). Every section between lock and unlock
is one step, which is what the mutex makes it; taking it, releasing it, waiting
and waking up are steps of their own.

**WorkerContract** is what the stream relies on: a mailbox for one job. A job is
posted, executed once, collected; `finish()` returns only with the latest job
done; after the close nothing runs. `ImplementsContract` is the refinement.

**StructuralIndex** is stage 1 as a function: the structural indexes of a window
of text, `find_next_document_index`, and `Stage1`, which is `finish()` with its
sentinels, error codes and UTF-8 trimming in the streaming modes. A text is a
sequence of character classes: the six operators, `"q"` a quote, `"d"` a
character of a number or an atom, `"u"` the first byte of a character of several
bytes, `" "` whitespace. The code's backward loop is written as the
position where it stops.

**JsonGrammar** and **DomTape** are references, not code: which token sequences
are documents, which documents a text has, and which tape `doc/tape.md` asks
for.

**DocumentStream** (`dom::document_stream`) has one action per stretch of code
between two calls that may block, fail or return to the user. `run_stage1`
uses `Stage1`; `stage2_next` is stage 2's outcome by the grammar, which
`WalkDocument` justifies (`AcceptsGrammar`): the error code, the advanced
position and the document. The worker is the mailbox of `WorkerContract`
(`UsesMailbox` checks that the stream keeps its side), and `Execute` is the
worker's thread. The user takes documents in a range-for loop and may leave it
and destroy the stream at any document. `OldMemory` is what the index array
holds before anything was written to it.

**OnDemandStream** (`ondemand::document_stream`) extends `DocumentStream`; a
behaviour is a stream of one front end (`front`). The batches and the worker, which
the code has in a copy of its own, are shared. In place of stage 2 there is the
stream's `json_iterator` (`iter`, on `ValueIterator` as its engine, which reads the
parser's indexes in the text the iterator was anchored to). The user reads as
much as he likes of a document: `ReadDocument` puts the iterator at some key,
value, comma or end in it, with the depth that `OnDemand` has there
(`DepthIsNesting` in `MCOnDemand`). `next_document` skips what is left, and
`Reanchored` is what `next()` does after every load.

**StreamContract** is what `parse_many` and `iterate_many` promise: documents in order and whole;
at the end all of them, and the number of bytes that were not parsed.
`KeepsPromise` is the refinement.

**WalkDocument** (`json_iterator::walk_document` with `tape_builder`) has one
action per goto label, or two where the label branches. It serves whole
documents and the documents of a batch; in a batch the walk starts where the
last document ended and is not told where the kept indexes end. A payload on
the tape is the index of its token. Scalars that their parser refuses are
tokens of their own (`"b"` a string with a bad escape, which has already
written its tape entry; `"x"` any other); what such a parser does is in
`NumberParsing` and `StringParsing`.

**ByteText** is the reference for everything that reads bytes: table 3-7 of the
Unicode standard, which bytes are escaped, what is in a string, what a minified
text is, and the character classes `StructuralIndex` works with.

**Utf8Checker** (`utf8_lookup4_algorithm.h`). The three tables as sets of flags,
`check_next_input` with its fast path for ASCII, `check_eof`. A block is a
function from bit positions to bytes.

**BlockScanner** (`json_structural_indexer`, `json_scanner`,
`json_string_scanner`, `json_minifier`, `generic_validate_utf8`,
`buf_block_reader`). A 64-bit mask is the set of its bits, `Width` stands for 64
and `step_size` for `STEP_SIZE`, one or two blocks (icelake,
westmere, haswell, arm64 and ppc64 differ in nothing else here, nor in
`classify()`). The state is what the C++ objects carry from block to block:
`scanner` (three carries), `checker`, `prev_structurals` (the bits of the block
before, whose indexes are not written yet), `tail`. One action reads one step;
the last step, with the padding of spaces and `finish()`, is an action of its
own. `find_escaped` adds masks as numbers, as the code does.

**FallbackScanner** (`fallback/dom_parser_implementation.cpp`). One action per
byte or token of `scan()`, `validate_string`, `minify` and `validate_utf8`.
`behind` is the byte found behind the text, which `validate_utf8_character`
may read.

**KernelContract** is what each kernel promises for one task on one text, and
where kernels may differ; **Kernels** composes the two over the same text, and
`KernelsKeepPromise` is the refinement, by both.

**TapeReader** (`dom::element`, `array`, `object`, their iterators, JSON
pointers, `string_builder`) reads a finished tape, as functions of the tape: which
positions an iterator takes, what a look-up finds and with which error, and what
is printed. `string_builder::append` keeps the containers it is in on a stack of
`PrintDepth` (`MAX_DEPTH`) and calls itself for what is deeper. It is composed
with `WalkDocument` in `MCWalkDocument`: it reads the tapes that stage 2 wrote.
A segment of a JSON pointer is a key or an index; malformed ones (`-`, an empty one, a
leading zero), which `array::at_pointer` refuses one by one, are left out.

**ParserImplementation** and **DomParser** (`dom::parser`, `dom::document`,
`dom_parser_implementation`) treat the parser as an owner of memory. A buffer is
the length of input it is large enough for, 0 a null pointer; beside it stands
what the code believes to have (`capacity`, `max_depth`, `allocated_capacity`,
`_loaded_bytes_capacity`). Each user call is one action: it allocates in the
order of the code, any set of `Failing` allocations may fail in it, it returns
its error as early as the code does, and then the two stages write: `call.overrun`
names the buffers that are too small for that. The auxiliary variable
`documented_limit` is what `parser.h` says `max_capacity` is after each call; no step
depends on it. What the code does not live with is
named and left out by four constants: failures that are not `Survivable`
(`FailsAnyhow`), the use of something that was used and moved away
(`ReusesMoved`), a size beyond the limit of the format before there is an
implementation (`OversizedFirst`), and limits that the code does not take as documented
(`AnyLimits`: a limit below the minimum, a `set_max_capacity()` to anything but the
minimum or of a parser that has more, an `allocate()` beyond the limit, which leaves the document behind).

**ValueIterator** (`ondemand::json_iterator`, `token_iterator`,
`value_iterator`). One position and one depth serve a whole document; each
operation maps the `json_iterator` to the one it leaves, with the outcome in it.
`faults` collects what must never happen: a `SIMDJSON_ASSUME` that is false, a
read behind the sentinels, a use of the parser after `abandon()` took it away.

**OnDemand** (documents, values, arrays, objects and their iterators) is a user
of it. `held` is the stack of his handles. The documentation has him finish with
a value before he takes the next one, so he uses the handle on top or drops it,
having read as much or as little as he likes; dropping it leaves the parent to
skip the rest. He gets, iterates, searches in and out of order, counts, asks
`at()`, follows JSON pointers, takes `raw_json()`, resets and rewinds. The loops in
the library take one step per round, `call` is the one in progress.

**JsonTree** is the reference for both front ends: the items of each container of a
token sequence, where a value ends, what a path leads to.

**OnDemandContract** promises that the front end is a walk over that tree: for
each node that is held, how many of its items were handed out. The refinement
`NavigatesTree` maps the one position and depth of the code to that progress.

**MCStage2** puts the walk and the scalars that its visitors parse into one run: a
behaviour is a walk over a document, an unescaping of a string or a call of a getter,
and the other two stand still.

**NumberParsing** (`numberparsing.h`; in On-Demand also the getters for the root,
with their copy into a small buffer): from characters to a 64-bit integer or the
operands of a floating-point number, with arithmetic that wraps. `Base`, `Half`,
`SafeDigits`, `Top` stand for 10, 2^63, 19 and 10^19. A floating-point number is its
exact value; how it is rounded is not modelled. `MCNumbers` composes its texts
from a sign, digits, a fraction, an exponent and an end, so that their meaning is
known without parsing them.

**StringParsing** (`stringparsing.h`) unescapes one string, a window of
`BYTES_PROCESSED` at a time: with surrogates that must be in pairs, with
replacement, or kept as they are (WTF-8). `MCStrings` composes its strings from
pieces whose code points are known.

## 3. The runs

| Run | Bounds | What it shows |
|---|---|---|
| `worker` | two jobs, two spurious wake-ups | every interleaving of the protocol: no lost wake-up, `finish()` current, a job's result stays until it is collected, the destructor joins, `finish()` and the destructor return, refinement of the mailbox |
| `stream` | texts to 6 characters over `[ ] d blank` in batches of 3 bytes; prefixes of two joined unlike pieces (a nested array, an object, a string with a bracket behind a blank) and an object, and the joined pieces with one operator left out, in batches of 9; both front ends, On-Demand over the well-formed texts; threads on and off, allocations that fail | refinement of `StreamContract`, no document, whole or broken, is read beyond the indexes that were kept, parsers and iterators matched to batches, the worker one batch ahead, `source()` exact for containers, termination |
| `kernels` | every text to 5 bytes (6 for whole documents) over quote, backslash, bracket, letter, blank; rows of quotes and backslashes over three blocks; triples of tokens with strings, newlines, form feeds; first and second bytes at every bound of UTF-8's table, also behind a backslash in a string, and rows of whole and cut characters, in strings and outside; blocks of 4 bytes, one or two per step | the carries describe the text before the block, the delayed indexes are those of the text, the minifier stays in its output, the vector stage 1 gives exactly the indexes and errors of `StructuralIndex`, and both kernels keep `KernelContract` |
| `walk`, documents | all token lists to length 4 over 11 tokens, to length 6 over 4, nested documents with one token changed or dropped, documents at the depth limit; five paddings; stacks of 5; paths of up to three segments over two keys and two indexes; printing with 3 levels of its own | accepts exactly the grammar up to the depth `walk_depth` is about, reads within the sentinels, stacks and tape suffice, start entries are a stack, the tape is right; read back it gives the items, look-ups and text of the document |
| `ondemand` | all token lists to length 3 over 8 tokens; arrays and objects of up to two items that are scalars or containers; the same with one token replaced or removed; a batch of four documents, whole and damaged; other paddings for inputs of up to 4 tokens | on well-formed texts every answer is the tree's, in whatever order the user takes, skips, searches, resets, rewinds and drops, and the depth is the nesting; on every text no assumption fails, no read leaves the sentinels, the parser is not used after it was given up, a loop that fails ends all loops around it, and the library's own loops end |
| `parser` | inputs of 0, 1, 4 and 6 bytes against a minimum of 2 and a maximum of 5, limits of 2, 4 and 5, two depths, two capacities, two documents, six sets of failing allocations | what the parser, its documents and its file buffer claim is backed by memory; no call overruns a buffer; an error about memory or capacity has the reason the header gives |
| `walk`, numbers | every integer of up to 4 digits in base 7 against words of 512, with two signs, quotes and three ends; 5 digits of three kinds; decimals of six whole parts, all fractions over two digits up to 4 places, 13 exponents of which some overflow their own parsing and some are cut | every getter gives the exact value or the right error; `is_integer()` and `get_number_type()` agree with `parse_number()` |
| `walk`, strings | up to three pieces of 18 (characters, escapes, surrogates at their bounds, bogus ones) and escapes cut by the end; windows of 1 and 4 bytes; three modes | the output is the UTF-8 of the code points, or the error is right; it is never longer than what was read |
| `stream_gap`, `walk_depth`, `parser_moved`, `parser_limit`, `numbers_double`, `numbers_root` | as above, with the inputs the others leave out | the disagreements below |

Why the bounds are enough. A batch of three bytes holds every way a batch can
end: between documents, inside a container, behind an empty container, in
blanks; and six bytes are two batches and the end, so that the swap happens
with a batch before and behind. The pieces add depth, both kinds of brackets and
strings. Four arbitrary tokens reach every label of stage 2 with every wrong
token and run over all three sentinels; the nested documents reach containers in
containers with items behind them, where `is_array` matters. `CountMax` is 1, so
that the saturation of the element count happens. A block of four bytes is the
smallest that holds a whole character of UTF-8 and both parities of bit
positions; nine or more bytes are three blocks, so that a carry goes through a
block of backslashes, a string spans one, and a block of ASCII stands between
two others. The On-Demand documents have a container with a container inside and an
item behind it, which is where a skip must come out at the right depth; a search
wraps around in objects of two fields. The parser's lengths lie below the minimal capacity,
between it and each limit, and beyond one; two documents are needed for one to be too small
while the parser is not. In base 7 with 3 digits the words of 512 lie as
between 10^19 and 2*10^19 the real ones do: `NumberAssumption`, which both meet,
is all the argument about overflow needs. 18 pieces in triples hold each surrogate
before and behind each other and before an escape that is cut or bogus; an
escape of 12 bytes spans four windows of 4.

What the passing runs leave out, by name, are inputs on which the code departs
from its documentation. `stream`: texts in which a scalar spans several bytes
(`OneByteScalars`), and, when a worker is used, texts with an empty batch in the
middle (`Compact`); for On-Demand, texts with a document that is not well-formed (`Sound`), which
the stream does not look at and `ondemand` does. `parser`: the four constants named in section 2. `walk`: of
`get_double()` the numbers below one with too many digits (`Miscounted`) and
exponents of more than 19 digits (`LongExponent`). `ondemand`: a user who, once a
call failed, goes on otherwise than to end his loops (`StopsAtErrors`), and the
assumption in the second search of an object, which is a fault of its own and
not asserted. `kernels`: windows that end in the middle of a character of four
bytes, for the fallback kernel. `StopsAtErrors` excludes more than the code
strictly asks for; what happens beyond it is in section 4.

Fairness: weak fairness of the library's own steps and of the worker's thread,
which is what a preemptive scheduler and a mutex give to code that does not
block for ever. In `Stage1Worker` it is weak fairness of each thread as a whole;
no stronger assumption on the mutex is needed, since a thread that has to take
it only competes with one that soon waits or stops. The user's loop is assumed
to go on or to destroy the stream; `Destroy` itself is not fair, nothing depends
on it. For On-Demand no fairness is stated: that its loops end is
`RoundsAdvance`, by which each round comes closer to a bound, and
`ReadsInBounds`, which is the bound. Deadlock is checked where something should
go on (`worker`, `stream`); the others stop when a text is read or a user has
nothing left to call.

## 4. What disagrees with the documentation

Each of these is a violation run and a finding in `PROJECT.json`.

* `stream_gap`: with threads, a batch of blanks in the middle ends the stream as
  if complete. `load_from_stage1_thread()` returns on `EMPTY` before it gives
  the worker its next job, and the next swap brings back a used parser.
* `walk_depth`: a document whose containers are nested exactly `max_depth` deep is refused,
  unless the innermost of them is empty, where `doc/basics.md:1619` refuses depths that
  exceed the limit and `parser.h:448` promises memory for documents of that depth.
  `AcceptsGrammar` allows `DEPTH_ERROR` only beyond `max_depth`; the documents of its run do not
  nest that deep without an empty container at the bottom (`NumbersIn`).
* `parser_limit`: `set_max_capacity()` compares the wrong way round, so that every limit above
  the minimum becomes the minimum, and what is longer is refused with `CAPACITY` where
  `parser.h:187` and `:497` promise to grow. A limit below the minimum, from the constructor or from
  `set_max_capacity()`, is kept, where `parser.h:503` says the minimum is set; such a parser
  refuses every document, even after the `allocate()` of `doc/dom.md:606`.
* `parser_moved`: a document or parser that was used and moved away keeps its
  capacity without its buffers, where `document.h` and `parser.h` say that the capacity
  is zeroed. The next parse writes through null.
* `numbers_double`: `get_double()` of a number below one tests the zeros it
  skipped where it should test the digits that are left, and computes from
  digits that wrapped.
* `numbers_root`: the copy of a root number into a small buffer cuts digits as
  well as blanks, so that a number of 21 characters is answered with its first 20.

Seen while modelling, by reading or by runs that are not kept. Some of these have a
hazard in `PROJECT.json` with a note.

* Streams. A number or atom that a batch's end cuts is delivered as two
  documents, since only brackets are balanced; a cut string alone in its batch
  is reported as `CAPACITY` though it would fit a batch of its own; `source()`
  of a scalar at the very end lacks a byte; `truncated_bytes()` of an empty
  stream reads memory that was never written; a batch that is only the
  first byte of a character ends the stream with `UTF8_ERROR`; so does the
  fallback kernel for a character of four bytes cut in its middle.
* Memory. When a stack cannot be allocated, or a new implementation's
  `set_capacity()` fails because the size is beyond the limit, the parser is left with a capacity
  and without stacks. After a failed load, `_loaded_bytes_capacity` keeps its
  value, and a smaller load reads into null.
  `ondemand::parser::allocate()` does not look at whether its string buffer was allocated.
* On-Demand. After an error that ended the document a look-up or a rewind uses
  the parser that `abandon()` took away (`json_iterator-inl.h:229`); the second
  search pass asserts what a damaged object does not give
  (`value_iterator-inl.h:324`); the skip inside `find_field` does not abandon when it
  fails; `document::get_value()` skips the checks that the other getters of a root
  container make; the text `[,` with a padding that is a bracket reads the
  padding; an index in a JSON pointer that overflows wraps;
  `iterate_many` goes on after a document with a fatal error. Its `source()` of a
  scalar lacks the start of the batch, and of a document that was read in part goes on
  behind it; its `current_index()` of the first document of a batch is where the
  batch starts, blanks included, where `doc/iterate_many.md:171` says the document's location.
* Numbers. `get_double()` refuses exponents of 20 and more digits;
  a root number with many trailing blanks is refused, and so are quoted ones of
  19 or 20 digits; `falsex` at the root is taken for `false`.

## 5. The proofs

TLAPS proves, for every value of the constants:

* `Stage1Worker_proofs` - the types, mutual exclusion, `NoLostWakeup`,
  `FinishSeesLatest`, `GoneIsQuiet`, that no job starts behind `stop_thread()`,
  and that the worker implements `WorkerContract`. The inductive invariant is
  `TypeOK` with `OwnsMutex`, `NoLostWakeup`, `FinishSeesLatest`, `Phases` (what
  the main thread may assume in each phase of its use of the worker) and
  `Settled` (with no work left, the result is that of the latest job); the refinement is
  proved action by action under it, each action mapping to a contract action or
  to a stutter.
* `Stage2_proofs`, the walk - for inputs of any length, any padding, any
  `max_depth`: `TypeOK`, `StackInBounds`, `TapeFits`, `StackIsTape`, that an accepted
  tape is written throughout and, for whole documents, `ReadsInBounds`.
  * `TypeOK`, `StackInBounds` and `TapeFits` rest on one invariant `IInv`.
    `Depths` says at which labels `depth` is 0 and at which it is between 1 and
    `max_depth - 1`. `TapeBound` says, per label, how many words the tape may
    be ahead of the indexes read: none where a value is about to be read, one
    behind a comma or the start of an array, two behind a value, three at the
    end. Neither half is inductive without the other or without the types.
  * `ReadsInBounds` is the argument of issue 906. If the walk passes the end it
    reads the same padding character twice and then the first character of the
    input. The proof follows which states can survive the first sentinel (a
    closing bracket, a comma or an opening bracket), the second, and the third,
    with the check that a document that starts with `[` or `{` also ends with
    its partner.
  * `StackIsTape` says which entries are open and which kind of container is the innermost.
    The first half rests on `Stack`: the entries of the tape that are reserved
    and not written are exactly those that the levels of `open_containers` point
    to, and these are in ascending order. `StackIsTape` alone is not inductive: it
    does not say that no other entry is reserved, and the end of a container would not
    give it for the container around it. The second half rests on `Kinds`: at each label inside a container
    the flag in `is_array` is that of the label. At `done` there is no level left, and so no
    entry that was not written (`AcceptedTapeIsWritten`).
* `StructuralIndex_proofs` - stage 1 as a function, for windows of any length.
  `IndexesAreTheStarts`: the indexes are the offsets at which a token starts, in strictly
  ascending order. `Stage1Indexes`: whatever the mode and the old content of the
  array, the indexes that `Stage1` keeps are the first of those, in order (`FirstStarts`), with one more
  behind them to read, none outside the window, room for three sentinels, and at least
  one when it reports success; only `UTF8_ERROR`, for a window without a whole
  character, leaves the old ones. The scanner's carries
  are recursive functions over the text. Induction over them is by the
  smallest counterexample (`Smallest`, from the well-foundedness of the order of
  the naturals), since the induction theorems of the library take an operator.
* `OnDemandStream_proofs` - both streams over their worker, for any texts, batch
  sizes, threads on or off, failing allocations and stage 1 as just described.
  The inductive invariant `StreamInv` has three parts. `StreamTypeOK` includes that each
  parser always has indexes that point into its batch. `BatchesMatch` says, at
  each label of `next()`, which batch is in the parser that is read, which in the
  parser of the worker, and which one is posted. `IteratorInBatch` says that the iterator of an
  On-Demand stream stands between the start of its document and the end of the batch.
  `OwnBatchIsRead` follows for every stream. `WorkerIsAhead` holds only up
  to the gap that `stream_gap` is about; that is what `WorkerIsAheadOrGapMet` says,
  and `WorkerIsAheadWithoutGaps` is the property for streams that never meet a batch without
  documents. `StreamUsesMailbox` is the refinement: every step of the stream is a step of
  the client of `WorkerContract`, or leaves its mailbox alone. With
  `WorkerImplementsContract` the two sides of the thread meet in a contract that both
  are proved against.
* `BlockScanner_proofs` and `Kernels_proofs` (the vector kernels, then the fallback and the
  contract) - for every width of a block, one or two blocks per step, every text, every byte
  behind it and every classification the kernels have:
  `CarriesDescribeText`, `PrefixIndexed`, `OutputFits`, `VectorIsExact` and the
  refinement `KernelsKeepPromise`.
  * `FindEscapedIsExact` comes first: the addition of `find_escaped` finds the bytes
    that are escaped. Its carries run through rows of backslashes, and the proof follows the
    two sums bit by bit from the start of a row. It needs an even `Width`: in blocks of
    odd width a row that crosses the end would change its parity. The attempt without
    it failed there, and `WidthAssumption` says so since.
  * Then the UTF-8 check: an entry of the three tables has a flag in common exactly if
    the two bytes cannot stand together (for all 65536 pairs, by ranges), a third or fourth byte is
    wanted exactly where it must be, and a text is valid exactly if no block reports
    an error and none is incomplete at the end, whether or not blocks of ASCII were skipped.
  * Then the blocks: what `ScannerNext` computes for one block from its carries
    is what the whole text defines at these positions.
  * `VectorInv` is the invariant over steps: `KernelInv` says for each task what
    `scanner`, `prev_structurals`, `tail`, `out` and `written` are for the text before
    `idx`, `CheckedSoFar` which characters the checker has seen whole, `Answered`
    what the answer is. `CarriesDescribeText` is not inductive without the exact
    value of `prev_scalar` at each block, nor `PrefixIndexed` without
    the carries; `OutputFits` needs that what was kept is never longer than what was
    read. `FallbackInv` says that the fallback has minified the
    text before `idx`, found it valid up to there, or indexed it: `ScannedTo` says
    which indexes `tail` has, whether `idx` is in a string, and what `error` means, up to the first
    oddity of the text. What `error` means depends on the bytes behind the text, since
    `validate_utf8_character` may read up to three of them; so `ScannedTo` is kept for
    each number of bytes that the last character may go on, and the end picks the one
    for which the text is UTF-8.
  * `KernelsFulfilPromise` puts them together: an answer, once given, is one that the contract
    allows and is never changed, by either kernel and with every task. `Settled` is what it
    leaves out: for the fallback, a window that ends in the middle of a character of four bytes.
* `Stage2_proofs`, strings - for any closed string, any width of windows that fits the
  padding, and the three modes: `OutputBehindInput`, that the string ends at the
  closing quote stage 1 found (`StringEndsAtClosingQuote`), and that no window or escape
  reads beyond the padding. The invariant `StringInv` adds what makes
  them inductive: a window begins at or before the closing quote and at a byte that
  is not escaped, so that the next backslash begins an escape. It uses that
  no escape is shorter than what it is replaced with: 2 bytes for one, 6 for up to
  three, 12 for four.
* `OnDemand_proofs` - the On-Demand front end, for documents, keys, indexes and pointers of
  any number and length, any padding, one document or a batch of them, and a user
  who stops at errors (`StopsAtErrors`; without it `NeverUsesDeadParser` is false, see
  section 4): `AssumptionsHold`, `NeverUsesDeadParser`, `LoopsEndAtErrors`,
  `RoundsAdvance`.
  * The engine comes first, one lemma for each operation of `ValueIterator`: where it leaves the
    iterator and with which result. `skip_child()` stops at the depth asked for and
    not lower, because brackets change the depth by one at a token (`RiseStep`,
    `FirstDescent`).
  * `OnDemandInv` has four parts. `StackOK`: each handle was taken from the one
    below it, is deeper and starts further on, and no handle below the top is fresh. `IteratorOK`: no
    fault so far, and only an error takes the parser away. `Rests`, in the
    user's turn: the position is not before the handle on top, the depth is its own or
    less by one at most, inside a loop not less, and exactly that of its start when
    nothing was read; a dead iterator has depth 0, except for a value that was counted.
    `Runs`, in a loop of the library: the same for the handle the loop is on, by
    its kind. The faults alone are far from inductive: a `SIMDJSON_ASSUME` holds because of
    what the last few calls, on perhaps another handle, left of the depth.
  * `LoopsEndAtErrors` needs `LoopInv` as well (a failed loop leaves a dead iterator
    until the next call); `RoundsAdvance` follows from the lemmas about positions.
* `DomParser_proofs` - for all lengths, limits, batch sizes, documents and
  failing allocations: `TypeOK`, `BuffersBackCapacity` and `CallsKeepPromise`, for
  a user who is `Disciplined` (the four constants of section 2 are FALSE). The
  inductive invariant is `Memory`, which says of each owner that what it claims is
  backed, and of the implementation also that whatever exists has stacks as deep as
  `max_depth`, together with `CallOK`, the promise of the last call. The
  lemmas follow the layers of the code: `set_capacity`, `set_max_depth`,
  `allocate`, `ensure_capacity`, the parse of a document, the load of a file.
* `Stage2_proofs`, numbers - `OverflowCheck`: an integer of one digit more than always
  fits is refused from its first digit and its wrapped value exactly if it does not
  fit (`numberparsing.h:604`), for every base and word that meet
  `NumberAssumption`; `NegationIsExact`: the two's complement of a magnitude that
  passed the range check is the number, the least one included.

The assumptions are `WalkAssumption` (inputs are non-empty sequences of
characters, `max_depth` is positive), `ImplementationAssumption` and
`DomParserAssumption` (sizes are naturals, a user's depth is positive, the minimal capacity
is within the maximum, the padding is not empty), `NumberAssumption`
(Top is between Half and the word, and two Top exceed the word by no more than Half),
`StreamAssumption` (batch sizes are positive, offsets have the width `MaxOffset`, which
no text exceeds), `StringAssumption` (a window and the longest escape, 12 bytes, fit the
padding; it is 64 in the code), `WidthAssumption` (a block is even and holds a character of
four bytes), `KernelAssumption` (bytes that `classify()` takes for operators besides the six are control
characters and not whitespace, what is behind the text are bytes, and "no answer yet" is no
answer), `OnDemandAssumption` (stage 1 found a token; pointers are not
empty), and the worker's assumption that `NoJob` is no job. TLC evaluates each of them on the
constants of a run. The types are proved and no run lists them. Each inductive invariant was
checked by TLC, on its run or on a part of it, before it was proved.

Only model-checked:

* `KeepsPromise`, `StaysInBatch`, `SourcesAreDocuments` of the streams, `NavigatesTree` and
  `DepthIsNesting` of On-Demand, `AcceptsGrammar`, `WritesTape`, `ReadsBack` and
  `PrintsBack` of the DOM, `DecodesStrings`, `NumbersAreExact`: they compare
  with references that are defined by recursion over the input. What a recursion computes for every
  input is an induction over data; where the recursion is a function of the naturals
  the smallest counterexample replaces it, as in `StructuralIndex_proofs`, but the grammar
  and the tree are RECURSIVE operators, which a module with proofs cannot use.
* `ReadsInBounds` of On-Demand, `TypesAreExact`: see section 7.
* All liveness, which is under fairness.

## 6. Not modelled, and why

Rounding, `to_chars`, `from_chars` and the tables of powers are numerical data
and algorithms out of a model checker's reach. Padded strings, errors, logging
and `string_view` have no protocol. The selection of an implementation is one
idempotent store to an atomic. Tools, tests, benchmarks, the single header (which repeats these
files) and vendored code are not the library.

Within the modelled parts: a second `begin()`, a moved stream, and the
exception of `std::thread` when the system has no thread; `DocumentStream`'s
stage 2 has no depth limit and no allocation for numbers at the root (both are
in `WalkDocument`). The vector intrinsics are taken as what they compute, and
the kernels' texts are within the parser's capacity. `KernelContract` lets the
kernels differ on texts stage 2 refuses anyway (a quote glued to an atom, a
control character outside strings), in which error they give, and in the windows
of streams that are not UTF-8. A window may cut a character in a string only: outside
of one, where JSON has none, the vector kernels drop it and the fallback makes it part of
an atom. It also has to let the fallback refuse a string
with a character of several bytes behind a backslash: it skips one byte behind
a backslash and takes the rest of the character for a broken one, so that the
error is `UTF8_ERROR` where the vector kernels find valid UTF-8 and leave the bad
escape to whoever reads the string. Earlier contracts did not know of these two; the attempts to
prove them showed the texts. `DomParser` leaves
out the contents of texts and files. Documents that are not well-formed are in
`OnDemand`, for one document or those of one batch, and not in `OnDemandStream`. The
capacities of `ondemand::parser` (whose implementation is that of
`ParserImplementation`) are not modelled. Atoms, comparison of raw keys with
escapes in them, and the walk of `dom::parser::Iterator`, which is deprecated, are left out.

## 7. The plan

Done: the worker, both streams, stage 1 and its kernels, stage 2, the tape and its
reader, the DOM parser's memory, On-Demand, numbers and strings, and the proofs of
section 5. Left, in this order:

1. A second `begin()` and a moved stream in `DocumentStream`; documents that are not
   well-formed in `OnDemandStream`.
2. Proofs: `ReadsInBounds` of On-Demand for one document, by a case distinction on where
   a fault-free iterator may be behind the last token (the lemmas of `OnDemand_proofs`
   already say when each operation reads in bounds); `TypesAreExact` of numbers.
3. Atoms and the comparison of raw keys.
