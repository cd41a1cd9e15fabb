----------------------------- MODULE DomParser -----------------------------
(***************************************************************************)
(* dom::parser and the documents it parses into, as owners of memory: what *)
(* each call allocates, in which order, what it believes to have when an   *)
(* allocation fails, and what it then writes to.  The text itself is left  *)
(* to the modules of the stages.                                           *)
(***************************************************************************)
EXTENDS ParserImplementation

CONSTANTS Lengths,      \* the lengths of the inputs and files
          Batches,      \* the sizes of the batches
          Capacities,   \* the capacities and
          Depths,       \*   depths a user asks for
          Limits,       \* the maximum capacities a user sets
          Documents,    \* the documents parsed into; "own" is the parser's
          Failing,      \* the sets of allocations that may fail in a call
          MinimalCapacity,  \* MINIMAL_DOCUMENT_CAPACITY
          MinimalBatch,     \* MINIMAL_BATCH_SIZE
          Padding,          \* SIMDJSON_PADDING
          FailsAnyhow,      \* whether that includes what is not Survivable
          ReusesMoved,      \* whether the user goes on with a parser or document
                            \*   that was used and then moved away
          OversizedFirst,   \* whether his first call of a parser may be an
                            \*   allocate() beyond MaxSize, or his limit be
          AnyLimits         \* whether he sets limits that the code does not
                            \*   take as documented, and allocates beyond them

Allocations == {"implementation", "indexes", "open_containers", "is_array",
                "tape", "string_buf", "loaded_bytes"}

ASSUME DomParserAssumption ==
    /\ Lengths \subseteq Nat /\ Batches \subseteq Nat
    /\ Capacities \subseteq Nat /\ Limits \subseteq Nat
    /\ Depths \subseteq Nat \ {0}
    /\ "own" \in Documents
    /\ Failing \subseteq SUBSET Allocations
    /\ MinimalCapacity \in 1..MaxSize /\ MinimalBatch \in Nat /\ Padding \in Nat \ {0}
    /\ FailsAnyhow \in BOOLEAN /\ ReusesMoved \in BOOLEAN
    /\ OversizedFirst \in BOOLEAN /\ AnyLimits \in BOOLEAN

VARIABLES max_capacity,
          implementation,
          documents,          \* allocated_capacity, tape and string_buf
          loaded_bytes,       \* its length with the padding, or 0
          loaded_capacity,    \* _loaded_bytes_capacity
          call,               \* the last call: its length, its error, whether
                              \*   an allocation failed in it, and the
                              \*   buffers it would have overrun
          documented_limit    \* auxiliary: what parser.h says max_capacity is

vars == <<max_capacity, implementation, documents, loaded_bytes, loaded_capacity, call,
          documented_limit>>

NoDocument == [capacity |-> 0, tape |-> 0, string_buf |-> 0]
DomDocuments == [capacity : Nat, tape : Nat, string_buf : Nat]
Call(len, error, failed, overrun) ==
    [len |-> len, error |-> error, failed |-> failed # {}, overrun |-> overrun]

Init == /\ max_capacity \in Limits \cup {MaxSize}
        /\ OversizedFirst \/ max_capacity <= MaxSize
        /\ AnyLimits \/ max_capacity >= MinimalCapacity
        /\ documented_limit = max_capacity
        /\ implementation = NoImplementation
        /\ documents = [d \in Documents |-> NoDocument]
        /\ loaded_bytes = 0
        /\ loaded_capacity = 0
        /\ call = Call(0, "SUCCESS", {}, {})

(* What may fail in a call, and the code lives with: not the stacks, not    *)
(* the indexes while there are no stacks, not loaded_bytes when it grows.   *)
Survivable(failed) ==
    /\ {"open_containers", "is_array"} \cap failed = {}
    /\ "indexes" \in failed => implementation.max_depth > 0
    /\ "loaded_bytes" \in failed => loaded_capacity = 0
Failures == {failed \in Failing : FailsAnyhow \/ Survivable(failed)}

AtLeast(least, len) == IF len < least THEN least ELSE len
-----------------------------------------------------------------------------
(* document::allocate(): 0 clears, a failure of either buffer loses both. *)
AllocateDocument(capacity, failed) ==
    IF capacity = 0 THEN NoDocument
    ELSE IF "tape" \in failed \/ "string_buf" \in failed THEN NoDocument
    ELSE [capacity |-> capacity, tape |-> capacity, string_buf |-> capacity]

max_depth == IF implementation.exists THEN implementation.max_depth ELSE DefaultDepth

(* parser::allocate() *)
Allocate(capacity, depth, failed) ==
    IF implementation.exists THEN Reallocate(implementation, capacity, depth, failed)
                             ELSE Create(capacity, depth, failed)

(* Slip: only the parser's capacity is looked at. *)
EnsureCapacity_ParserOnly(d, len, failed) ==
    LET desired == AtLeast(MinimalCapacity, len)
        small == implementation.capacity < desired
        doc  == IF small THEN AllocateDocument(desired, failed) ELSE documents[d]
        made == IF small THEN Allocate(desired, max_depth, failed)
                         ELSE Result(implementation, "SUCCESS")
    IN  IF small /\ desired > max_capacity
        THEN [impl |-> implementation, doc |-> documents[d], error |-> "CAPACITY"]
        ELSE [impl |-> made.impl, doc |-> doc, error |-> made.error]

(* ensure_capacity(): both allocations are tried before an error of either  *)
(* is returned, the document's first.                                       *)
EnsureCapacity(d, len, failed) ==
    LET desired == AtLeast(MinimalCapacity, len)
        small == implementation.capacity < desired
        short == documents[d].capacity < desired
        doc  == IF short THEN AllocateDocument(desired, failed) ELSE documents[d]
        made == IF small THEN Allocate(desired, max_depth, failed)
                         ELSE Result(implementation, "SUCCESS")
    IN  IF (small \/ short) /\ desired > max_capacity
        THEN [impl |-> implementation, doc |-> documents[d], error |-> "CAPACITY"]
        ELSE [impl |-> made.impl, doc |-> doc,
              error |-> IF doc.capacity < desired THEN "MEMALLOC" ELSE made.error]

(* What the two stages would overrun, of the document and of the parser. *)
Overruns(i, doc, len) ==
    Overrun(i, len) \cup {b \in {"tape", "string_buf"} : doc[b] < len}

(* Stage 1 looks at the capacity once more, and at empty inputs. *)
Staged(i, doc, len, failed) ==
    IF len > i.capacity THEN Call(len, "CAPACITY", failed, {})
    ELSE IF len = 0 THEN Call(len, "EMPTY", failed, {})
    ELSE Call(len, "SUCCESS", failed, Overruns(i, doc, len))

Ensured(ready, d) ==
    /\ implementation' = ready.impl
    /\ documents' = [documents EXCEPT ![d] = ready.doc]

KeepLoaded == UNCHANGED <<loaded_bytes, loaded_capacity>>
KeepLimit  == UNCHANGED <<max_capacity, documented_limit>>
-----------------------------------------------------------------------------
(* parse() and parse_into_document() of a text with its own padding *)
Parse(d, len) ==
    \E failed \in Failures :
      \E ready \in {EnsureCapacity(d, len, failed)} :
        /\ Ensured(ready, d)
        /\ call' = IF ready.error # "SUCCESS"
                   THEN Call(len, ready.error, failed, {})
                   ELSE Staged(ready.impl, ready.doc, len, failed)
        /\ KeepLoaded
        /\ KeepLimit

Outgrown(len) == loaded_capacity < len

(* loaded_bytes is replaced, if it has to grow, and then filled. *)
FillLoaded(len, grow, failed) ==
    LET lost == grow /\ "loaded_bytes" \in failed
    IN  /\ loaded_bytes' = IF lost THEN 0
                           ELSE IF grow THEN len + Padding ELSE loaded_bytes
        /\ loaded_capacity' = IF grow /\ ~lost THEN len ELSE loaded_capacity
Unfilled(len) == IF len > 0 /\ loaded_bytes' < len + Padding THEN {"loaded_bytes"} ELSE {}

(* The same of a text without padding, which is copied to loaded_bytes *)
ParseCopy(d, len) ==
    \E failed \in Failures :
      \E ready \in {EnsureCapacity(d, len, failed)},
         grow \in {loaded_bytes = 0 \/ Outgrown(len)} :
        /\ Ensured(ready, d)
        /\ KeepLimit
        /\ IF ready.error # "SUCCESS"
           THEN KeepLoaded /\ call' = Call(len, ready.error, failed, {})
           ELSE /\ FillLoaded(len, grow, failed)
                /\ IF grow /\ "loaded_bytes" \in failed
                   THEN call' = Call(len, "MEMALLOC", failed, {})
                   ELSE \E staged \in {Staged(ready.impl, ready.doc, len, failed)} :
                          call' = [staged EXCEPT !.overrun = @ \cup Unfilled(len)]

(* read_file() of a file of len bytes, all of it; it may fail before a      *)
(* buffer is needed, for want of one, or while it is read.                  *)
ReadFile(len, failed) ==
    /\ ~(Outgrown(len) /\ "loaded_bytes" \in failed)
    /\ FillLoaded(len, Outgrown(len), failed)
    /\ KeepLimit
ReadFails(len, failed) ==
    /\ KeepLimit
    /\ UNCHANGED <<implementation, documents>>
    /\ \/ KeepLoaded /\ call' = Call(len, "IO_ERROR", failed, {})
       \/ /\ Outgrown(len) /\ "loaded_bytes" \in failed
          /\ FillLoaded(len, TRUE, failed)
          /\ call' = Call(len, "MEMALLOC", failed, {})
       \/ ReadFile(len, failed) /\ call' = Call(len, "IO_ERROR", failed, Unfilled(len))

(* What load() and the streams do with the first window of their input. *)
Begin(capacity, len, failed, overrun) ==
    \E ready \in {EnsureCapacity("own", capacity, failed)} :
      /\ Ensured(ready, "own")
      /\ \E staged \in {Staged(ready.impl, ready.doc, len, failed)} :
           call' = IF ready.error # "SUCCESS"
                   THEN Call(capacity, ready.error, failed, overrun)
                   ELSE [staged EXCEPT !.overrun = @ \cup overrun]

Load(len) ==
    \E failed \in Failures :
      \/ ReadFails(len, failed)
      \/ ReadFile(len, failed) /\ Begin(len, len, failed, Unfilled(len))

(* The start of parse_many() and load_many(): the parser is made ready for  *)
(* a batch, and parses windows that are no longer.                          *)
Window(len, batch) == IF len < batch THEN len ELSE batch
Streamed(len, batch, failed, overrun) ==
    \E size \in {AtLeast(MinimalBatch, batch)} :
       Begin(size, Window(len, size), failed, overrun)
ParseMany(len, batch) ==
    /\ \E failed \in Failures : Streamed(len, batch, failed, {})
    /\ KeepLoaded
    /\ KeepLimit
LoadMany(len, batch) ==
    \E failed \in Failures :
      \/ ReadFails(len, failed)
      \/ ReadFile(len, failed) /\ Streamed(len, batch, failed, Unfilled(len))
-----------------------------------------------------------------------------
(* allocate(), by the user *)
AllocateParser(capacity, depth) ==
    /\ OversizedFirst \/ implementation.exists \/ capacity <= MaxSize
    /\ AnyLimits \/ capacity <= max_capacity \/ capacity > MaxSize
    /\ \E failed \in Failures :
         \E made \in {Allocate(capacity, depth, failed)} :
           /\ implementation' = made.impl
           /\ call' = Call(capacity, made.error, failed, {})
           /\ KeepLoaded
           /\ KeepLimit
           /\ UNCHANGED documents

(* set_max_capacity(), whose comment (parser.h:503) has the least capacity   *)
(* set if the limit is lower                                                *)
SetMaxCapacity(limit) ==
    /\ \/ AnyLimits
       \/ limit = MinimalCapacity /\ implementation.capacity <= limit
    /\ documented_limit' = AtLeast(MinimalCapacity, limit)
    /\ max_capacity' = IF limit < MinimalCapacity THEN limit ELSE MinimalCapacity
    /\ call' = Call(limit, "SUCCESS", {}, {})
    /\ KeepLoaded
    /\ UNCHANGED <<implementation, documents>>

(* Moving a document or the parser away leaves null pointers, and numbers   *)
(* as they were.                                                            *)
Emptied(doc) == [doc EXCEPT !.tape = 0, !.string_buf = 0]
MoveDocument(d) ==
    /\ ReusesMoved \/ documents[d].capacity = 0
    /\ documents' = [documents EXCEPT ![d] = Emptied(@)]
    /\ call' = Call(0, "SUCCESS", {}, {})
    /\ KeepLoaded
    /\ KeepLimit
    /\ UNCHANGED implementation
MoveParser ==
    /\ \/ ReusesMoved
       \/ documents["own"].capacity = 0 /\ loaded_capacity = 0
    /\ implementation' = NoImplementation
    /\ documents' = [documents EXCEPT !["own"] = Emptied(@)]
    /\ loaded_bytes' = 0
    /\ call' = Call(0, "SUCCESS", {}, {})
    /\ KeepLimit
    /\ UNCHANGED loaded_capacity

Next == \/ \E len \in Lengths :
             \/ \E d \in Documents : Parse(d, len) \/ ParseCopy(d, len)
             \/ Load(len)
             \/ \E batch \in Batches : ParseMany(len, batch) \/ LoadMany(len, batch)
        \/ \E capacity \in Capacities, depth \in Depths : AllocateParser(capacity, depth)
        \/ \E limit \in Limits : SetMaxCapacity(limit)
        \/ \E d \in Documents : MoveDocument(d)
        \/ MoveParser

Spec == Init /\ [][Next]_vars
-----------------------------------------------------------------------------
TypeOK ==
    /\ max_capacity \in Nat /\ documented_limit \in Nat
    /\ implementation \in Implementations
    /\ documents \in [Documents -> DomDocuments]
    /\ loaded_bytes \in Nat /\ loaded_capacity \in Nat
    /\ call \in [len : Nat, error : Errors, failed : BOOLEAN,
                 overrun : SUBSET Allocations]

(* What a parser or document says it can take, it has the memory for        *)
(* (internal/dom_parser_implementation.h: "Buffers are large enough to      *)
(* handle any document up to this length"), after every call, whichever of  *)
(* the survivable allocations failed in it.                                 *)
BuffersBackCapacity ==
    /\ implementation.capacity > 0 => Overrun(implementation, implementation.capacity) = {}
    /\ \A d \in Documents : /\ documents[d].capacity <= documents[d].tape
                            /\ documents[d].capacity <= documents[d].string_buf
    /\ loaded_capacity > 0 => loaded_capacity + Padding <= loaded_bytes

(* A call that goes ahead has memory for all it writes; one that refuses    *)
(* has the reason the header gives: an allocation that failed, or an input  *)
(* (or a batch) that is longer than the parser's capacity and than the      *)
(* limit of which parser.h:119 and :497 speak, or than simdjson can take.   *)
CallsKeepPromise ==
    /\ call.overrun = {}
    /\ call.error = "MEMALLOC" => call.failed
    /\ call.error = "CAPACITY" =>
         \/ call.len > MaxSize
         \/ call.len > documented_limit /\ call.len > implementation.capacity
=============================================================================
