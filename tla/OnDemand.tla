------------------------------ MODULE OnDemand ------------------------------
(***************************************************************************)
(* The On-Demand front end (ondemand::document, value, array, object and   *)
(* their iterators) in the hands of a user.  All handles move the one      *)
(* iterator of the document, so the documentation has the user finish with *)
(* a value before he takes the next one: "held" is the stack of what he    *)
(* holds, he uses the handle on top or drops it, as far as he has read.    *)
(*                                                                         *)
(* The loops of the library (looking a field up, counting, at()) take one  *)
(* step per round; "call" is the one in progress.                          *)
(***************************************************************************)
EXTENDS ValueIterator, SequencesExt

CONSTANTS Docs,          \* the token sequences
          Paddings,
          Streaming,     \* the values of streaming, a subset of BOOLEAN
          Getters,       \* get_string, get_int64 (as all others), get_number
          Keys,          \* the keys that are looked up
          Indexes,       \* the names of the array indexes 0, 1, ...
          Paths,         \* the JSON pointers, sequences of keys and indexes
          TakenAsValue,  \* the documents that the user may take as a value
          StopsAtErrors  \* whether he stops at an error, but for going on
                         \*   with the loops he is in; not even that when
                         \*   he was counting

(* Stage 1 finds a token or reports an error.  The empty pointer is left    *)
(* out: of a document it is get_value(), of a value an error.               *)
ASSUME OnDemandAssumption ==
    /\ \A d \in Docs : Len(d) \in Nat \ {0}
    /\ \A path \in Paths : path \in Seq(Keys \cup Range(Indexes)) /\ path # <<>>
    /\ StopsAtErrors \in BOOLEAN

VARIABLES root,    \* where the document starts
          iter,    \* the json_iterator
          held,    \* the handles the user holds, the document first
          call,    \* the loop the library is in
          answer   \* the last result

input == <<doc, padding, streaming>>
vars  == <<input, root, iter, held, call, answer>>

Document(r) == [kind |-> "document", depth |-> 1, start |-> r, mode |-> "fresh"]
Idle == [op |-> "none"]

Init == /\ doc \in Docs
        /\ padding \in Paddings
        /\ streaming \in Streaming
        /\ root = 1
        /\ iter = [position |-> 1, depth |-> 1, error |-> "SUCCESS",
                   alive |-> TRUE, out |-> "yes", faults |-> {}]
        /\ held = <<Document(1)>>
        /\ call = Idle
        /\ answer = [asked |-> <<"iterate">>, out |-> "yes", node |-> 1]

Top == held[Len(held)]
Mark(mode)     == [held EXCEPT ![Len(held)].mode = mode]
Push(s, kind, h) == Append(s, [kind |-> kind, depth |-> h.depth,
                               start |-> h.start, mode |-> "fresh"])
Unread == Top.kind \in {"document", "value"} /\ Top.mode = "fresh"
IsRoot == Top.kind = "document"
Failed(it) == it.out \notin {"yes", "no"}

(* A call of the user that returns at once, or that goes on as c. *)
Return(asked, it, handles, node) ==
    /\ iter' = it
    /\ held' = handles
    /\ call' = Idle
    /\ answer' = [asked |-> asked, out |-> it.out, node |-> node]
    /\ UNCHANGED <<input, root>>
Continue(c, it, handles) ==
    /\ iter' = it
    /\ held' = handles
    /\ call' = c
    /\ UNCHANGED <<input, root, answer>>

UserMay == /\ call = Idle
           /\ root < EndPosition
           /\ StopsAtErrors => iter.error = "SUCCESS"
-----------------------------------------------------------------------------
(* Calls without loops *)

Fresh(it) == Yield(it, "yes")
Restarted(it) == MoveTo(UseParser(Fresh(it)), root, 1)

(* get_array() and get_object() *)
GetContainer(open) ==
    /\ UserMay /\ Unread
    /\ \E it \in {StartContainer(iter, Top, open, IsRoot)} :
          LET kind == IF open = "[" THEN "array" ELSE "object"
          IN  Return(<<"get", open>>, it,
                     IF Failed(it) THEN held ELSE Push(Mark("spent"), kind, Top), Top.start)

(* document::get_value(): of arrays and objects only *)
GetValue ==
    /\ UserMay /\ Unread /\ IsRoot /\ doc \in TakenAsValue
    /\ \E it \in {Assume(iter, iter.depth = 1)} :
          IF Peek(iter) \in Openers
          THEN Return(<<"get", "value">>, Fresh(it), Push(Mark("spent"), "value", Top),
                      Top.start)
          ELSE Return(<<"get", "value">>, Yield(it, "SCALAR_DOCUMENT_AS_VALUE"), held,
                      Top.start)

(* get_string(), get_int64() and the others, get_number().  A document that *)
(* is a value is no scalar, and is not asked for one.                       *)
Scalar(getter) ==
    /\ UserMay /\ Unread
    /\ IsRoot \/ Top.depth > 1
    /\ \E it \in {GetScalar(iter, Top, getter, IsRoot)} :
          Return(<<"scalar", getter>>, it, IF Failed(it) THEN held ELSE Mark("spent"), Top.start)

(* The handle on top goes out of scope. *)
Drop == /\ call = Idle
        /\ Len(held) > 1
        /\ StopsAtErrors => iter.error = "SUCCESS" \/ answer.asked[1] # "count"
        /\ Return(<<"drop">>, Fresh(iter), SubSeq(held, 1, Len(held) - 1), 0)

(* reset() and is_empty() of arrays and objects *)
ResetContainer ==
    /\ UserMay /\ Top.kind \in {"array", "object"}
    /\ \E it \in {Reset(iter, Top)} : Return(<<"reset">>, it, Mark("fresh"), Top.start)

(* raw_json() and consume(): of an array, of an object, which may stand at  *)
(* a key, of the document.  Where the iterator stands then is the end.      *)
Consume(it, h) ==
    LET eat == IF h.kind = "object" /\ it.depth = h.depth /\ Peek(it) \in Strings
               THEN FieldValue(FieldKey(it, h), h) ELSE Fresh(it)
        end == IF Failed(eat) THEN eat ELSE SkipTo(eat, h.depth - 1)
    IN  IF Failed(end) THEN Abandon(end) ELSE end
RawJson ==
    /\ UserMay /\ Top.kind # "value"
    /\ \E it \in {Consume(iter, Top)} :
          Return(<<"raw">>, it, Mark("used"), it.position)

(* document::rewind() *)
Rewind == UserMay /\ Return(<<"rewind">>, Restarted(iter), <<Document(root)>>, root)

(* The next document of a batch: operator++ of a stream, next(),            *)
(* next_document().  The stream ends when the document cannot be left.      *)
NextDocument ==
    /\ UserMay /\ streaming
    /\ \E it \in {SkipTo(iter, 0)} :
          /\ iter' = IF Failed(it) THEN it ELSE MoveTo(it, it.position, 1)
          /\ root' = IF Failed(it) THEN EndPosition ELSE it.position
          /\ held' = <<Document(root')>>
          /\ answer' = [asked |-> <<"next">>, out |-> it.out, node |-> root']
          /\ UNCHANGED <<input, call>>
-----------------------------------------------------------------------------
(* Range-for over an array or object: operator++ , operator!=, operator*.   *)

Increment(it, h) ==
    LET skipped == SkipChild(it, h)
        quiet   == IF IsArray(h) THEN it.error # "SUCCESS" ELSE ~IsOpen(it, h)
    IN  IF quiet THEN it
        ELSE IF Failed(skipped) THEN skipped ELSE HasNext(skipped, h)

TakeItem(it, h) ==
    LET key == FieldKey(it, h)
    IN  IF IsArray(h) THEN Fresh(AssumeAtChild(it, h))
        ELSE IF Failed(key) THEN key ELSE FieldValue(key, h)
Dereference_Slip(it, h) ==   \* forgets to give up
    LET item == TakeItem(it, h)
    IN  IF it.error # "SUCCESS" THEN Yield(it, it.error) ELSE item
Dereference(it, h) ==
    LET item == TakeItem(it, h)
    IN  IF it.error # "SUCCESS" THEN Abandon(Yield(it, it.error))
        ELSE IF Failed(item) THEN Abandon(item) ELSE item

Round(it) ==
    IF ~IsOpen(it, Top) THEN Return(<<"loop">>, Yield(it, "no"), Mark("used"), 0)
    ELSE \E item \in {Dereference(it, Top)} :
           Return(<<"loop">>, item,
                  IF Failed(item) THEN Mark("looping")
                  ELSE Push(Mark("looping"), "value", Child(item, Top)),
                  item.position)

BeginLoop == /\ UserMay
             /\ Top.kind \in {"array", "object"} /\ Top.mode = "fresh"
             /\ Round(iter)
NextRound == /\ call = Idle
             /\ Top.mode = "looping"
             /\ \E it \in {Increment(iter, Top)} : Round(it)
-----------------------------------------------------------------------------
(* Calls with loops.  h is the handle the loop works on, isRoot whether it  *)
(* is the document's; path is what a JSON pointer has left; stop, first and *)
(* n belong to the loops; seen is the state the user called from.           *)

Call(op, asked, path) ==
    [op |-> op, asked |-> asked, key |-> asked[Len(asked)], path |-> path,
     h |-> [depth |-> Top.depth, start |-> Top.start], isRoot |-> IsRoot,
     first |-> FALSE, stop |-> 0, n |-> 0, seen |-> [it |-> iter, held |-> held]]

(* find_field(), find_field_unordered() and [], of an object, or of a value *)
(* or document by start_or_resume_object()                                  *)
Find(how, key) ==
    /\ UserMay
    /\ \/ Top.kind = "object"
       \/ Top.kind \in {"document", "value"} /\ Top.mode \in {"fresh", "resumed"}
    /\ \E it \in {IF Top.kind # "object" /\ AtStart(iter, Top)
                  THEN StartContainer(iter, Top, "{", IsRoot) ELSE Fresh(iter)} :
          IF Failed(it) THEN Return(<<how, key>>, it, held, 0)
          ELSE Continue(Call("enter", <<how, key>>, <<>>), it,
                        Mark(IF Top.kind = "object" THEN "used" ELSE "resumed"))

(* count_elements() and count_fields(): a value goes back to its start then, *)
(* a document rewinds unless there was an error.                             *)
Count(open) ==
    /\ UserMay
    /\ \/ Unread
       \/ Top.kind = (IF open = "[" THEN "array" ELSE "object") /\ Top.mode = "fresh"
    /\ \E it \in {IF Unread THEN StartContainer(iter, Top, open, IsRoot) ELSE Fresh(iter)} :
          IF Failed(it)
          THEN Return(<<"count", open>>,
                      IF Top.kind = "value" THEN MoveTo(it, Top.start, Top.depth) ELSE it,
                      held, 0)
          ELSE Continue(Call("count", <<"count", open>>, <<>>), it, held)

(* at_pointer() of a document and of a value, at() of an array *)
AtPointer(path) ==
    /\ UserMay
    /\ IsRoot \/ Unread
    /\ Continue(Call("descend", <<"pointer">> \o path, path),
                IF IsRoot THEN Restarted(iter) ELSE iter, Mark("spent"))
At(index) ==
    /\ UserMay
    /\ Top.kind = "array" /\ Top.mode = "fresh"
    /\ Continue(Call("at", <<"at", index>>, <<>>), iter, Mark("used"))

Fail(it, e) == Return(call.asked, Yield(it, e), held, 0)
GiveUp(it)  == Fail(Abandon(it), it.out)

(* The value looked for is at the iterator: the answer, or where a JSON     *)
(* pointer goes on.                                                         *)
Found(it) ==
    \E child \in {Child(it, call.h)}, at \in {Fresh(AssumeAtChild(it, call.h))} :
       IF call.path = <<>>
       THEN Return(call.asked, at, Push(held, "value", child), child.start)
       ELSE Continue([call EXCEPT !.op = "descend", !.h = child, !.isRoot = FALSE],
                     at, held)

Enter_Slip(op, it) ==   \* keeps the whole pointer
    Continue([call EXCEPT !.op = op, !.key = Head(call.path), !.n = 0], it, held)

(* One element of a JSON pointer: at_pointer() of values, arrays, objects.  *)
Enter(op, it) ==
    Continue([call EXCEPT !.op = op, !.key = Head(call.path), !.n = 0,
                          !.path = Tail(@)], it, held)
Descend ==
    /\ call.op = "descend"
    /\ \E opener \in {Token(call.h.start)} :
       \E it \in {IF opener \in Openers
                 THEN StartContainer(iter, call.h, opener, call.isRoot) ELSE Fresh(iter)} :
          IF opener \in Closers \cup {":", ","} THEN Fail(it, "TAPE_ERROR")
          ELSE IF opener \notin Openers THEN Fail(it, "INVALID_JSON_POINTER")
          ELSE IF Failed(it) THEN Fail(it, it.out)
          ELSE IF opener = "{" THEN Enter("enter", it)
          ELSE IF Head(call.path) \notin Range(Indexes) THEN Fail(it, "INCORRECT_TYPE")
          ELSE Enter("at", it)

(* find_field_raw(), find_field_unordered_raw(): where the search begins *)
Unordered == call.asked[1] = "find_unordered"
Search_Slip(it, h, first, stop) ==   \* goes on though it began at the start
    IF it.out = "yes"
    THEN Continue([call EXCEPT !.op = "field", !.first = first, !.stop = stop], it, held)
    ELSE IF ~Unordered THEN Fail(it, "NO_SUCH_FIELD")
    ELSE Continue([call EXCEPT !.op = "again", !.stop = stop], Reset(it, h), held)
Search(it, h, first, stop) ==
    IF it.out = "yes"
    THEN Continue([call EXCEPT !.op = "field", !.first = first, !.stop = stop], it, held)
    ELSE IF ~Unordered \/ first THEN Fail(it, "NO_SUCH_FIELD")
    ELSE Continue([call EXCEPT !.op = "again", !.stop = stop], Reset(it, h), held)
EnterField ==
    /\ call.op = "enter"
    /\ \E h \in {call.h}, it \in {Fresh(Assume(iter, iter.position > call.h.start))} :
          IF it.position = h.start + 1 THEN Search(it, h, TRUE, it.position)
          ELSE IF ~IsOpen(it, h)
          THEN IF Unordered THEN Search(Reset(it, h), h, TRUE, it.position)
                            ELSE Fail(it, "NO_SUCH_FIELD")
          ELSE \E left \in {SkipChild(it, h)} :
                 IF Failed(left) THEN GiveUp(left)
                 ELSE \E next \in {HasNext(left, h)} :
                        IF Failed(next) THEN GiveUp(next)
                        ELSE Search(next, h, FALSE, left.position)

(* One round of the search up to the end of the object. *)
SearchField ==
    /\ call.op = "field"
    /\ \E item \in {TakeItem(iter, call.h)} :
          IF Failed(item) THEN GiveUp(item)
          ELSE IF Peek(iter) = call.key THEN Found(item)
          ELSE \E left \in {SkipChild(item, call.h)} :
                 IF Failed(left) THEN Fail(left, left.out)
                 ELSE \E next \in {HasNext(left, call.h)} :
                        IF Failed(next) THEN GiveUp(next)
                        ELSE Search(next, call.h, call.first, call.stop)

(* One round of the search from the start of the object to where the first  *)
(* search began.  The code takes for granted that it gets there, over       *)
(* fields it has seen; when it does not, what it does is undefined.         *)
Undefined(it) == ReportError(Fault(it, "search"), "UNDEFINED")
SearchAgain ==
    /\ call.op = "again"
    /\ \E item \in {TakeItem(iter, call.h)} :
       \E left \in {SkipChild(item, call.h)} :
          IF iter.out = "no" \/ Failed(item) THEN GiveUp(Undefined(iter))
          ELSE IF Peek(iter) = call.key THEN Found(item)
          ELSE IF Failed(left) THEN Fail(left, left.out)
          ELSE IF left.position = call.stop THEN Fail(left, "NO_SUCH_FIELD")
          ELSE \E next \in {HasNext(left, call.h)} :
                 IF Failed(next) THEN GiveUp(Undefined(left))
                                 ELSE Continue(call, next, held)

(* One round of count_elements() and count_fields(), or their end. *)
CountRound ==
    /\ call.op = "count"
    /\ IF IsOpen(iter, call.h)
       THEN Continue([call EXCEPT !.n = @ + 1],
                     Increment(Dereference(iter, call.h), call.h), held)
       ELSE \E it \in {IF iter.error # "SUCCESS" THEN Yield(iter, iter.error)
                      ELSE Fresh(Reset(iter, call.h))} :
              Return(call.asked,
                     IF Top.kind = "value" THEN MoveTo(it, call.h.start, call.h.depth)
                     ELSE IF IsRoot /\ ~Failed(it) THEN Restarted(it) ELSE it,
                     held, call.n)

(* One round of array::at(). *)
AtRound ==
    /\ call.op = "at"
    /\ IF ~IsOpen(iter, call.h) THEN Fail(iter, "INDEX_OUT_OF_BOUNDS")
       ELSE \E item \in {Dereference(iter, call.h)} :
              IF Indexes[call.n + 1] # call.key
              THEN Continue([call EXCEPT !.n = @ + 1], Increment(item, call.h), held)
              ELSE IF Failed(item) THEN Fail(item, item.out) ELSE Found(item)
-----------------------------------------------------------------------------
User == \/ GetValue \/ Drop \/ ResetContainer \/ RawJson \/ Rewind \/ NextDocument
        \/ BeginLoop \/ NextRound
        \/ \E open \in Openers : GetContainer(open) \/ Count(open)
        \/ \E getter \in Getters : Scalar(getter)
        \/ \E key \in Keys : Find("find", key) \/ Find("find_unordered", key)
        \/ \E path \in Paths : AtPointer(path)
        \/ \E index \in Range(Indexes) : At(index)
Library == \/ Descend \/ EnterField \/ SearchField \/ SearchAgain
           \/ CountRound \/ AtRound
Next == User \/ Library

Spec == Init /\ [][Next]_vars
-----------------------------------------------------------------------------
(* None of the SIMDJSON_ASSUMEs fails (in a release build the compiler may  *)
(* rely on them), whatever the tokens are, however far the user reads his   *)
(* values before he drops them.  The second search of find_field_unordered  *)
(* is an exception of its own.                                              *)
AssumptionsHold == "assumption" \notin iter.faults

(* abandon() takes the parser away; nothing may ask for it then.  A user    *)
(* who stops at errors, or goes on with the loops he is in, never makes it  *)
(* so; one who goes on otherwise does.                                      *)
NeverUsesDeadParser == "dead" \notin iter.faults

(* A loop that had to give up reports its error, and then every loop around *)
(* it ends without another item or error.                                   *)
LoopsEndAtErrors ==
    [][answer'.asked = <<"loop">> =>
         /\ ~iter.alive => answer'.out = "no"
         /\ answer'.out \notin {"yes", "no"} => ~iter'.alive]_vars

(* Every loop of the library comes to its end on every text: from round to  *)
(* round less of the pointer is left, or the search is in a later phase, or *)
(* the position is further on (it is bounded, by the property ReadsInBounds *)
(* of MCOnDemand), or the container is left.                                *)
Phase == [count |-> 0, enter |-> 1, at |-> 1, field |-> 2, again |-> 3, descend |-> 4]
Further == \/ Len(call'.path) < Len(call.path)
           \/ /\ Len(call'.path) = Len(call.path)
              /\ \/ Phase[call'.op] > Phase[call.op]
                 \/ /\ call'.op = call.op
                    /\ iter'.position > iter.position \/ ~IsOpen(iter', call.h)
RoundsAdvance == [][call # Idle /\ call' # Idle => Further]_vars
=============================================================================
