-------------------------- MODULE DomParser_proofs --------------------------
(* Safety of the parser's memory, for all lengths, limits and failures, in  *)
(* the hands of a user who is spared what the code does not survive.        *)
EXTENDS DomParser, TLAPS

(* What the runs that find violations give up. *)
Disciplined == ~FailsAnyhow /\ ~ReusesMoved /\ ~OversizedFirst /\ ~AnyLimits

(* An implementation has both stacks, and indexes for its capacity. *)
ImplOK(i) ==
    /\ i \in Implementations
    /\ i.exists => /\ i.max_depth > 0
                   /\ i.open_containers = i.max_depth
                   /\ i.is_array = i.max_depth
    /\ ~i.exists => i = NoImplementation
    /\ i.capacity <= i.indexes

DocOK(doc) == /\ doc \in DomDocuments
              /\ doc.capacity <= doc.tape
              /\ doc.capacity <= doc.string_buf

Calls == [len : Nat, error : Errors, failed : BOOLEAN, overrun : SUBSET Allocations]
CallOK(c, limit) ==
    /\ c \in Calls
    /\ c.overrun = {}
    /\ c.error = "MEMALLOC" => c.failed
    /\ c.error = "CAPACITY" => c.len > limit \/ c.len > MaxSize

LoadedOK == /\ loaded_bytes \in Nat /\ loaded_capacity \in Nat
            /\ loaded_capacity > 0 => loaded_capacity + Padding <= loaded_bytes

(* The inductive invariant: what the parser owns, and the last call *)
LimitOK == /\ max_capacity \in MinimalCapacity..MaxSize
           /\ documented_limit = max_capacity
Memory == /\ LimitOK
          /\ ImplOK(implementation)
          /\ implementation.capacity <= max_capacity
          /\ documents \in [Documents -> DomDocuments]
          /\ \A d \in Documents : DocOK(documents[d])
          /\ LoadedOK
IInv == Memory /\ CallOK(call, max_capacity)
-----------------------------------------------------------------------------
(* set_max_depth() and set_capacity(), of an implementation that has indexes *)
(* for its capacity                                                         *)
LEMMA DepthSound ==
    ASSUME NEW i \in Implementations, i.exists = TRUE, i.capacity <= i.indexes,
           NEW depth \in Nat \ {0}, NEW failed,
           "open_containers" \notin failed, "is_array" \notin failed
    PROVE  LET r == SetMaxDepth(i, depth, failed)
           IN  /\ r.error = "SUCCESS"
               /\ ImplOK(r.impl)
               /\ r.impl.exists = TRUE
               /\ r.impl.capacity = i.capacity
<1> DEFINE deep == [i EXCEPT !.open_containers = depth, !.is_array = depth,
                             !.max_depth = depth]
<1>1. SetMaxDepth(i, depth, failed) = Result(deep, "SUCCESS")
  BY DEF SetMaxDepth
<1>2. deep \in Implementations
  BY DEF Implementations
<1>3. /\ deep.exists = i.exists /\ deep.capacity = i.capacity /\ deep.indexes = i.indexes
      /\ deep.open_containers = depth /\ deep.is_array = depth /\ deep.max_depth = depth
  BY DEF Implementations
<1>4. ImplOK(deep)
  <2> HIDE DEF deep
  <2> QED BY <1>2, <1>3 DEF ImplOK
<1> HIDE DEF deep
<1> QED BY <1>1, <1>3, <1>4 DEF Result

LEMMA CapacitySound ==
    ASSUME NEW i, ImplOK(i), i.exists = TRUE, NEW capacity \in Nat, NEW failed
    PROVE  LET r == SetCapacity(i, capacity, failed)
           IN  /\ ImplOK(r.impl)
               /\ r.error \in Errors
               /\ r.error = "SUCCESS" => r.impl.capacity = capacity
               /\ r.error = "MEMALLOC" => failed # {}
               /\ r.error = "CAPACITY" => capacity > MaxSize
<1> DEFINE lost == [i EXCEPT !.indexes = 0, !.capacity = 0]
           wide == [i EXCEPT !.indexes = capacity, !.capacity = capacity]
<1>0. i \in Implementations
  BY DEF ImplOK
<1>1. /\ lost \in Implementations /\ lost.exists = i.exists
      /\ lost.max_depth = i.max_depth /\ lost.open_containers = i.open_containers
      /\ lost.is_array = i.is_array /\ lost.capacity = 0 /\ lost.indexes = 0
  BY <1>0 DEF Implementations
<1>2. /\ wide \in Implementations /\ wide.exists = i.exists
      /\ wide.max_depth = i.max_depth /\ wide.open_containers = i.open_containers
      /\ wide.is_array = i.is_array /\ wide.capacity = capacity /\ wide.indexes = capacity
  BY <1>0 DEF Implementations
<1>3. SetCapacity(i, capacity, failed) = IF capacity > MaxSize THEN Result(i, "CAPACITY")
        ELSE IF "indexes" \in failed THEN Result(lost, "MEMALLOC")
                                     ELSE Result(wide, "SUCCESS")
  BY DEF SetCapacity
<1> HIDE DEF lost, wide
<1>4. ImplOK(lost) /\ ImplOK(wide)
  BY <1>1, <1>2 DEF ImplOK
<1> QED BY <1>2, <1>3, <1>4 DEF Result, Errors

(* The capacity they leave: the one there was, the one asked for, or none. *)
LEMMA DepthKeepsCapacity ==
    ASSUME NEW i \in Implementations, NEW depth, NEW failed
    PROVE  SetMaxDepth(i, depth, failed).impl.capacity = i.capacity
<1> DEFINE Stack(name) == IF name \in failed THEN 0 ELSE depth
           lost == "open_containers" \in failed \/ "is_array" \in failed
           deep == [i EXCEPT !.open_containers = Stack("open_containers"),
                             !.is_array = Stack("is_array"),
                             !.max_depth = IF lost THEN 0 ELSE depth]
<1>1. SetMaxDepth(i, depth, failed) = Result(deep, IF lost THEN "MEMALLOC" ELSE "SUCCESS")
  BY DEF SetMaxDepth
<1>2. deep.capacity = i.capacity
  BY DEF Implementations
<1> HIDE DEF deep, lost
<1> QED BY <1>1, <1>2 DEF Result

Kept(capacity, before, asked) ==
    capacity \in {0, before} \/ (capacity = asked /\ asked <= MaxSize)

LEMMA CapacityKept ==
    ASSUME NEW i \in Implementations, NEW capacity \in Nat, NEW failed
    PROVE  Kept(SetCapacity(i, capacity, failed).impl.capacity, i.capacity, capacity)
<1> DEFINE lost == [i EXCEPT !.indexes = 0, !.capacity = 0]
           wide == [i EXCEPT !.indexes = capacity, !.capacity = capacity]
<1>1. lost.capacity = 0 /\ wide.capacity = capacity
  BY DEF Implementations
<1>2. SetCapacity(i, capacity, failed) = IF capacity > MaxSize THEN Result(i, "CAPACITY")
        ELSE IF "indexes" \in failed THEN Result(lost, "MEMALLOC")
                                     ELSE Result(wide, "SUCCESS")
  BY DEF SetCapacity
<1>3. capacity \in Nat /\ MaxSize \in Nat
  BY ImplementationAssumption
<1> HIDE DEF lost, wide
<1> QED BY <1>1, <1>2, <1>3 DEF Result, Kept

(* allocate() leaves a sound implementation, of the capacity asked for when *)
(* it succeeds, and gives its reason when it does not.                      *)
LEMMA AllocateSound ==
    ASSUME ImplOK(implementation),
           NEW capacity \in Nat, NEW depth \in Nat \ {0}, NEW failed,
           failed \in SUBSET Allocations, Survivable(failed),
           implementation.exists \/ capacity <= MaxSize
    PROVE  LET r == Allocate(capacity, depth, failed)
           IN  /\ ImplOK(r.impl)
               /\ r.error \in Errors
               /\ r.error = "SUCCESS" => r.impl.capacity = capacity
               /\ r.error = "MEMALLOC" => failed # {}
               /\ r.error = "CAPACITY" => capacity > MaxSize
               /\ Kept(r.impl.capacity, implementation.capacity, capacity)
<1> DEFINE Good(r) == /\ ImplOK(r.impl)
                      /\ r.error \in Errors
                      /\ r.error = "SUCCESS" => r.impl.capacity = capacity
                      /\ r.error = "MEMALLOC" => failed # {}
                      /\ r.error = "CAPACITY" => capacity > MaxSize
                      /\ Kept(r.impl.capacity, implementation.capacity, capacity)
<1>0. MaxSize \in Nat
  BY ImplementationAssumption
<1>1. "open_containers" \notin failed /\ "is_array" \notin failed
  BY DEF Survivable
<1>2. CASE implementation.exists
  <2> DEFINE deep == IF implementation.max_depth # depth
                     THEN SetMaxDepth(implementation, depth, failed)
                     ELSE Result(implementation, "SUCCESS")
  <2>1. /\ implementation \in Implementations /\ implementation.exists = TRUE
        /\ implementation.capacity <= implementation.indexes
    BY <1>2 DEF ImplOK, Implementations
  <2>5. /\ deep.error = "SUCCESS" /\ ImplOK(deep.impl) /\ deep.impl.exists = TRUE
        /\ deep.impl.capacity = implementation.capacity
    <3>1. CASE implementation.max_depth # depth
      <4> DEFINE a == SetMaxDepth(implementation, depth, failed)
      <4>1. a.error = "SUCCESS" /\ ImplOK(a.impl) /\ a.impl.exists = TRUE
        BY <1>1, <2>1, DepthSound
      <4>2. a.impl.capacity = implementation.capacity
        BY <2>1, DepthKeepsCapacity
      <4>3. deep = a
        BY <3>1
      <4> HIDE DEF a, deep
      <4> QED BY <4>1, <4>2, <4>3
    <3>2. CASE implementation.max_depth = depth
      BY <2>1, <3>2 DEF Result
    <3> QED BY <3>1, <3>2
  <2>2. Allocate(capacity, depth, failed)
          = IF deep.impl.capacity # capacity THEN SetCapacity(deep.impl, capacity, failed)
                                             ELSE deep
    BY <2>1, <2>5 DEF Allocate, Reallocate
  <2>3. CASE deep.impl.capacity = capacity
    BY <2>2, <2>3, <2>5 DEF Errors, Kept
  <2>4. CASE deep.impl.capacity # capacity
    <3> HIDE DEF deep
    <3> DEFINE a == SetCapacity(deep.impl, capacity, failed)
    <3>2. /\ ImplOK(a.impl)
          /\ a.error \in Errors
          /\ a.error = "SUCCESS" => a.impl.capacity = capacity
          /\ a.error = "MEMALLOC" => failed # {}
          /\ a.error = "CAPACITY" => capacity > MaxSize
      BY <2>5, CapacitySound
    <3>3. Kept(a.impl.capacity, deep.impl.capacity, capacity)
      <4>1. deep.impl \in Implementations
        BY <2>5 DEF ImplOK
      <4> QED BY <4>1, CapacityKept
    <3>1. Good(SetCapacity(deep.impl, capacity, failed))
      <4> HIDE DEF a
      <4>1. Good(a)
        BY <2>5, <3>2, <3>3
      <4> QED BY <4>1 DEF a
    <3> QED BY <2>2, <2>4, <3>1
  <2> QED BY <2>3, <2>4
<1>3. CASE ~implementation.exists
  <2>1. implementation.max_depth = 0 /\ "indexes" \notin failed /\ capacity <= MaxSize
    BY <1>3 DEF ImplOK, NoImplementation, Survivable
  <2> DEFINE fresh == [NoImplementation EXCEPT !.exists = TRUE]
             wide  == [fresh EXCEPT !.indexes = capacity, !.capacity = capacity]
  <2>2. SetCapacity(fresh, capacity, failed) = Result(wide, "SUCCESS")
    BY <1>0, <2>1 DEF SetCapacity
  <2>3. CASE "implementation" \in failed
    BY <1>3, <2>3
       DEF Allocate, Create, Result, ImplOK, NoImplementation, Implementations, Errors, Kept
  <2>4. CASE "implementation" \notin failed
    <3>1. Allocate(capacity, depth, failed) = SetMaxDepth(wide, depth, failed)
      BY <1>3, <2>2, <2>4 DEF Allocate, Create, Result
    <3>2. /\ wide \in Implementations /\ wide.exists = TRUE
          /\ wide.capacity = capacity /\ wide.indexes = capacity
      BY DEF NoImplementation, Implementations
    <3>3. PICK w \in Implementations : /\ w = wide /\ w.exists = TRUE
                                       /\ w.capacity = capacity /\ w.indexes = capacity
      BY <3>2
    <3> DEFINE a == SetMaxDepth(w, depth, failed)
    <3>4. a.error = "SUCCESS" /\ ImplOK(a.impl) /\ a.impl.capacity = capacity
      <4>1. w.capacity <= w.indexes
        BY <3>3
      <4> QED BY <1>1, <3>3, <4>1, DepthSound
    <3>6. Allocate(capacity, depth, failed) = a
      BY <3>1, <3>3
    <3> HIDE DEF a
    <3>5. Good(a)
      BY <2>1, <3>4 DEF Errors, Kept
    <3> QED BY <3>5, <3>6
  <2> QED BY <2>3, <2>4
<1> QED BY <1>2, <1>3

(* ensure_capacity() leaves sound owners, ready for the input if it says    *)
(* so.                                                                      *)
LEMMA EnsureSound ==
    ASSUME Memory, NEW d \in Documents, NEW len \in Nat, NEW failed,
           failed \in SUBSET Allocations, Survivable(failed)
    PROVE  LET r == EnsureCapacity(d, len, failed)
           IN  /\ ImplOK(r.impl) /\ DocOK(r.doc)
               /\ r.error \in Errors
               /\ r.error = "SUCCESS" => /\ len <= r.impl.capacity
                                         /\ 0 < r.impl.capacity
                                         /\ len <= r.doc.capacity
               /\ r.error = "MEMALLOC" => failed # {}
               /\ r.error = "CAPACITY" => len > max_capacity \/ len > MaxSize
               /\ r.impl.capacity <= max_capacity
<1> DEFINE desired == AtLeast(MinimalCapacity, len)
           small == implementation.capacity < desired
           short == documents[d].capacity < desired
           doc == IF short THEN AllocateDocument(desired, failed) ELSE documents[d]
           made == IF small THEN Allocate(desired, max_depth, failed)
                   ELSE Result(implementation, "SUCCESS")
           r == EnsureCapacity(d, len, failed)
           Good == /\ ImplOK(r.impl) /\ DocOK(r.doc)
                   /\ r.error \in Errors
                   /\ r.error = "SUCCESS" => /\ len <= r.impl.capacity
                                             /\ 0 < r.impl.capacity
                                             /\ len <= r.doc.capacity
                   /\ r.error = "MEMALLOC" => failed # {}
                   /\ r.error = "CAPACITY" => len > max_capacity \/ len > MaxSize
                   /\ r.impl.capacity <= max_capacity
<1> SUFFICES Good
  OBVIOUS
<1>0. MaxSize \in Nat /\ MinimalCapacity \in 1..MaxSize
  BY ImplementationAssumption, DomParserAssumption
<1>1. desired \in Nat /\ len <= desired /\ 0 < desired
  BY <1>0 DEF AtLeast
<1>2. /\ ImplOK(implementation) /\ DocOK(documents[d])
      /\ implementation.capacity \in Nat /\ documents[d].capacity \in Nat
      /\ max_capacity \in Nat /\ max_capacity <= MaxSize
      /\ MinimalCapacity <= max_capacity /\ implementation.capacity <= max_capacity
  BY <1>0 DEF Memory, LimitOK, ImplOK, Implementations, DocOK, DomDocuments
<1>3. CASE (small \/ short) /\ desired > max_capacity
  <2>1. r = [impl |-> implementation, doc |-> documents[d], error |-> "CAPACITY"]
    BY <1>3 DEF EnsureCapacity
  <2>2. desired = len
    BY <1>0, <1>2, <1>3 DEF AtLeast
  <2> QED BY <1>2, <1>3, <2>1, <2>2 DEF Errors
<1>4. CASE ~((small \/ short) /\ desired > max_capacity)
  <2>1. r = [impl |-> made.impl, doc |-> doc,
             error |-> IF doc.capacity < desired THEN "MEMALLOC" ELSE made.error]
    BY <1>4 DEF EnsureCapacity
  <2>2. /\ DocOK(doc) /\ doc.capacity \in Nat
        /\ doc.capacity < desired => failed # {}
    BY <1>1, <1>2 DEF AllocateDocument, DocOK, DomDocuments, NoDocument
  <2>3. /\ ImplOK(made.impl) /\ made.error \in Errors
        /\ made.error = "SUCCESS" => desired <= made.impl.capacity
        /\ made.error = "MEMALLOC" => failed # {}
        /\ made.error # "CAPACITY"
        /\ made.impl.capacity <= max_capacity
    <3>1. CASE small
      <4>1. desired <= MaxSize
        BY <1>1, <1>2, <1>4, <3>1, <1>0
      <4>2. max_depth \in Nat \ {0}
        BY <1>2, ImplementationAssumption DEF max_depth, ImplOK, Implementations
      <4> DEFINE a == Allocate(desired, max_depth, failed)
      <4>3. /\ ImplOK(a.impl) /\ a.error \in Errors
            /\ a.error = "SUCCESS" => a.impl.capacity = desired
            /\ a.error = "MEMALLOC" => failed # {}
            /\ a.error = "CAPACITY" => desired > MaxSize
            /\ Kept(a.impl.capacity, implementation.capacity, desired)
        <5> HIDE DEF desired
        <5> QED BY <1>1, <1>2, <4>1, <4>2, AllocateSound
      <4>4. made = a
        BY <3>1
      <4>5. desired <= max_capacity
        BY <1>1, <1>2, <1>4, <3>1
      <4> HIDE DEF a, made, desired
      <4> QED BY <1>0, <1>1, <1>2, <4>1, <4>3, <4>4, <4>5 DEF Kept
    <3>2. CASE ~small
      <4>1. made = Result(implementation, "SUCCESS")
        BY <3>2
      <4> HIDE DEF made
      <4> QED BY <1>1, <1>2, <3>2, <4>1 DEF Result, Errors
    <3> QED BY <3>1, <3>2
  <2>4. /\ made.impl.capacity \in Nat
    BY <2>3 DEF ImplOK, Implementations
  <2> HIDE DEF r, made, doc, desired
  <2>5. /\ r.impl = made.impl /\ r.doc = doc
        /\ r.error = IF doc.capacity < desired THEN "MEMALLOC" ELSE made.error
    BY <2>1
  <2> QED BY <1>1, <2>2, <2>3, <2>4, <2>5 DEF Errors
<1> QED BY <1>3, <1>4
-----------------------------------------------------------------------------
LEMMA CallFields ==
    ASSUME NEW len \in Nat, NEW error \in Errors, NEW failed, NEW overrun,
           overrun \in SUBSET Allocations
    PROVE  LET c == Call(len, error, failed, overrun)
           IN  /\ c \in Calls
               /\ c.len = len /\ c.error = error /\ c.overrun = overrun
               /\ failed # {} => c.failed
<1>1. (failed # {}) \in BOOLEAN
  OBVIOUS
<1> QED BY <1>1 DEF Call, Calls

(* The stages overrun nothing of a parser and document that are ready. *)
LEMMA StagedSound ==
    ASSUME NEW i, ImplOK(i), NEW doc, DocOK(doc), NEW len \in Nat, NEW failed,
           len <= i.capacity, 0 < i.capacity, len <= doc.capacity, NEW limit
    PROVE  /\ CallOK(Staged(i, doc, len, failed), limit)
           /\ Staged(i, doc, len, failed).overrun = {}
<1>1. /\ i.exists /\ i.capacity \in Nat /\ i.indexes \in Nat /\ i.max_depth \in Nat
      /\ doc.capacity \in Nat /\ doc["tape"] \in Nat /\ doc["string_buf"] \in Nat
  BY DEF ImplOK, Implementations, NoImplementation, DocOK, DomDocuments
<1>2. Overrun(i, len) = {}
  BY <1>1 DEF Overrun, ImplOK
<1>3. Overruns(i, doc, len) = {}
  BY <1>1, <1>2 DEF Overruns, DocOK
<1>4. Staged(i, doc, len, failed) \in {Call(len, "EMPTY", failed, {}),
                                       Call(len, "SUCCESS", failed, {})}
  BY <1>1, <1>3 DEF Staged
<1> DEFINE c == Staged(i, doc, len, failed)
<1>5. c \in Calls /\ c.error \in {"EMPTY", "SUCCESS"} /\ c.overrun = {}
  BY <1>4, CallFields DEF Errors
<1> HIDE DEF c
<1> QED BY <1>5 DEF CallOK, c

(* The document and the implementation that ensure_capacity() leaves. *)
LEMMA EnsuredSound ==
    ASSUME Memory, NEW d \in Documents, NEW ready, Ensured(ready, d),
           ImplOK(ready.impl), DocOK(ready.doc)
    PROVE  /\ ImplOK(implementation')
           /\ documents' \in [Documents -> DomDocuments]
           /\ \A e \in Documents : DocOK(documents'[e])
BY DEF Ensured, Memory, DocOK

(* A call that is refused *)
LEMMA RefusedSound ==
    ASSUME NEW len \in Nat, NEW error \in Errors, NEW failed, NEW limit,
           error = "MEMALLOC" => failed # {},
           error = "CAPACITY" => len > limit \/ len > MaxSize
    PROVE  CallOK(Call(len, error, failed, {}), limit)
<1> DEFINE c == Call(len, error, failed, {})
<1>1. /\ c \in Calls /\ c.len = len /\ c.error = error /\ c.overrun = {}
      /\ failed # {} => c.failed
  BY CallFields
<1> HIDE DEF c
<1> QED BY <1>1 DEF CallOK, c

(* loaded_bytes stays as long as loaded_capacity says, and is filled. *)
LEMMA FillSound ==
    ASSUME LoadedOK, NEW len \in Nat, NEW failed, Survivable(failed),
           NEW grow \in BOOLEAN, Outgrown(len) => grow,
           FillLoaded(len, grow, failed)
    PROVE  /\ LoadedOK'
           /\ ~(grow /\ "loaded_bytes" \in failed) => Unfilled(len) = {}
<1>0. Padding \in Nat \ {0}
  BY DomParserAssumption
<1>1. CASE grow /\ "loaded_bytes" \in failed
  BY <1>1 DEF FillLoaded, LoadedOK, Survivable
<1>2. CASE grow /\ "loaded_bytes" \notin failed
  BY <1>0, <1>2 DEF FillLoaded, LoadedOK, Unfilled
<1>3. CASE ~grow
  BY <1>0, <1>3 DEF FillLoaded, LoadedOK, Unfilled, Outgrown
<1> QED BY <1>1, <1>2, <1>3

(* The memory behind a call that made the parser ready for capacity bytes *)
LEMMA MemorySound ==
    ASSUME Memory, NEW d \in Documents, NEW len \in Nat, NEW failed,
           failed \in SUBSET Allocations, Survivable(failed),
           Ensured(EnsureCapacity(d, len, failed), d),
           LoadedOK', KeepLimit
    PROVE  Memory'
<1> DEFINE ready == EnsureCapacity(d, len, failed)
<1>1. ImplOK(ready.impl) /\ DocOK(ready.doc) /\ ready.impl.capacity <= max_capacity
  BY EnsureSound
<1> HIDE DEF ready
<1>2. Ensured(ready, d)
  BY DEF ready
<1>3. implementation'.capacity <= max_capacity'
  BY <1>1, <1>2 DEF Ensured, KeepLimit
<1> QED BY <1>1, <1>2, <1>3, EnsuredSound DEF Memory, LimitOK, KeepLimit

LEMMA FailuresSound ==
    ASSUME Disciplined, NEW failed \in Failures
    PROVE  failed \in SUBSET Allocations /\ Survivable(failed)
BY DomParserAssumption DEF Disciplined, Failures
-----------------------------------------------------------------------------
(* The first window of a text of which up to capacity bytes are taken *)
LEMMA BeginSound ==
    ASSUME Memory, LoadedOK', KeepLimit,
           NEW capacity \in Nat, NEW len \in Nat, len <= capacity, NEW failed,
           failed \in SUBSET Allocations, Survivable(failed),
           Begin(capacity, len, failed, {})
    PROVE  IInv'
<1> DEFINE ready == EnsureCapacity("own", capacity, failed)
           staged == Staged(ready.impl, ready.doc, len, failed)
<1>0. "own" \in Documents
  BY DomParserAssumption
<1>1. /\ ImplOK(ready.impl) /\ DocOK(ready.doc)
      /\ ready.error \in Errors
      /\ ready.error = "SUCCESS" => /\ capacity <= ready.impl.capacity
                                    /\ 0 < ready.impl.capacity
                                    /\ capacity <= ready.doc.capacity
      /\ ready.error = "MEMALLOC" => failed # {}
      /\ ready.error = "CAPACITY" => capacity > max_capacity \/ capacity > MaxSize
  BY <1>0, EnsureSound
<1>2. Memory'
  BY <1>0, MemorySound DEF Begin
<1>3. call' = IF ready.error # "SUCCESS" THEN Call(capacity, ready.error, failed, {})
              ELSE [staged EXCEPT !.overrun = @ \cup {}]
  BY DEF Begin
<1>4. CASE ready.error # "SUCCESS"
  <2> HIDE DEF ready
  <2>1. CallOK(Call(capacity, ready.error, failed, {}), max_capacity)
    BY <1>1, RefusedSound
  <2> QED BY <1>2, <1>3, <1>4, <2>1 DEF IInv, KeepLimit
<1>5. CASE ready.error = "SUCCESS"
  <2> HIDE DEF ready
  <2>1. /\ ready.impl.capacity \in Nat /\ ready.doc.capacity \in Nat
    BY <1>1 DEF ImplOK, Implementations, DocOK, DomDocuments
  <2>2. len <= ready.impl.capacity /\ len <= ready.doc.capacity
    BY <1>1, <1>5, <2>1
  <2>3. CallOK(staged, max_capacity) /\ staged.overrun = {}
    BY <1>1, <1>5, <2>2, StagedSound
  <2> HIDE DEF staged
  <2>4. [staged EXCEPT !.overrun = @ \cup {}] = staged
    BY <2>3 DEF CallOK, Calls
  <2> QED BY <1>2, <1>3, <1>5, <2>3, <2>4 DEF IInv, KeepLimit
<1> QED BY <1>4, <1>5

LEMMA StreamedSound ==
    ASSUME Memory, LoadedOK', KeepLimit,
           NEW batch \in Nat, NEW len \in Nat, NEW failed,
           failed \in SUBSET Allocations, Survivable(failed),
           Streamed(len, batch, failed, {})
    PROVE  IInv'
<1>1. PICK size \in {AtLeast(MinimalBatch, batch)} : Begin(size, Window(len, size), failed, {})
  BY DEF Streamed
<1>2. size \in Nat
  BY DomParserAssumption DEF AtLeast
<1>3. Window(len, size) \in Nat /\ Window(len, size) <= size
  BY <1>2 DEF Window
<1> QED BY <1>1, <1>2, <1>3, BeginSound

LEMMA ReadFailsSound ==
    ASSUME IInv, NEW len \in Nat, NEW failed,
           failed \in SUBSET Allocations, Survivable(failed), ReadFails(len, failed)
    PROVE  IInv'
<1>1. CallOK(Call(len, "IO_ERROR", failed, {}), max_capacity)
  BY RefusedSound DEF Errors
<1>2. "loaded_bytes" \in failed => CallOK(Call(len, "MEMALLOC", failed, {}), max_capacity)
  BY RefusedSound DEF Errors
<1>3. LoadedOK /\ Memory /\ Outgrown(len) \in BOOLEAN
  BY DEF IInv, KeepLimit, Memory, Outgrown
<1>4. CASE KeepLoaded /\ call' = Call(len, "IO_ERROR", failed, {})
  BY <1>1, <1>3, <1>4 DEF ReadFails, KeepLoaded, IInv, KeepLimit, LimitOK, Memory, LoadedOK, DocOK, ImplOK
<1>5. CASE /\ Outgrown(len) /\ "loaded_bytes" \in failed
           /\ FillLoaded(len, TRUE, failed)
           /\ call' = Call(len, "MEMALLOC", failed, {})
  <2>1. LoadedOK'
    BY <1>3, <1>5, FillSound
  <2> QED BY <1>2, <1>3, <1>5, <2>1 DEF ReadFails, IInv, KeepLimit, LimitOK, Memory, DocOK, ImplOK
<1>6. CASE ReadFile(len, failed) /\ call' = Call(len, "IO_ERROR", failed, Unfilled(len))
  <2>1. LoadedOK' /\ Unfilled(len) = {}
    BY <1>3, <1>6, FillSound DEF ReadFile
  <2> QED BY <1>1, <1>3, <1>6, <2>1 DEF ReadFails, IInv, KeepLimit, LimitOK, Memory, DocOK, ImplOK
<1> QED BY <1>4, <1>5, <1>6 DEF ReadFails
-----------------------------------------------------------------------------
LEMMA InitSound == Disciplined /\ Init => IInv
<1> SUFFICES ASSUME Disciplined, Init PROVE IInv
  OBVIOUS
<1>1. LimitOK
  BY ImplementationAssumption, DomParserAssumption DEF Init, Disciplined, LimitOK
<1>2. ImplOK(implementation) /\ implementation.capacity <= max_capacity
  <2>1. MinimalCapacity \in Nat /\ MaxSize \in Nat /\ max_capacity \in Nat
    BY <1>1, ImplementationAssumption, DomParserAssumption DEF LimitOK
  <2> QED BY <2>1 DEF Init, ImplOK, Implementations, NoImplementation
<1>3. NoDocument \in DomDocuments /\ DocOK(NoDocument)
  BY DEF NoDocument, DomDocuments, DocOK
<1>4. CallOK(call, max_capacity)
  BY RefusedSound DEF Init, Errors
<1> QED BY <1>1, <1>2, <1>3, <1>4 DEF Init, IInv, Memory, LoadedOK

(* A text that the parser and the document were made ready for is parsed. *)
LEMMA ReadySound ==
    ASSUME Memory, NEW d \in Documents, NEW len \in Nat, NEW failed,
           failed \in SUBSET Allocations, Survivable(failed)
    PROVE  LET ready == EnsureCapacity(d, len, failed)
               staged == Staged(ready.impl, ready.doc, len, failed)
           IN  /\ ready.error # "SUCCESS" =>
                    CallOK(Call(len, ready.error, failed, {}), max_capacity)
               /\ ready.error = "SUCCESS" =>
                    CallOK(staged, max_capacity) /\ staged.overrun = {}
<1> DEFINE ready == EnsureCapacity(d, len, failed)
<1>1. /\ ImplOK(ready.impl) /\ DocOK(ready.doc)
      /\ ready.error \in Errors
      /\ ready.error = "SUCCESS" => /\ len <= ready.impl.capacity
                                    /\ 0 < ready.impl.capacity
                                    /\ len <= ready.doc.capacity
      /\ ready.error = "MEMALLOC" => failed # {}
      /\ ready.error = "CAPACITY" => len > max_capacity \/ len > MaxSize
  BY EnsureSound
<1> HIDE DEF ready
<1>2. CASE ready.error # "SUCCESS"
  BY <1>1, <1>2, RefusedSound DEF ready
<1>3. CASE ready.error = "SUCCESS"
  BY <1>1, <1>3, StagedSound DEF ready
<1> QED BY <1>2, <1>3 DEF ready

LEMMA ParseSound ==
    ASSUME Disciplined, IInv, NEW d \in Documents, NEW len \in Nat, Parse(d, len)
    PROVE  IInv'
<1>0. PICK failed \in Failures : \E ready \in {EnsureCapacity(d, len, failed)} :
        /\ Ensured(ready, d)
        /\ call' = IF ready.error # "SUCCESS"
                   THEN Call(len, ready.error, failed, {})
                   ELSE Staged(ready.impl, ready.doc, len, failed)
        /\ KeepLoaded
        /\ KeepLimit
  BY DEF Parse
<1>1. PICK ready \in {EnsureCapacity(d, len, failed)} :
        /\ Ensured(ready, d)
        /\ call' = IF ready.error # "SUCCESS"
                   THEN Call(len, ready.error, failed, {})
                   ELSE Staged(ready.impl, ready.doc, len, failed)
        /\ KeepLoaded
        /\ KeepLimit
  BY <1>0
<1>2. failed \in SUBSET Allocations /\ Survivable(failed)
  BY FailuresSound
<1>3. Memory /\ LoadedOK'
  BY <1>1 DEF IInv, KeepLimit, Memory, LoadedOK, KeepLoaded
<1>4. Memory'
  BY <1>1, <1>2, <1>3, MemorySound
<1>5. CallOK(call', max_capacity)
  BY <1>1, <1>2, <1>3, ReadySound
<1> QED BY <1>1, <1>4, <1>5 DEF IInv, KeepLimit

LEMMA ParseCopySound ==
    ASSUME Disciplined, IInv, NEW d \in Documents, NEW len \in Nat, ParseCopy(d, len)
    PROVE  IInv'
<1>0. PICK failed \in Failures :
        \E ready \in {EnsureCapacity(d, len, failed)},
           grow \in {loaded_bytes = 0 \/ Outgrown(len)} :
        /\ Ensured(ready, d)
        /\ KeepLimit
        /\ IF ready.error # "SUCCESS"
           THEN KeepLoaded /\ call' = Call(len, ready.error, failed, {})
           ELSE /\ FillLoaded(len, grow, failed)
                /\ IF grow /\ "loaded_bytes" \in failed
                   THEN call' = Call(len, "MEMALLOC", failed, {})
                   ELSE \E staged \in {Staged(ready.impl, ready.doc, len, failed)} :
                          call' = [staged EXCEPT !.overrun = @ \cup Unfilled(len)]
  BY DEF ParseCopy
<1>1. PICK ready \in {EnsureCapacity(d, len, failed)},
           grow \in {loaded_bytes = 0 \/ Outgrown(len)} :
        /\ Ensured(ready, d)
        /\ KeepLimit
        /\ IF ready.error # "SUCCESS"
           THEN KeepLoaded /\ call' = Call(len, ready.error, failed, {})
           ELSE /\ FillLoaded(len, grow, failed)
                /\ IF grow /\ "loaded_bytes" \in failed
                   THEN call' = Call(len, "MEMALLOC", failed, {})
                   ELSE \E staged \in {Staged(ready.impl, ready.doc, len, failed)} :
                          call' = [staged EXCEPT !.overrun = @ \cup Unfilled(len)]
  BY <1>0
<1>2. failed \in SUBSET Allocations /\ Survivable(failed)
  BY FailuresSound
<1>3. Memory /\ LoadedOK /\ grow \in BOOLEAN /\ (Outgrown(len) => grow)
  BY DEF IInv, KeepLimit, Memory
<1>4. CASE ready.error # "SUCCESS"
  <2>1. LoadedOK'
    BY <1>1, <1>3, <1>4 DEF LoadedOK, KeepLoaded
  <2>2. Memory'
    BY <1>1, <1>2, <1>3, <2>1, MemorySound
  <2>3. CallOK(call', max_capacity)
    BY <1>1, <1>2, <1>3, <1>4, ReadySound
  <2> QED BY <1>1, <2>2, <2>3 DEF IInv, KeepLimit
<1>5. CASE ready.error = "SUCCESS"
  <2>1. LoadedOK' /\ (~(grow /\ "loaded_bytes" \in failed) => Unfilled(len) = {})
    BY <1>1, <1>2, <1>3, <1>5, FillSound
  <2>2. Memory'
    BY <1>1, <1>2, <1>3, <2>1, MemorySound
  <2>3. CASE grow /\ "loaded_bytes" \in failed
    <3>1. CallOK(Call(len, "MEMALLOC", failed, {}), max_capacity)
      BY <2>3, RefusedSound DEF Errors
    <3> QED BY <1>1, <1>5, <2>2, <2>3, <3>1 DEF IInv, KeepLimit
  <2>4. CASE ~(grow /\ "loaded_bytes" \in failed)
    <3>1. PICK staged \in {Staged(ready.impl, ready.doc, len, failed)} :
            call' = [staged EXCEPT !.overrun = @ \cup {}]
      BY <1>1, <1>5, <2>1, <2>4
    <3>2. CallOK(staged, max_capacity) /\ staged.overrun = {}
      BY <1>1, <1>2, <1>3, <1>5, <3>1, ReadySound
    <3>3. call' = staged
      BY <3>1, <3>2 DEF CallOK, Calls
    <3> QED BY <1>1, <2>2, <3>2, <3>3 DEF IInv, KeepLimit
  <2> QED BY <2>3, <2>4
<1> QED BY <1>4, <1>5

(* A file that was read leaves loaded_bytes as it should be. *)
LEMMA ReadFileSound ==
    ASSUME Memory, NEW len \in Nat, NEW failed, Survivable(failed), ReadFile(len, failed)
    PROVE  LoadedOK' /\ Unfilled(len) = {} /\ KeepLimit
<1>1. LoadedOK /\ Outgrown(len) \in BOOLEAN
  BY DEF Memory, Outgrown
<1> QED BY <1>1, FillSound DEF ReadFile

LEMMA LoadSound ==
    ASSUME Disciplined, IInv, NEW len \in Nat, Load(len)
    PROVE  IInv'
<1>1. PICK failed \in Failures :
        \/ ReadFails(len, failed)
        \/ ReadFile(len, failed) /\ Begin(len, len, failed, Unfilled(len))
  BY DEF Load
<1>2. failed \in SUBSET Allocations /\ Survivable(failed) /\ Memory
  BY FailuresSound DEF IInv, KeepLimit
<1>3. CASE ReadFails(len, failed)
  BY <1>2, <1>3, ReadFailsSound
<1>4. CASE ReadFile(len, failed) /\ Begin(len, len, failed, Unfilled(len))
  <2>1. LoadedOK' /\ Unfilled(len) = {} /\ KeepLimit
    BY <1>2, <1>4, ReadFileSound
  <2> QED BY <1>2, <1>4, <2>1, BeginSound
<1> QED BY <1>1, <1>3, <1>4

LEMMA ParseManySound ==
    ASSUME Disciplined, IInv, NEW len \in Nat, NEW batch \in Nat, ParseMany(len, batch)
    PROVE  IInv'
<1>1. PICK failed \in Failures : Streamed(len, batch, failed, {})
  BY DEF ParseMany
<1>2. failed \in SUBSET Allocations /\ Survivable(failed) /\ Memory
  BY FailuresSound DEF IInv, KeepLimit
<1>3. LoadedOK' /\ KeepLimit
  BY <1>2 DEF ParseMany, KeepLoaded, LoadedOK, Memory
<1> QED BY <1>1, <1>2, <1>3, StreamedSound

LEMMA LoadManySound ==
    ASSUME Disciplined, IInv, NEW len \in Nat, NEW batch \in Nat, LoadMany(len, batch)
    PROVE  IInv'
<1>1. PICK failed \in Failures :
        \/ ReadFails(len, failed)
        \/ ReadFile(len, failed) /\ Streamed(len, batch, failed, Unfilled(len))
  BY DEF LoadMany
<1>2. failed \in SUBSET Allocations /\ Survivable(failed) /\ Memory
  BY FailuresSound DEF IInv, KeepLimit
<1>3. CASE ReadFails(len, failed)
  BY <1>2, <1>3, ReadFailsSound
<1>4. CASE ReadFile(len, failed) /\ Streamed(len, batch, failed, Unfilled(len))
  <2>1. LoadedOK' /\ Unfilled(len) = {} /\ KeepLimit
    BY <1>2, <1>4, ReadFileSound
  <2> QED BY <1>2, <1>4, <2>1, StreamedSound
<1> QED BY <1>1, <1>3, <1>4

LEMMA AllocateParserSound ==
    ASSUME Disciplined, IInv, NEW capacity \in Nat, NEW depth \in Nat \ {0},
           AllocateParser(capacity, depth)
    PROVE  IInv'
<1>0. PICK failed \in Failures : \E made \in {Allocate(capacity, depth, failed)} :
        /\ implementation' = made.impl
        /\ call' = Call(capacity, made.error, failed, {})
        /\ KeepLoaded
        /\ KeepLimit
        /\ UNCHANGED documents
  BY DEF AllocateParser
<1>1. PICK made \in {Allocate(capacity, depth, failed)} :
        /\ implementation' = made.impl
        /\ call' = Call(capacity, made.error, failed, {})
        /\ KeepLoaded
        /\ KeepLimit
        /\ UNCHANGED documents
  BY <1>0
<1>2. failed \in SUBSET Allocations /\ Survivable(failed) /\ Memory
  BY FailuresSound DEF IInv, KeepLimit
<1>3. implementation.exists \/ capacity <= MaxSize
  BY DEF AllocateParser, Disciplined
<1>7. capacity <= max_capacity \/ capacity > MaxSize
  BY DEF AllocateParser, Disciplined
<1>4. /\ ImplOK(made.impl)
      /\ made.error \in Errors
      /\ made.error = "MEMALLOC" => failed # {}
      /\ made.error = "CAPACITY" => capacity > MaxSize
      /\ Kept(made.impl.capacity, implementation.capacity, capacity)
  BY <1>2, <1>3, AllocateSound DEF Memory
<1>8. made.impl.capacity <= max_capacity
  <2>1. /\ MaxSize \in Nat /\ MinimalCapacity \in Nat /\ max_capacity \in Nat
        /\ implementation.capacity <= max_capacity
    BY <1>2, ImplementationAssumption, DomParserAssumption DEF Memory, LimitOK
  <2> QED BY <1>4, <1>7, <2>1 DEF Kept
<1>5. CallOK(call', max_capacity)
  BY <1>1, <1>4, RefusedSound
<1>6. Memory'
  BY <1>1, <1>2, <1>4, <1>8 DEF Memory, LimitOK, LoadedOK, KeepLoaded, KeepLimit
<1> QED BY <1>1, <1>5, <1>6 DEF IInv, KeepLimit

LEMMA SetMaxCapacitySound ==
    ASSUME Disciplined, IInv, NEW limit \in Nat, SetMaxCapacity(limit)
    PROVE  IInv'
<1>0. MaxSize \in Nat /\ MinimalCapacity \in 1..MaxSize
  BY ImplementationAssumption, DomParserAssumption
<1>1. /\ limit = MinimalCapacity /\ implementation.capacity <= limit
      /\ max_capacity' = MinimalCapacity /\ documented_limit' = MinimalCapacity
  BY <1>0 DEF SetMaxCapacity, Disciplined, AtLeast
<1>2. CallOK(call', max_capacity')
  BY RefusedSound DEF SetMaxCapacity, Errors
<1>3. LimitOK' /\ implementation'.capacity <= max_capacity'
  BY <1>0, <1>1 DEF SetMaxCapacity, LimitOK
<1> QED BY <1>2, <1>3 DEF SetMaxCapacity, IInv, Memory, LoadedOK, KeepLoaded

(* Moving what was not used changes nothing that anyone relies on. *)
LEMMA EmptiedSound ==
    ASSUME NEW doc, DocOK(doc), doc.capacity = 0
    PROVE  DocOK(Emptied(doc)) /\ Emptied(doc) \in DomDocuments
<1>1. doc \in DomDocuments
  BY DEF DocOK
<1>2. [doc EXCEPT !.tape = 0, !.string_buf = 0] \in DomDocuments
  BY <1>1 DEF DomDocuments
<1>3. LET e == [doc EXCEPT !.tape = 0, !.string_buf = 0]
      IN  e.capacity = 0 /\ e.tape = 0 /\ e.string_buf = 0
  BY <1>1 DEF DomDocuments
<1> DEFINE e == Emptied(doc)
<1>4. e \in DomDocuments /\ e.capacity = 0 /\ e.tape = 0 /\ e.string_buf = 0
  BY <1>2, <1>3 DEF Emptied
<1> HIDE DEF e
<1> QED BY <1>4 DEF DocOK, e

LEMMA MoveDocumentSound ==
    ASSUME Disciplined, IInv, NEW d \in Documents, MoveDocument(d)
    PROVE  IInv'
<1>1. Memory /\ documents[d].capacity = 0 /\ DocOK(documents[d])
  BY DEF MoveDocument, Disciplined, IInv, Memory
<1>2. DocOK(Emptied(documents[d])) /\ Emptied(documents[d]) \in DomDocuments
  BY <1>1, EmptiedSound
<1>3. CallOK(call', max_capacity)
  BY RefusedSound DEF MoveDocument, Errors
<1>4. documents' = [documents EXCEPT ![d] = Emptied(documents[d])]
  BY DEF MoveDocument
<1>5. Memory'
  BY <1>1, <1>2, <1>4 DEF MoveDocument, Memory, LimitOK, LoadedOK, KeepLoaded, KeepLimit
<1> QED BY <1>3, <1>5 DEF MoveDocument, IInv, KeepLimit

LEMMA MoveParserSound ==
    ASSUME Disciplined, IInv, MoveParser
    PROVE  IInv'
<1>0. "own" \in Documents
  BY DomParserAssumption
<1>1. /\ Memory /\ DocOK(documents["own"])
      /\ documents["own"].capacity = 0 /\ loaded_capacity = 0
  BY <1>0 DEF MoveParser, Disciplined, IInv, Memory
<1>2. DocOK(Emptied(documents["own"])) /\ Emptied(documents["own"]) \in DomDocuments
  BY <1>1, EmptiedSound
<1>3. CallOK(call', max_capacity)
  BY RefusedSound DEF MoveParser, Errors
<1>4. documents' = [documents EXCEPT !["own"] = Emptied(documents["own"])]
  BY DEF MoveParser
<1>5. ImplOK(implementation') /\ implementation'.capacity <= max_capacity'
  <2>1. max_capacity \in Nat /\ max_capacity' = max_capacity
    BY <1>1, ImplementationAssumption, DomParserAssumption
       DEF MoveParser, Memory, LimitOK, KeepLimit
  <2> QED BY <2>1 DEF MoveParser, ImplOK, Implementations, NoImplementation
<1>6. LoadedOK'
  BY <1>1 DEF MoveParser, LoadedOK
<1>7. Memory'
  BY <1>0, <1>1, <1>2, <1>4, <1>5, <1>6 DEF MoveParser, Memory, LimitOK, KeepLimit
<1> QED BY <1>3, <1>7 DEF MoveParser, IInv, KeepLimit

LEMMA NextSound == Disciplined /\ IInv /\ [Next]_vars => IInv'
<1> SUFFICES ASSUME Disciplined, IInv, [Next]_vars PROVE IInv'
  OBVIOUS
<1>0. /\ Lengths \subseteq Nat /\ Batches \subseteq Nat /\ Limits \subseteq Nat
      /\ Capacities \subseteq Nat /\ Depths \subseteq Nat \ {0}
  BY DomParserAssumption
<1>1. ASSUME NEW len \in Lengths, NEW d \in Documents, Parse(d, len) PROVE IInv'
  BY <1>0, <1>1, ParseSound
<1>2. ASSUME NEW len \in Lengths, NEW d \in Documents, ParseCopy(d, len) PROVE IInv'
  BY <1>0, <1>2, ParseCopySound
<1>3. ASSUME NEW len \in Lengths, Load(len) PROVE IInv'
  BY <1>0, <1>3, LoadSound
<1>4. ASSUME NEW len \in Lengths, NEW batch \in Batches, ParseMany(len, batch)
      PROVE  IInv'
  BY <1>0, <1>4, ParseManySound
<1>5. ASSUME NEW len \in Lengths, NEW batch \in Batches, LoadMany(len, batch)
      PROVE  IInv'
  BY <1>0, <1>5, LoadManySound
<1>6. ASSUME NEW capacity \in Capacities, NEW depth \in Depths,
             AllocateParser(capacity, depth)
      PROVE  IInv'
  BY <1>0, <1>6, AllocateParserSound
<1>7. ASSUME NEW limit \in Limits, SetMaxCapacity(limit) PROVE IInv'
  BY <1>0, <1>7, SetMaxCapacitySound
<1>8. ASSUME NEW d \in Documents, MoveDocument(d) PROVE IInv'
  BY <1>8, MoveDocumentSound
<1>9. CASE MoveParser
  BY <1>9, MoveParserSound
<1>10. CASE UNCHANGED vars
  BY <1>10 DEF vars, IInv, Memory, LimitOK, LoadedOK
<1> QED
  BY <1>1, <1>2, <1>3, <1>4, <1>5, <1>6, <1>7, <1>8, <1>9, <1>10 DEF Next

(* What the invariant says of each of the checked properties *)
LEMMA InvariantSuffices ==
    ASSUME IInv
    PROVE  TypeOK /\ BuffersBackCapacity /\ CallsKeepPromise
<1>0. max_capacity \in Nat /\ documented_limit \in Nat
  BY ImplementationAssumption, DomParserAssumption DEF IInv, Memory, LimitOK
<1>1. TypeOK
  BY <1>0 DEF IInv, Memory, CallOK, Calls, LoadedOK, ImplOK, TypeOK
<1>2. BuffersBackCapacity
  <2>1. implementation.capacity > 0 =>
          Overrun(implementation, implementation.capacity) = {}
    <3>1. ImplOK(implementation)
      BY DEF IInv, KeepLimit, Memory
    <3> QED BY <3>1 DEF ImplOK, Implementations, NoImplementation, Overrun
  <2> QED BY <2>1 DEF IInv, KeepLimit, Memory, LoadedOK, DocOK, BuffersBackCapacity
<1>3. CallsKeepPromise
  <2>1. /\ call.len \in Nat /\ max_capacity \in Nat /\ documented_limit = max_capacity
        /\ implementation.capacity \in Nat /\ implementation.capacity <= max_capacity
    BY <1>0 DEF IInv, Memory, LimitOK, CallOK, Calls, ImplOK, Implementations
  <2> QED BY <2>1 DEF IInv, CallOK, CallsKeepPromise
<1> QED BY <1>1, <1>2, <1>3

(* The parser, its documents and its buffers stay what they are, for any    *)
(* inputs and any allocations that fail where the code survives it.         *)
THEOREM TypeCorrect == Disciplined => (Spec => []TypeOK)
<1> SUFFICES ASSUME Disciplined PROVE Spec => []TypeOK
  OBVIOUS
<1>1. Init => IInv
  BY InitSound
<1>2. IInv /\ [Next]_vars => IInv'
  BY NextSound
<1>3. IInv => TypeOK
  BY InvariantSuffices
<1> QED BY <1>1, <1>2, <1>3, PTL DEF Spec

(* Whatever allocation failed before, the capacity that the parser, a       *)
(* document and loaded_bytes keep is backed by buffers of that size: the    *)
(* next call may rely on the number instead of the pointers, which is what  *)
(* ensure_capacity() and read_file() do.                                    *)
THEOREM CapacityBacked == Disciplined => (Spec => []BuffersBackCapacity)
<1> SUFFICES ASSUME Disciplined PROVE Spec => []BuffersBackCapacity
  OBVIOUS
<1>1. Init => IInv
  BY InitSound
<1>2. IInv /\ [Next]_vars => IInv'
  BY NextSound
<1>3. IInv => BuffersBackCapacity
  BY InvariantSuffices
<1> QED BY <1>1, <1>2, <1>3, PTL DEF Spec

(* In the hands of a disciplined user - no allocation fails but those the   *)
(* code survives, nothing is used again that was used and moved away, the   *)
(* first size is no larger than simdjson takes, and the limits are among    *)
(* those the code takes as documented - no parse, load or stream writes     *)
(* beyond a buffer, whatever was parsed, loaded, refused or lost before it, *)
(* into which documents and in which order; and an error about memory or    *)
(* capacity is only given for the reasons parser.h:119 states.              *)
THEOREM CallsSound == Disciplined => (Spec => []CallsKeepPromise)
<1> SUFFICES ASSUME Disciplined PROVE Spec => []CallsKeepPromise
  OBVIOUS
<1>1. Init => IInv
  BY InitSound
<1>2. IInv /\ [Next]_vars => IInv'
  BY NextSound
<1>3. IInv => CallsKeepPromise
  BY InvariantSuffices
<1> QED BY <1>1, <1>2, <1>3, PTL DEF Spec
=============================================================================
