------------------------ MODULE ParserImplementation ------------------------
(***************************************************************************)
(* The memory of internal::dom_parser_implementation, which dom::parser    *)
(* and ondemand::parser both own: the indexes of stage 1 and the two       *)
(* stacks of stage 2.  Every operation maps an implementation to the one   *)
(* it leaves and its error code.  A buffer is the length of input (or the  *)
(* depth) it is large enough for; 0 is a null pointer.                     *)
(***************************************************************************)
EXTENDS Integers

CONSTANTS MaxSize,       \* SIMDJSON_MAXSIZE_BYTES
          DefaultDepth   \* DEFAULT_MAX_DEPTH

ASSUME ImplementationAssumption == MaxSize \in Nat /\ DefaultDepth \in Nat \ {0}

Errors == {"SUCCESS", "CAPACITY", "MEMALLOC", "IO_ERROR", "EMPTY"}
Implementations == [exists : BOOLEAN, capacity : Nat, max_depth : Nat,
                    indexes : Nat, open_containers : Nat, is_array : Nat]

NoImplementation == [exists |-> FALSE, capacity |-> 0, max_depth |-> 0,
                     indexes |-> 0, open_containers |-> 0, is_array |-> 0]

Result(i, e) == [impl |-> i, error |-> e]

(* Slip: the capacity is not taken back. *)
SetCapacity_Kept(i, capacity, failed) ==
    IF capacity > MaxSize THEN Result(i, "CAPACITY")
    ELSE IF "indexes" \in failed
         THEN Result([i EXCEPT !.indexes = 0], "MEMALLOC")
         ELSE Result([i EXCEPT !.indexes = capacity, !.capacity = capacity], "SUCCESS")

(* set_capacity(): failed are the allocations that fail. *)
SetCapacity(i, capacity, failed) ==
    IF capacity > MaxSize THEN Result(i, "CAPACITY")
    ELSE IF "indexes" \in failed
         THEN Result([i EXCEPT !.indexes = 0, !.capacity = 0], "MEMALLOC")
         ELSE Result([i EXCEPT !.indexes = capacity, !.capacity = capacity], "SUCCESS")

(* set_max_depth(): both stacks are replaced before either is looked at. *)
SetMaxDepth(i, depth, failed) ==
    LET Stack(name) == IF name \in failed THEN 0 ELSE depth
        lost == "open_containers" \in failed \/ "is_array" \in failed
    IN  Result([i EXCEPT !.open_containers = Stack("open_containers"),
                         !.is_array = Stack("is_array"),
                         !.max_depth = IF lost THEN 0 ELSE depth],
               IF lost THEN "MEMALLOC" ELSE "SUCCESS")

(* allocate(), of an implementation that exists *)
Reallocate(i, capacity, depth, failed) ==
    LET deep == IF i.max_depth # depth THEN SetMaxDepth(i, depth, failed)
                                       ELSE Result(i, "SUCCESS")
    IN  IF deep.error = "SUCCESS" /\ deep.impl.capacity # capacity
        THEN SetCapacity(deep.impl, capacity, failed) ELSE deep

(* create_dom_parser_implementation(): what was created stays, whatever     *)
(* fails then.                                                              *)
Create(capacity, depth, failed) ==
    LET wide == SetCapacity([NoImplementation EXCEPT !.exists = TRUE], capacity, failed)
    IN  IF "implementation" \in failed THEN Result(NoImplementation, "MEMALLOC")
        ELSE IF wide.error # "SUCCESS" THEN wide
        ELSE SetMaxDepth(wide.impl, depth, failed)

(* The buffers that stage 1 of len bytes and the level 0 of stage 2's       *)
(* stacks, which every document opens, would overrun.                       *)
Overrun(i, len) ==
    {b \in {"indexes", "open_containers", "is_array"} :
       CASE b = "indexes"         -> i.indexes < len
         [] b = "open_containers" -> i.open_containers < i.max_depth
                                       \/ i.open_containers = 0
         [] OTHER                 -> i.is_array < i.max_depth}
=============================================================================
