-------------------------- MODULE OnDemandContract --------------------------
(***************************************************************************)
(* What the On-Demand front end promises for well-formed documents: that   *)
(* it is a walk over the tree of values.  The user holds nodes, one inside *)
(* the other; of each it is known how many of its items were handed out    *)
(* ("progress"; one more than there are when it was read to the end).      *)
(***************************************************************************)
EXTENDS JsonTree

CONSTANTS Strings, Numbers, Keys, Indexes, Paths, Getters

VARIABLES tree, root, held, progress, answer

vars == <<tree, root, held, progress, answer>>

Node(kind, start) == [kind |-> kind, start |-> start, mode |-> "fresh"]

Init == /\ root = 1
        /\ held = <<Node("document", 1)>>
        /\ progress = <<0>>
        /\ answer = [asked |-> <<"iterate">>, out |-> "yes", node |-> 1]

level == Len(held)
Top   == held[level]
Of    == tree.items[Top.start]
Size  == Len(Of)
Unread == Top.kind \in {"document", "value"} /\ Top.mode = "fresh"
IsA(open) == tree.tokens[Top.start] = open

Answer(asked, out, node) ==
    answer' = [asked |-> asked, out |-> out, node |-> node] /\ UNCHANGED <<tree, root>>
Mark(mode, k) == /\ held' = [held EXCEPT ![level].mode = mode]
                 /\ progress' = [progress EXCEPT ![level] = k]
Take(mode, k, kind, start) ==
    /\ held' = Append([held EXCEPT ![level].mode = mode], Node(kind, start))
    /\ progress' = Append([progress EXCEPT ![level] = k], 0)
Keep == UNCHANGED <<held, progress>>

GetContainer(open) ==
    /\ Unread
    /\ IF IsA(open)
       THEN /\ Answer(<<"get", open>>, IF Size > 0 THEN "yes" ELSE "no", Top.start)
            /\ Take("spent", 0, IF open = "[" THEN "array" ELSE "object", Top.start)
       ELSE Answer(<<"get", open>>, "INCORRECT_TYPE", Top.start) /\ Keep

(* A document that is an array or object is also a value. *)
GetValue ==
    /\ Unread /\ Top.kind = "document"
    /\ IF IsA("[") \/ IsA("{")
       THEN Answer(<<"get", "value">>, "yes", Top.start) /\ Take("spent", 0, "value", Top.start)
       ELSE Answer(<<"get", "value">>, "SCALAR_DOCUMENT_AS_VALUE", Top.start) /\ Keep

Scalar(getter) ==
    /\ Unread
    /\ IF tree.tokens[Top.start] \in (IF getter = "get_string" THEN Strings ELSE Numbers)
       THEN Answer(<<"scalar", getter>>, "yes", Top.start) /\ Mark("spent", 0)
       ELSE Answer(<<"scalar", getter>>, "INCORRECT_TYPE", Top.start) /\ Keep

Drop == /\ level > 1
        /\ Answer(<<"drop">>, "yes", 0)
        /\ held' = Front(held)
        /\ progress' = Front(progress)

ResetContainer ==
    /\ Top.kind \in {"array", "object"}
    /\ Answer(<<"reset">>, IF Size > 0 THEN "yes" ELSE "no", Top.start)
    /\ Mark("fresh", 0)

(* The raw text ends right where the value does. *)
RawJson == /\ Top.kind # "value"
           /\ Answer(<<"raw">>, "yes", tree.last[Top.start] + 1)
           /\ Mark("used", Size + 1)

Restart(r) == held' = <<Node("document", r)>> /\ progress' = <<0>>
Rewind == Answer(<<"rewind">>, "yes", root) /\ Restart(root)

(* The next document starts right behind this one, whatever was read of it. *)
NextDocument == /\ root' = tree.last[root] + 1
                /\ answer' = [asked |-> <<"next">>, out |-> "yes", node |-> root']
                /\ UNCHANGED tree
                /\ Restart(root')

(* A loop hands the items out in order and ends behind the last. *)
Round == /\ Top.kind \in {"array", "object"} /\ Top.mode \in {"fresh", "looping"}
         /\ \E k \in {progress[level] + 1} :
               IF k <= Size
               THEN Answer(<<"loop">>, "yes", Of[k]) /\ Take("looping", k, "value", Of[k])
               ELSE Answer(<<"loop">>, "no", 0) /\ Mark("used", Size + 1)

(* The next field of that name: in order, from the last one on; or, around  *)
(* the end, from the last one on and up to it.                              *)
Find(how, key) ==
    /\ \/ Top.kind = "object"
       \/ Top.kind \in {"document", "value"} /\ Top.mode \in {"fresh", "resumed"}
    /\ LET k     == progress[level]
           whole == how = "find_unordered" /\ k > Size
           later == Named(tree, Top.start, key, IF whole THEN 1 ELSE k + 1, Size)
           any   == IF how = "find" THEN {} ELSE Named(tree, Top.start, key, 1, Size)
           hit   == IF later # {} THEN Min(later) ELSE Min(any)
           mode  == IF Top.kind = "object" THEN "used" ELSE "resumed"
       IN  IF ~IsA("{") THEN Answer(<<how, key>>, "INCORRECT_TYPE", 0) /\ Keep
           ELSE IF later \cup any # {}
           THEN \E j \in {hit} :
                   Answer(<<how, key>>, "yes", Of[j]) /\ Take(mode, j, "value", Of[j])
           ELSE /\ Answer(<<how, key>>, "NO_SUCH_FIELD", 0)
                /\ Mark(mode, IF how = "find" \/ k = 0 THEN Size + 1 ELSE k)

Count(open) ==
    /\ Top.mode = "fresh"
    /\ IF IsA(open) THEN Answer(<<"count", open>>, "yes", Size)
                    ELSE Answer(<<"count", open>>, "INCORRECT_TYPE", 0)
    /\ Keep

(* at_pointer() begins at the root again, or at a value not yet read. *)
AtPointer(path) ==
    /\ Top.kind = "document" \/ Unread
    /\ LET found == Lookup(tree, Top.start, path, Indexes)
       IN  /\ Answer(<<"pointer">> \o path, found.out, found.node)
           /\ IF found.out = "yes" THEN Take("spent", 0, "value", found.node)
                                   ELSE Mark("spent", 0)

At(index) ==
    /\ Top.kind = "array" /\ Top.mode = "fresh"
    /\ LET found == Lookup(tree, Top.start, <<index>>, Indexes)
       IN  /\ Answer(<<"at", index>>, found.out, found.node)
           /\ IF found.out = "yes"
              THEN \E k \in DOMAIN Indexes : Indexes[k] = index /\ Take("used", k, "value", found.node)
              ELSE Mark("used", Size + 1)

Walk == \/ GetValue \/ Drop \/ ResetContainer \/ RawJson \/ Rewind \/ NextDocument \/ Round
        \/ \E open \in {"[", "{"} : GetContainer(open) \/ Count(open)
        \/ \E getter \in Getters : Scalar(getter)
        \/ \E key \in Keys : Find("find", key) \/ Find("find_unordered", key)
        \/ \E path \in Paths : AtPointer(path)
        \/ \E index \in Range(Indexes) : At(index)

(* Of a text that is not well-formed, and has no tree, nothing is promised. *)
Next == UNCHANGED tree /\ (tree.tokens # <<>> => Walk)

Spec == Init /\ [][Next]_vars
=============================================================================
