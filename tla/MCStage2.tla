------------------------------ MODULE MCStage2 ------------------------------
(***************************************************************************)
(* The parts of stage 2 side by side: the walk over the tokens of a        *)
(* document, and what its visitors call for the contents of a string and   *)
(* of a number.  A behaviour is of one of them, and the others stand still *)
(* at a smallest input.                                                    *)
(***************************************************************************)
EXTENDS MCWalkDocument, MCStrings, MCNumbers

VARIABLE part

AnyDocument == toks = <<"d">> /\ mode = "regular" /\ padding = "$" /\ Init
AnyString   == pieces = <<>> /\ text = Bytes(pieces) /\ width = 1 /\ policy = "strict" /\ Begin
AnyNumber   == numeral = Text(FALSE, <<0>>, FALSE, <<>>, Plain, ",", FALSE) /\ Unasked

Stage2Init ==
    /\ part \in {"document", "string", "number"}
    /\ IF part = "document" THEN MCInit      ELSE AnyDocument
    /\ IF part = "string"   THEN StringsInit ELSE AnyString
    /\ IF part = "number"   THEN NumbersInit ELSE AnyNumber

DocumentStep == Next /\ UNCHANGED <<string_vars, pieces, number_vars>>
StringStep   == StringsNext /\ UNCHANGED <<vars, number_vars>>
NumberStep   == NumbersNext /\ UNCHANGED <<vars, string_vars, pieces>>
Stage2Next == /\ \/ part = "document" /\ DocumentStep
                 \/ part = "string" /\ StringStep
                 \/ part = "number" /\ NumberStep
              /\ UNCHANGED part

Stage2Spec == Stage2Init /\ [][Stage2Next]_<<vars, string_vars, pieces, number_vars, part>>
=============================================================================
