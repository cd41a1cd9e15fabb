------------------------------ MODULE Kernels ------------------------------
(***************************************************************************)
(* One kernel, of vectors (BlockScanner) or the fallback (FallbackScanner),*)
(* with one task on one text: both have to give an answer that             *)
(* KernelContract allows.                                                  *)
(***************************************************************************)
EXTENDS BlockScanner

CONSTANTS AsciiChunk,
          Jobs,    \* the pairs of a task and a text
          Behinds  \* the bytes behind the text

VARIABLES kernel,  \* "vector" or "fallback"
          in_string, unclosed_string, error, quote, nonescape

Fallback == INSTANCE FallbackScanner
Promise  == INSTANCE KernelContract

ASSUME KernelAssumption == /\ Classification
                           /\ NoAnswerYet
                           /\ AsciiChunk \in Nat \ {0}
                           /\ Behinds \subseteq Byte

vectorVars   == <<step_size, len, scanner, checker, prev_structurals,
                  unescaped_chars_error, written>>
fallbackVars == <<in_string, unclosed_string, error, quote, nonescape>>
kernelVars   == <<kernel, vars, fallbackVars>>

(* The fallback kernel has no blocks; and what is behind the text matters   *)
(* to the fallback only.                                                    *)
KernelsInit == /\ kernel \in {"vector", "fallback"}
               /\ \E job \in Jobs : task = job[1] /\ text = job[2]
               /\ behind \in IF kernel = "fallback" THEN Behinds ELSE {Space}
               /\ Init
               /\ Fallback!Init
               /\ kernel = "fallback" => step_size = Width

KernelsNext == \/ kernel = "vector" /\ Next /\ UNCHANGED <<kernel, fallbackVars>>
               \/ kernel = "fallback" /\ Fallback!Next
                    /\ UNCHANGED <<kernel, vectorVars>>

KernelsSpec == KernelsInit /\ [][KernelsNext]_kernelVars

-----------------------------------------------------------------------------
(* Each kernel gives the answers that the library promises for any of them. *)
KernelsKeepPromise == Promise!Spec

(* A window that ends in a character of four bytes with two of them: the    *)
(* fallback takes it for an error, and does not keep the promise.           *)
CutInTheMiddle(t) == Len(t) > 1 /\ t[Len(t) - 1] >= 240
Settled == kernel = "fallback" /\ task = "streaming_partial"
             => ~CutInTheMiddle(text)

(* Stage 1 of the vector kernels is exact where the promise leaves room.    *)
VectorIsExact == kernel = "vector" => VectorStage1IsExact
=============================================================================
