--------------------------- MODULE StreamContract ---------------------------
(***************************************************************************)
(* What parse_many promises about a text that consists of documents, and   *)
(* possibly ends in an incomplete one: the documents come out one by one,  *)
(* in the order of the text and whole; the stream ends when all are out,   *)
(* and reports how many bytes at the end it did not parse.  For a reason   *)
(* it may stop with an error instead, it may run out of memory, and its    *)
(* user may abandon it.  Of a malformed text the stream may leave out      *)
(* documents, but it never changes one, and it does not end as if it had   *)
(* parsed everything.  It does not promise a number of bytes for no input. *)
(***************************************************************************)
EXTENDS SequencesExt, Naturals

CONSTANTS Promised(_),  \* the documents of a text, in order
          Unparsed(_),  \* the number of bytes from the first token behind them
          Sound(_),     \* whether those bytes only are an incomplete document
          MayFail(_, _) \* whether a stream over the text may end with an error, with
                        \* a batch size

VARIABLES text,      \* the input
          batch_size,
          out,       \* the documents handed out so far
          status,    \* "open", "complete", "failed", "exhausted" or "abandoned"
          truncated  \* the bytes reported as not parsed, once complete

svars == <<text, batch_size, out, status, truncated>>

Init == /\ out = <<>>
        /\ status = "open"
        /\ truncated = 0

Deliver == /\ status = "open"
           /\ Len(out') = Len(out) + 1
           /\ IsPrefix(out, out')
           /\ IsPrefix(out', Promised(text))
           /\ UNCHANGED <<text, batch_size, status, truncated>>

Complete == /\ status = "open"
            /\ status' = "complete"
            /\ Sound(text) => out = Promised(text)
            /\ Sound(text) /\ text # <<>> => truncated' = Unparsed(text)
            /\ ~Sound(text) => truncated' \in Nat \ {0}
            /\ UNCHANGED <<text, batch_size, out>>

Stop == /\ status = "open"
        /\ \/ status' = "failed" /\ MayFail(text, batch_size)
           \/ status' \in {"exhausted", "abandoned"}
        /\ UNCHANGED <<text, batch_size, out, truncated>>

Next == Deliver \/ Complete \/ Stop

Spec == Init /\ [][Next]_svars
=============================================================================
