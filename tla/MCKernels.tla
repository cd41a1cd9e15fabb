----------------------------- MODULE MCKernels -----------------------------
(* Texts for the kernels: blocks of four bytes. *)
EXTENDS Kernels

Strings(alphabet, lengths) == UNION {[1..n -> alphabet] : n \in lengths}

LetterA == 97
Newline == 10
FormFeed == 12
Open    == 91
Close   == 93

(* Every short text; every row of quotes and backslashes over three blocks. *)
ShortTexts(lengths) == Strings({Quote, Backslash, Open, LetterA, Space}, lengths)
EscapeTexts == Strings({Quote, Backslash}, 6..9)
            \cup {<<LetterA>> \o t : t \in Strings({Quote, Backslash}, 8..8)}

(* Documents next to each other, strings over the end of a block, control   *)
(* characters.                                                              *)
Tokens == {<<Open, LetterA, Close>>, <<Quote, LetterA, Open, Quote>>, <<Space, Space>>,
           <<Quote, Newline>>, <<Newline, Open>>, <<LetterA, FormFeed>>,
           <<Quote, Backslash>>, <<FormFeed, Quote>>,
           <<LetterA, LetterA, LetterA, LetterA>>}
TokenTexts == {a \o b \o c : a \in Tokens, b \in Tokens, c \in Tokens}

(* UTF-8: the bounds of each range of first and second bytes, alone and in  *)
(* front of two more bytes, at every position of a block; characters of     *)
(* every length and broken ones, with a block of ASCII between them.        *)
FirstBytes  == {0, 127, 128, 191, 192, 193, 194, 223, 224, 225, 236, 237, 238,
                239, 240, 241, 243, 244, 245, 247, 248, 255}
SecondBytes == {34, 127, 128, 143, 144, 159, 160, 191, 192}
Rest == {<<>>, <<128>>, <<191, 128>>, <<128, 65>>, <<128, 128, 128>>}
PairTexts == {<<a, b>> \o r : a \in FirstBytes, b \in SecondBytes, r \in Rest}

Characters == {<<LetterA>>, <<195, 169>>, <<226, 130, 172>>, <<240, 159, 152, 128>>,
               <<195>>, <<226, 130>>, <<240, 159, 152>>, <<128>>,
               <<LetterA, LetterA, LetterA, LetterA>>}
CharacterTexts == {a \o b \o c \o d : a \in Characters, b \in Characters,
                                      c \in Characters, d \in Characters}

(* Characters in strings, that a window may cut. *)
Utf8Strings ==
    LET Whole == {<<Open, Close, Quote>> \o a \o b \o <<Quote>> :
                    a \in Characters \cup {<<Backslash>>}, b \in Characters}
    IN  UNION {{SubSeq(t, 1, n) : n \in 4..Len(t)} : t \in Whole}

(* And outside strings, where no window may cut them. *)
CharacterPairs == {a \o b : a \in Characters, b \in Characters}

Streams == {"streaming_partial", "streaming_final"}
MCJobs == ({"minify"} \cup Streams) \X ShortTexts(0..5)
      \cup {"regular"} \X ShortTexts(0..6)
      \cup {"regular", "minify"} \X (EscapeTexts \cup TokenTexts)
      \cup Streams \X TokenTexts
      \cup {"validate"} \X (PairTexts \cup CharacterTexts \cup Strings({LetterA}, 0..9))
      \cup ({"regular"} \cup Streams) \X (Utf8Strings \cup CharacterPairs)

MCInit == KernelsInit /\ Settled
MCSpec == MCInit /\ [][KernelsNext]_kernelVars
=============================================================================
