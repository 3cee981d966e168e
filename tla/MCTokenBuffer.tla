--------------------------- MODULE MCTokenBuffer ---------------------------
(***************************************************************************)
(* A first window of 2 fills the buffer with 4 tokens, then 12.  The texts *)
(* are all of up to three tokens, and of each length around the brims the  *)
(* repetitions of a few patterns.                                          *)
(***************************************************************************)
EXTENDS TokenBuffer, SequencesExt

CONSTANTS plus, name, colon, semicolon

Repeated(pattern, n) ==
    [i \in 1 .. n |-> pattern[((i - 1) % Len(pattern)) + 1]]

Patterns == {<<name, colon>>, <<colon, name>>, <<name, name, semicolon>>,
             <<colon, colon, colon, name>>}

Bodies == BoundedSeq({name, colon, semicolon}, 3)
          \cup {Repeated(pattern, n) : pattern \in Patterns, n \in {4, 5, 11, 12, 13}}

MCPairs == {<<name, colon>>, <<semicolon, name>>}

AllTexts == [tokens : Bodies, trailing : BOOLEAN]
=============================================================================
