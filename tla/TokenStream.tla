---------------------------- MODULE TokenStream ----------------------------
(***************************************************************************)
(* What the token buffer promises the parser: the tokens of the text, one  *)
(* after the other, then the end of file for ever; and a look at the next  *)
(* two of them that changes nothing.  There is no buffer in it and no      *)
(* window.                                                                 *)
(*                                                                         *)
(* One case is carved out.  A text is cut short when it has no white space *)
(* behind its last token and that token is the last one of a buffer filled *)
(* to the brim: the buffer then has no token for the end of file.          *)
(***************************************************************************)
EXTENDS Naturals, Sequences

CONSTANTS Kind, Eof,
          CutShort(_)        \* of a text

VARIABLES text, taken, token, answer

vars == <<text, taken, token, answer>>

Tokens == text.tokens
Token == Kind \cup {Eof}

\* What the token number n may be, counting from 0.
Seen(n) ==
    IF n < Len(Tokens) THEN {Tokens[n + 1]}
    ELSE IF ~CutShort(text) THEN {Eof}
    ELSE IF Tokens = <<>> THEN Token ELSE {Tokens[Len(Tokens)]}

\* What lies n tokens ahead: nobody knows at the last token of a text cut short.
Ahead(n) == IF CutShort(text) /\ taken + 1 = Len(Tokens) /\ n = 1
            THEN Token ELSE Seen(taken + n)

Take ==
    /\ taken' = taken + 1
    /\ token' \in Seen(taken + 1)
    /\ UNCHANGED text

Look(pair) ==
    /\ \E first \in Ahead(0), second \in Ahead(1) :
           answer' = (pair = <<first, second>>)
    /\ UNCHANGED <<text, taken, token>>

EatPair(pair) ==
    /\ \E first \in Ahead(0), second \in Ahead(1) : pair = <<first, second>>
    /\ answer' = TRUE
    /\ taken' = taken + 2
    /\ token' \in Seen(taken + 2)
    /\ UNCHANGED text

Expect(kind) == answer' = (token = kind) /\ IF token = kind THEN Take
                                            ELSE UNCHANGED <<text, taken, token>>

\* Recovery gives up at the end of the text only.
GiveUp ==
    /\ taken >= Len(Tokens)
    /\ answer' = FALSE
    /\ UNCHANGED <<text, taken, token>>

Next ==
    \/ Take /\ UNCHANGED answer
    \/ \E pair \in Kind \X Kind : Look(pair) \/ EatPair(pair)
    \/ \E kind \in Kind : Expect(kind)
    \/ GiveUp

Init == taken = 0 /\ token \in Seen(0) /\ answer = FALSE

Spec == Init /\ [][Next]_vars
=============================================================================
