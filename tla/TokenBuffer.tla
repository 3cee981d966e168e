---------------------------- MODULE TokenBuffer ----------------------------
(***************************************************************************)
(* The parser's way to its tokens: the lexer that is called ahead of it,   *)
(* the growing buffer with its cursor, and the driver (current, previous,  *)
(* looking ahead, expecting, skipping to recover from a syntax error).     *)
(*                                                                         *)
(* A text is its tokens and whether white space or a comment follows the   *)
(* last of them.  Only then does the lexer, asked once more, find that     *)
(* nothing is left; otherwise it is done with the last token.              *)
(***************************************************************************)
EXTENDS Naturals, Sequences

CONSTANTS Kind, Eof,
          FirstKind,      \* the kind numbered 0, of a token set to zeros
          Texts, Pairs,   \* the texts, and the pairs of kinds looked for
          Sought,         \* the sets of kinds that recovery skips to
          FirstWindow,    \* the window of parser_create
          CursorLimit     \* bound: the calls of next

ASSUME BufferAssumption ==
    /\ FirstKind \in Kind
    /\ Eof \notin Kind
    /\ Texts \subseteq [tokens : Seq(Kind), trailing : BOOLEAN]
    /\ Pairs \subseteq Kind \X Kind
    /\ Sought \subseteq SUBSET Kind
    /\ FirstWindow \in Nat
    /\ FirstWindow >= 2
    /\ CursorLimit \in Nat

VARIABLES
    text,      \* the text that is parsed
    p,         \* the parser, its buffer and its lexer
    answer,    \* what the last call returned
    skip       \* the arguments of skip_until_one_of while it runs

vars == <<text, p, answer, skip>>

Token == Kind \cup {Eof}

\* lexed: how far the lexer is.  outside: has a token been read that is not in
\* the buffer?
Parser == [tokens : Seq(Token), lexed : Nat, cursor : Nat,
           current : Token, previous : Token, outside : BOOLEAN]

NotSkipping == [kinds |-> {}, past |-> FALSE, on |-> FALSE]

-----------------------------------------------------------------------------
(* The lexer: one token a call, then the end of file.                       *)

TextAt(n) == IF n <= Len(text.tokens) THEN text.tokens[n] ELSE Eof

\* How far the lexer gets: trailing white space takes a call of its own.
End == IF text.trailing THEN Len(text.tokens) + 1 ELSE Len(text.tokens)

TypeOK ==
    /\ text \in Texts
    /\ p \in Parser
    /\ p.lexed <= End
    /\ answer \in BOOLEAN
    /\ skip \in [kinds : Sought \cup {{}}, past : BOOLEAN, on : BOOLEAN]

LexerIsDone(q) == q.lexed = End

\* Fault: the lexer loses count of its content.
LexedBeyond(q, n) ==
    [q EXCEPT !.tokens = @ \o [i \in 1 .. n |-> TextAt(q.lexed + i)],
              !.lexed = @ + n]

\* Fault: it is not called any more once it is done.
LexedUntilDone(q, n) ==
    LET m == IF q.lexed + n <= End THEN n ELSE End - q.lexed
    IN [q EXCEPT !.tokens = @ \o [i \in 1 .. m |-> TextAt(q.lexed + i)],
                 !.lexed = @ + m]

\* n calls of lexer_next_token.
Lexed(q, n) ==
    [q EXCEPT !.tokens = @ \o [i \in 1 .. n |-> TextAt(q.lexed + i)],
              !.lexed = IF q.lexed + n <= End THEN q.lexed + n ELSE End]

-----------------------------------------------------------------------------
(* The buffer.                                                              *)

\* Fault: a window that just fits is taken to be there.
PreparedLate(q, window) ==
    IF LexerIsDone(q) \/ q.cursor + window <= Len(q.tokens) THEN q
    ELSE Lexed(q, 2 * (q.cursor + window))

Prepared(q, window) ==
    IF LexerIsDone(q) \/ q.cursor + window < Len(q.tokens) THEN q
    ELSE Lexed(q, 2 * (q.cursor + window))

\* Fault: the lexer alone is asked.
TrulyDoneWhenLexed(q) == LexerIsDone(q)

TrulyDone(q) == LexerIsDone(q) /\ q.cursor >= Len(q.tokens)

\* What peek does to the buffer,
Refilled(q, ahead) ==
    IF TrulyDone(q) \/ q.cursor + ahead < Len(q.tokens) THEN q
    ELSE Prepared(q, ahead)

\* whether it reads a token that is not there,
ReadsOutside(q, ahead) ==
    IF TrulyDone(q) THEN q.tokens = <<>>
    ELSE q.cursor + ahead >= Len(Refilled(q, ahead).tokens)

\* and what it may return.
Peeked(q, ahead) ==
    IF ReadsOutside(q, ahead) THEN Token
    ELSE IF TrulyDone(q) THEN {q.tokens[Len(q.tokens)]}
    ELSE {Refilled(q, ahead).tokens[q.cursor + ahead + 1]}

AfterPeek(q, ahead) ==
    [Refilled(q, ahead) EXCEPT !.outside = @ \/ ReadsOutside(q, ahead)]

-----------------------------------------------------------------------------
(* The driver.                                                              *)

\* What next may make of the parser.
Moved(q) ==
    LET a == [q EXCEPT !.cursor = @ + 1, !.previous = q.current]
    IN {Prepared([AfterPeek(a, 0) EXCEPT !.current = t], 2) : t \in Peeked(a, 0)}

Zeroed == [tokens |-> <<>>, lexed |-> 0, cursor |-> 0, current |-> FirstKind,
           previous |-> FirstKind, outside |-> FALSE]

\* parser_create.
Created ==
    LET q == Prepared(Zeroed, FirstWindow)
    IN {[AfterPeek(q, 0) EXCEPT !.current = t] : t \in Peeked(q, 0)}

Init ==
    /\ text \in Texts
    /\ p \in Created
    /\ answer = FALSE
    /\ skip = NotSkipping

\* Fault: only the current token tells.
IsDoneAtEof == p.current = Eof

IsDone == p.current = Eof \/ p.previous = Eof \/ TrulyDone(p)

Calling == ~skip.on /\ p.cursor < CursorLimit

NextToken ==
    /\ Calling
    /\ p' \in Moved(p)
    /\ UNCHANGED <<text, answer, skip>>

\* equals_sequence of two kinds: the second is looked at if the first is there.
Look(pair) ==
    /\ Calling
    /\ \E first \in Peeked(p, 0), second \in Peeked(AfterPeek(p, 0), 1) :
           answer' = (pair = <<first, second>>)
    /\ p' = IF pair[1] \in Peeked(p, 0) THEN AfterPeek(AfterPeek(p, 0), 1)
            ELSE AfterPeek(p, 0)
    /\ UNCHANGED <<text, skip>>

EatSequence(pair) ==
    /\ Calling
    /\ pair[1] \in Peeked(p, 0)
    /\ pair[2] \in Peeked(AfterPeek(p, 0), 1)
    /\ answer' = TRUE
    /\ \E q \in Moved(AfterPeek(AfterPeek(p, 0), 1)) : p' \in Moved(q)
    /\ UNCHANGED <<text, skip>>

\* expect, which reports an error, and try_expect, which does not.
Expect(kind) ==
    /\ Calling
    /\ answer' = (p.current = kind)
    /\ IF p.current = kind THEN p' \in Moved(p) ELSE p' = p
    /\ UNCHANGED <<text, skip>>

SkipUntilOneOf(kinds, past) ==
    /\ Calling
    /\ skip' = [kinds |-> kinds, past |-> past, on |-> TRUE]
    /\ UNCHANGED <<text, p, answer>>

\* One round of its loop.  A kind that is found stops it only if it is to be
\* skipped too.
SkipStep ==
    /\ skip.on
    /\ ~IsDone
    /\ p.cursor < CursorLimit
    /\ p' \in Moved(p)
    /\ IF skip.past /\ p.current \in skip.kinds
       THEN answer' = TRUE /\ skip' = NotSkipping
       ELSE UNCHANGED <<answer, skip>>
    /\ UNCHANGED text

SkipEnd ==
    /\ skip.on
    /\ IsDone
    /\ answer' = FALSE
    /\ skip' = NotSkipping
    /\ UNCHANGED <<text, p>>

\* The bound on the cursor, or a parser that is done, stops the model.
Rest ==
    /\ ~skip.on
    /\ IsDone \/ p.cursor = CursorLimit
    /\ UNCHANGED vars

Next ==
    \/ NextToken
    \/ \E pair \in Pairs : Look(pair) \/ EatSequence(pair)
    \/ \E kind \in Kind : Expect(kind)
    \/ \E kinds \in Sought, past \in BOOLEAN : SkipUntilOneOf(kinds, past)
    \/ SkipStep \/ SkipEnd
    \/ Rest

Spec == Init /\ [][Next]_vars

\* The loop of skip_until_one_of runs on: nothing else does meanwhile.
FairSpec == Spec /\ WF_vars(SkipStep) /\ WF_vars(SkipEnd)

-----------------------------------------------------------------------------
(* Properties                                                               *)

\* After every call the window that advance prepares is there, so that the two
\* tokens a look ahead needs never depend on how far the lexer happens to be.
WindowIsAhead == LexerIsDone(p) \/ p.cursor + 2 < Len(p.tokens)

\* How many tokens the buffer holds after n more calls of the lexer's loop: it
\* makes twice the first window, then always twice what there is.
Brim[n \in Nat] == IF n = 0 THEN 2 * FirstWindow ELSE 3 * Brim[n - 1]

\* A text for which the buffer has no token for the end of file: it ends, without
\* white space, where a buffer is full.
CutShort(t) ==
    /\ ~t.trailing
    /\ \/ t.tokens = <<>>
       \/ \E n \in 0 .. Len(t.tokens) : Len(t.tokens) = Brim[n]

\* peek never reads a token that is not in the buffer, unless the text ends
\* without white space where the buffer does.
InsideTheBuffer == p.outside => CutShort(text)

Stream == INSTANCE TokenStream WITH taken <- p.cursor, token <- p.current

\* Whatever the lexer has been asked for in advance, the parser sees the text's
\* tokens in order, each once, then the end of file; looks ahead exactly; and
\* recovers behind a token it looked for or at the end of the text.
ImplementsStream == Stream!Spec

\* Recovery from a syntax error ends, for a text cut short too.
SkippingEnds == skip.on ~> ~skip.on

\* "eof" (token_buffer.cc:50): when lexer and buffer are exhausted, the token is
\* the end of file (in any text that has a token).
EndIsEof == TrulyDone(p) /\ text.tokens # <<>> => p.current = Eof
=============================================================================
