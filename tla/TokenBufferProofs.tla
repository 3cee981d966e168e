------------------------- MODULE TokenBufferProofs -------------------------
(***************************************************************************)
(* For every text and every first window: the buffer holds the text from   *)
(* its start on, the window of advance is there after every call, nothing  *)
(* outside it is read unless the text is cut short, and the parser sees    *)
(* the stream of tokens.                                                   *)
(***************************************************************************)
EXTENDS TokenBuffer, SequenceLemmas

\* The token under index i is the i-th of the text,
Filled(q) == \A i \in 1 .. Len(q.tokens) : q.tokens[i] = TextAt(i)

\* and the lexer is as far as the buffer, or done.
Counted(q) == q.lexed = IF Len(q.tokens) <= End THEN Len(q.tokens) ELSE End

Ready(q) == q \in Parser /\ Filled(q) /\ Counted(q)

Window(q) == LexerIsDone(q) \/ q.cursor + 2 < Len(q.tokens)

\* How much is in the buffer: it is filled to its brim, and to one that the text
\* does not fall short of if it is cut short.
Brimful(q) ==
    /\ \/ Len(q.tokens) = 0 /\ End = 0
       \/ \E n \in Nat : Len(q.tokens) = Brim[n]
    /\ CutShort(text) => Len(q.tokens) <= Len(text.tokens)

\* What the driver holds is what the stream shows.
Placed(q) ==
    /\ q.outside => CutShort(text)
    /\ q.current \in Stream!Seen(q.cursor)
    /\ q.previous = Eof => q.cursor >= Len(text.tokens)

Sound(q) == Ready(q) /\ Window(q) /\ Brimful(q) /\ Placed(q)

CallsInv == answer \in BOOLEAN
            /\ skip \in [kinds : Sought \cup {{}}, past : BOOLEAN, on : BOOLEAN]

IInv == text \in Texts /\ Sound(p) /\ CallsInv

-----------------------------------------------------------------------------
(* The text and the lexer.                                                  *)

\* The text has a length, an end for the lexer and a token at every index.
LEMMA TextFacts ==
    ASSUME text \in Texts
    PROVE  /\ text.tokens \in Seq(Kind)
           /\ text.trailing \in BOOLEAN
           /\ Len(text.tokens) \in Nat
           /\ End \in Nat
           /\ End >= Len(text.tokens)
           /\ text.trailing => End > Len(text.tokens)
           /\ \A n \in Nat \ {0} : TextAt(n) \in Token
           /\ \A n \in Nat : n > Len(text.tokens) => TextAt(n) = Eof
           /\ \A n \in Nat \ {0} : n <= Len(text.tokens) => TextAt(n) # Eof
<1>1. text \in [tokens : Seq(Kind), trailing : BOOLEAN]
    BY BufferAssumption
<1>2. /\ text.tokens \in Seq(Kind)
      /\ text.trailing \in BOOLEAN
      /\ Len(text.tokens) \in Nat
    BY <1>1
<1>3. End \in Nat /\ End >= Len(text.tokens)
      /\ (text.trailing => End > Len(text.tokens))
    BY <1>2 DEF End
<1>4. ASSUME NEW n \in Nat \ {0}
      PROVE  /\ TextAt(n) \in Token
             /\ n <= Len(text.tokens) => TextAt(n) # Eof
    <2>1. CASE n <= Len(text.tokens)
        <3>1. text.tokens[n] \in Kind
            BY <1>2, <2>1
        <3> QED BY <2>1, <3>1, BufferAssumption DEF TextAt, Token
    <2>2. CASE ~(n <= Len(text.tokens))
        BY <2>2 DEF TextAt, Token
    <2> QED BY <2>1, <2>2
<1>5. ASSUME NEW n \in Nat, n > Len(text.tokens)
      PROVE  TextAt(n) = Eof
    BY <1>2, <1>5 DEF TextAt
<1> QED BY <1>2, <1>3, <1>4, <1>5

\* Lexing on appends the tokens that come next in the text.
LEMMA LexedFacts ==
    ASSUME text \in Texts, NEW q, Ready(q), ~LexerIsDone(q), NEW n \in Nat
    PROVE  /\ Ready(Lexed(q, n))
           /\ Len(Lexed(q, n).tokens) = Len(q.tokens) + n
           /\ Lexed(q, n).cursor = q.cursor
           /\ Lexed(q, n).current = q.current
           /\ Lexed(q, n).previous = q.previous
           /\ Lexed(q, n).outside = q.outside
<1> DEFINE more == [i \in 1 .. n |-> TextAt(q.lexed + i)]
           far == IF q.lexed + n <= End THEN q.lexed + n ELSE End
           r == [q EXCEPT !.tokens = q.tokens \o more, !.lexed = far]
<1>1. q \in Parser /\ q.tokens \in Seq(Token) /\ q.lexed \in Nat
    BY DEF Ready, Parser
<1>2. Len(q.tokens) \in Nat
    BY <1>1
<1>3. q.lexed = Len(q.tokens) /\ q.lexed < End /\ End \in Nat
    BY <1>2, TextFacts DEF Ready, Counted, LexerIsDone
<1>4. more \in Seq(Token) /\ Len(more) = n
    <2>1. \A i \in 1 .. n : TextAt(q.lexed + i) \in Token
        <3>1. \A i \in 1 .. n : q.lexed + i \in Nat \ {0}
            BY <1>1
        <3> QED BY <3>1, TextFacts
    <2>2. more \in [1 .. n -> Token]
        BY <2>1
    <2> QED BY <2>2
<1>5. Lexed(q, n) = r
    BY DEF Lexed
<1>a. far \in Nat /\ far = IF Len(q.tokens) + n <= End THEN Len(q.tokens) + n ELSE End
    BY <1>3
<1> HIDE DEF more, far
<1>6. q.tokens \o more \in Seq(Token) /\ Len(q.tokens \o more) = Len(q.tokens) + n
    BY <1>1, <1>4
<1>7. /\ r.tokens = q.tokens \o more
      /\ r.lexed = far
      /\ r.cursor = q.cursor
      /\ r.current = q.current
      /\ r.previous = q.previous
      /\ r.outside = q.outside
      /\ r \in Parser
    BY <1>1, <1>6, <1>a DEF Parser
<1> HIDE DEF r
<1>8. Counted(r)
    BY <1>a, <1>6, <1>7 DEF Counted
<1>9. Filled(r)
    <2> SUFFICES ASSUME NEW i \in 1 .. Len(q.tokens) + n
                 PROVE  (q.tokens \o more)[i] = TextAt(i)
        BY <1>6, <1>7 DEF Filled
    <2>1. CASE i <= Len(q.tokens)
        <3>1. (q.tokens \o more)[i] = q.tokens[i]
            BY <1>1, <1>2, <1>4, <2>1
        <3>2. i \in 1 .. Len(q.tokens)
            BY <1>2, <2>1
        <3> QED BY <3>1, <3>2 DEF Ready, Filled
    <2>2. CASE i > Len(q.tokens)
        <3>1. (q.tokens \o more)[i] = more[i - Len(q.tokens)]
            BY <1>1, <1>2, <1>4, <2>2
        <3>2. i - Len(q.tokens) \in 1 .. n
            BY <1>2, <2>2
        <3>3. more[i - Len(q.tokens)] = TextAt(q.lexed + (i - Len(q.tokens)))
            BY <3>2 DEF more
        <3>4. q.lexed + (i - Len(q.tokens)) = i
            BY <1>2, <1>3
        <3> QED BY <3>1, <3>3, <3>4
    <2>3. i <= Len(q.tokens) \/ i > Len(q.tokens)
        BY <1>2
    <2> QED BY <2>1, <2>2, <2>3
<1> QED BY <1>5, <1>6, <1>7, <1>8, <1>9 DEF Ready

\* A lexer that is done has filled the buffer to the end of the text.
LEMMA DoneFacts ==
    ASSUME text \in Texts, NEW q, Ready(q), LexerIsDone(q)
    PROVE  Len(q.tokens) >= End
<1>1. Len(q.tokens) \in Nat
    BY DEF Ready, Parser
<1> QED BY <1>1, TextFacts DEF Ready, Counted, LexerIsDone

-----------------------------------------------------------------------------
(* The buffer.                                                              *)

\* Preparing a window leaves the parser's place alone, and the window is there
\* afterwards unless the lexer is done.
LEMMA PreparedFacts ==
    ASSUME text \in Texts, NEW q, Ready(q), NEW w \in Nat
    PROVE  /\ Ready(Prepared(q, w))
           /\ Prepared(q, w).cursor = q.cursor
           /\ Prepared(q, w).current = q.current
           /\ Prepared(q, w).previous = q.previous
           /\ Prepared(q, w).outside = q.outside
           /\ LexerIsDone(q) => Prepared(q, w) = q
           /\ q.cursor + w < Len(q.tokens) => Prepared(q, w) = q
           /\ q.cursor + w # 0 =>
                  \/ LexerIsDone(Prepared(q, w))
                  \/ q.cursor + w < Len(Prepared(q, w).tokens)
           /\ ~LexerIsDone(q) /\ q.cursor + w >= Len(q.tokens) =>
                  Len(Prepared(q, w).tokens) = Len(q.tokens) + 2 * (q.cursor + w)
<1>1. q.cursor \in Nat /\ Len(q.tokens) \in Nat
    BY DEF Ready, Parser
<1>2. CASE LexerIsDone(q) \/ q.cursor + w < Len(q.tokens)
    <2>1. Prepared(q, w) = q
        BY <1>2 DEF Prepared
    <2> QED BY <1>1, <1>2, <2>1
<1>3. CASE ~LexerIsDone(q) /\ ~(q.cursor + w < Len(q.tokens))
    <2> DEFINE n == 2 * (q.cursor + w)
    <2>1. Prepared(q, w) = Lexed(q, n)
        BY <1>3 DEF Prepared
    <2>2. n \in Nat
        BY <1>1
    <2>3. Len(Lexed(q, n).tokens) = Len(q.tokens) + n
        BY <1>3, <2>2, LexedFacts
    <2>4. q.cursor + w # 0 => q.cursor + w < Len(q.tokens) + n
        BY <1>1
    <2>5. /\ Ready(Lexed(q, n))
          /\ Lexed(q, n).cursor = q.cursor
          /\ Lexed(q, n).current = q.current
          /\ Lexed(q, n).previous = q.previous
          /\ Lexed(q, n).outside = q.outside
        BY <1>3, <2>2, LexedFacts
    <2> HIDE DEF n
    <2>6. Len(Prepared(q, w).tokens) = Len(q.tokens) + 2 * (q.cursor + w)
        BY <2>1, <2>3 DEF n
    <2> QED BY <1>3, <2>1, <2>3, <2>4, <2>5, <2>6
<1> QED BY <1>2, <1>3

-----------------------------------------------------------------------------
(* Brims.                                                                   *)

\* The recursive function exists and does what it says.
LEMMA BrimIs ==
    /\ Brim \in [Nat -> Nat]
    /\ Brim[0] = 2 * FirstWindow
    /\ \A n \in Nat : Brim[n + 1] = 3 * Brim[n]
<1> DEFINE T == Nat
           s == [m \in Nat |-> 3 * m]
           start == 2 * FirstWindow
           B == CHOOSE f : f = [n \in Nat |->
                                  IF n = 0 THEN 2 * FirstWindow ELSE 3 * f[n - 1]]
<1>1. start \in T /\ s \in [T -> T]
    BY BufferAssumption
<1> HIDE DEF T, s, start, B
<1>2. PICK f \in [Nat -> T] : f[0] = start /\ \A n \in Nat : f[n + 1] = s[f[n]]
    BY <1>1, Iteration
<1>3. ASSUME NEW n \in Nat
      PROVE  f[n] = IF n = 0 THEN 2 * FirstWindow ELSE 3 * f[n - 1]
    <2>1. CASE n = 0
        BY <1>2, <2>1 DEF start
    <2>2. CASE n # 0
        <3>1. n - 1 \in Nat /\ n - 1 + 1 = n
            BY <2>2
        <3>2. f[n] = s[f[n - 1]] /\ f[n - 1] \in Nat
            BY <1>2, <3>1 DEF T
        <3>3. f[n] = 3 * f[n - 1]
            BY <3>2 DEF s
        <3> QED BY <2>2, <3>3
    <2> QED BY <2>1, <2>2
<1>4. f = [n \in Nat |-> IF n = 0 THEN 2 * FirstWindow ELSE 3 * f[n - 1]]
    BY <1>3
<1>5. B = [n \in Nat |-> IF n = 0 THEN 2 * FirstWindow ELSE 3 * B[n - 1]]
    BY <1>4 DEF B
<1>6. Brim = B
    BY DEF Brim, B
<1>7. /\ Brim[0] = 2 * FirstWindow
      /\ \A n \in Nat : Brim[n + 1] = 3 * Brim[n]
    BY <1>5, <1>6
<1>8. DOMAIN Brim = Nat /\ Brim = [n \in Nat |-> Brim[n]]
    BY <1>5, <1>6
<1> DEFINE S == {n \in Nat : Brim[n] \in Nat}
<1>9. 0 \in S
    BY <1>1, <1>7 DEF T, start
<1>10. \A n \in Nat : n \in S => n + 1 \in S
    BY <1>7
<1> HIDE DEF S
<1>11. \A n \in Nat : n \in S
    BY <1>9, <1>10, SetInduction
<1>12. \A n \in Nat : Brim[n] \in Nat
    BY <1>11 DEF S
<1>13. Brim \in [Nat -> Nat]
    BY <1>8, <1>12
<1> QED BY <1>7, <1>13

\* There are brims beyond every length, and they grow.
LEMMA BrimGrows ==
    /\ \A n \in Nat : Brim[n] > n
    /\ \A m, n \in Nat : m <= n => Brim[m] <= Brim[n]
<1> DEFINE S == {n \in Nat : Brim[n] > n /\ \A m \in 0 .. n : Brim[m] <= Brim[n]}
<1>1. 0 \in S
    <2>1. Brim[0] \in Nat /\ Brim[0] > 0
        BY BrimIs, BufferAssumption
    <2>2. \A m \in 0 .. 0 : m = 0
        OBVIOUS
    <2> QED BY <2>1, <2>2
<1>2. ASSUME NEW n \in Nat, n \in S
      PROVE  n + 1 \in S
    <2>1. Brim[n] > n /\ \A m \in 0 .. n : Brim[m] <= Brim[n]
        BY <1>2
    <2>2. Brim[n] \in Nat /\ Brim[n + 1] \in Nat /\ Brim[n + 1] = 3 * Brim[n]
        BY BrimIs
    <2>3. Brim[n + 1] > n + 1 /\ Brim[n + 1] >= Brim[n]
        BY <2>1, <2>2
    <2>4. ASSUME NEW m \in 0 .. n + 1
          PROVE  Brim[m] <= Brim[n + 1]
        <3>1. CASE m = n + 1
            BY <2>2, <3>1
        <3>2. CASE m # n + 1
            <4>1. m \in 0 .. n
                BY <3>2
            <4>2. Brim[m] \in Nat /\ Brim[m] <= Brim[n]
                BY <2>1, <4>1, BrimIs
            <4> QED BY <2>2, <2>3, <4>2
        <3> QED BY <3>1, <3>2
    <2> QED BY <2>3, <2>4
<1> HIDE DEF S
<1>3. \A n \in Nat : n \in S
    BY <1>1, <1>2, SetInduction
<1> QED BY <1>3 DEF S

\* No brim is between one and the next.
LEMMA BrimOrder ==
    ASSUME NEW m \in Nat, NEW n \in Nat, Brim[m] < Brim[n]
    PROVE  Brim[m + 1] <= Brim[n]
<1>1. Brim[m] \in Nat /\ Brim[n] \in Nat
    BY BrimIs
<1>2. ~(n <= m)
    BY <1>1, BrimGrows
<1>3. m + 1 \in Nat /\ m + 1 <= n
    BY <1>2
<1> QED BY <1>3, BrimGrows

\* A text cut short is as long as a brim, and none of its tokens is left out.
LEMMA CutShortFacts ==
    ASSUME text \in Texts, CutShort(text)
    PROVE  /\ End = Len(text.tokens)
           /\ Len(text.tokens) # 0 => \E n \in Nat : Len(text.tokens) = Brim[n]
<1>1. text.tokens \in Seq(Kind) /\ Len(text.tokens) \in Nat
    BY TextFacts
<1> QED BY <1>1 DEF CutShort, End

\* Filling a buffer up to three times what it held fills it to the next brim.
LEMMA BrimStep ==
    ASSUME text \in Texts, NEW q, Ready(q), Brimful(q), ~LexerIsDone(q),
           NEW r, Len(r.tokens) = 3 * Len(q.tokens)
    PROVE  Brimful(r)
<1>1. /\ Len(q.tokens) \in Nat
      /\ End \in Nat
    BY TextFacts DEF Ready, Parser
<1>2. Len(q.tokens) < End
    BY <1>1 DEF Ready, Counted, LexerIsDone
<1>3. PICK n \in Nat : Len(q.tokens) = Brim[n]
    BY <1>1, <1>2 DEF Brimful
<1>4. Len(r.tokens) = Brim[n + 1] /\ n + 1 \in Nat
    BY <1>3, BrimIs
<1>5. ASSUME CutShort(text)
      PROVE  Len(r.tokens) <= Len(text.tokens)
    <2>1. End = Len(text.tokens) /\ Len(text.tokens) # 0
        BY <1>1, <1>2, <1>5, CutShortFacts
    <2>2. PICK k \in Nat : Len(text.tokens) = Brim[k]
        BY <1>5, <2>1, CutShortFacts
    <2>3. Brim[n] < Brim[k]
        BY <1>2, <1>3, <2>1, <2>2
    <2> QED BY <1>4, <2>2, <2>3, BrimOrder
<1> QED BY <1>4, <1>5 DEF Brimful

\* Unless the text is cut short a lexer that is done has put the end of file
\* into the buffer.
LEMMA EndIsInside ==
    ASSUME text \in Texts, NEW q, Ready(q), Brimful(q), LexerIsDone(q)
    PROVE  /\ Len(q.tokens) >= Len(text.tokens)
           /\ ~CutShort(text) => Len(q.tokens) > Len(text.tokens)
           /\ CutShort(text) => Len(q.tokens) = Len(text.tokens)
<1>1. /\ Len(q.tokens) \in Nat
      /\ text.tokens \in Seq(Kind) /\ Len(text.tokens) \in Nat
      /\ text.trailing \in BOOLEAN
      /\ End \in Nat /\ End >= Len(text.tokens)
      /\ text.trailing => End > Len(text.tokens)
    BY TextFacts DEF Ready, Parser
<1>2. Len(q.tokens) >= End
    BY DoneFacts
<1>3. ASSUME Len(q.tokens) = Len(text.tokens), ~text.trailing
      PROVE  CutShort(text)
    <2>1. CASE Len(q.tokens) = 0
        <3>1. Len(text.tokens) = 0
            BY <1>3, <2>1
        <3>2. text.tokens = <<>>
            BY <1>1, <3>1, EmptySeq
        <3> QED BY <1>3, <3>2 DEF CutShort
    <2>2. CASE Len(q.tokens) # 0
        <3>1. PICK n \in Nat : Len(q.tokens) = Brim[n]
            BY <2>2 DEF Brimful
        <3>2. n \in 0 .. Len(text.tokens)
            BY <1>1, <1>3, <3>1, BrimIs, BrimGrows
        <3> QED BY <1>3, <3>1, <3>2 DEF CutShort
    <2> QED BY <2>1, <2>2
<1> QED BY <1>1, <1>2, <1>3 DEF Brimful

-----------------------------------------------------------------------------
(* The stream.                                                              *)

\* The tokens that the stream shows: those of the text, then what is behind it.
LEMMA SeenFacts ==
    ASSUME text \in Texts, NEW n \in Nat
    PROVE  /\ Stream!Seen(n) \subseteq Token
           /\ n < Len(text.tokens) => Stream!Seen(n) = {TextAt(n + 1)}
           /\ n < Len(text.tokens) => TextAt(n + 1) # Eof
           /\ ~CutShort(text) => Stream!Seen(n) = {TextAt(n + 1)}
           /\ CutShort(text) /\ n >= Len(text.tokens) =>
                  Stream!Seen(n) = IF text.tokens = <<>> THEN Token
                                   ELSE {TextAt(Len(text.tokens))}
<1>1. text.tokens \in Seq(Kind) /\ Len(text.tokens) \in Nat
    BY TextFacts
<1>2. n + 1 \in Nat \ {0} /\ TextAt(n + 1) \in Token
    BY TextFacts
<1>3. CASE n < Len(text.tokens)
    <2>1. Stream!Seen(n) = {text.tokens[n + 1]} /\ TextAt(n + 1) = text.tokens[n + 1]
        BY <1>1, <1>3 DEF Stream!Seen, Stream!Tokens, TextAt
    <2>2. TextAt(n + 1) # Eof
        BY <1>1, <1>2, <1>3, TextFacts
    <2> QED BY <1>1, <1>2, <1>3, <2>1, <2>2
<1>4. CASE ~(n < Len(text.tokens)) /\ ~CutShort(text)
    <2>1. Stream!Seen(n) = {Eof}
        BY <1>1, <1>4 DEF Stream!Seen, Stream!Tokens
    <2>2. TextAt(n + 1) = Eof
        BY <1>1, <1>4 DEF TextAt
    <2> QED BY <1>1, <1>2, <1>4, <2>1, <2>2
<1>5. CASE ~(n < Len(text.tokens)) /\ CutShort(text)
    <2>1. CASE text.tokens = <<>>
        <3>1. Stream!Seen(n) = Token
            BY <1>1, <1>5, <2>1 DEF Stream!Seen, Stream!Tokens, Stream!Token, Token
        <3> QED BY <1>1, <1>5, <2>1, <3>1
    <2>2. CASE text.tokens # <<>>
        <3>1. Len(text.tokens) \in Nat \ {0}
            BY <1>1, <2>2
        <3>2. TextAt(Len(text.tokens)) \in Token
            BY <3>1, TextFacts
        <3>3. TextAt(Len(text.tokens)) = text.tokens[Len(text.tokens)]
            BY <1>1 DEF TextAt
        <3>4. Stream!Seen(n) = {TextAt(Len(text.tokens))}
            BY <1>1, <1>5, <2>2, <3>3 DEF Stream!Seen, Stream!Tokens
        <3> QED BY <1>1, <1>5, <2>2, <3>2, <3>4
    <2> QED BY <2>1, <2>2
<1> QED BY <1>3, <1>4, <1>5

\* What it shows when one looks ahead from a place: nobody knows what is behind
\* the last token of a text cut short.
Foreseen(place, n) ==
    IF CutShort(text) /\ place + 1 = Len(text.tokens) /\ n = 1
    THEN Token ELSE Stream!Seen(place + n)

-----------------------------------------------------------------------------
(* Looking ahead.                                                           *)

\* Within the window, or with a lexer that is done, peek leaves the buffer alone.
LEMMA RefilledFacts ==
    ASSUME text \in Texts, NEW q, Ready(q), NEW ahead \in Nat,
           LexerIsDone(q) \/ q.cursor + ahead < Len(q.tokens)
    PROVE  Refilled(q, ahead) = q
BY PreparedFacts DEF Refilled

\* It then reads a token, and notes whether there is one.
LEMMA PeekedFacts ==
    ASSUME text \in Texts, NEW q, Ready(q), NEW ahead \in Nat,
           LexerIsDone(q) \/ q.cursor + ahead < Len(q.tokens)
    PROVE  /\ Peeked(q, ahead) \subseteq Token
           /\ ReadsOutside(q, ahead) \in BOOLEAN
           /\ AfterPeek(q, ahead) = [q EXCEPT !.outside = @ \/ ReadsOutside(q, ahead)]
           /\ TrulyDone(q) =>
                  /\ ReadsOutside(q, ahead) <=> q.tokens = <<>>
                  /\ Peeked(q, ahead) = IF q.tokens = <<>> THEN Token
                                        ELSE {TextAt(Len(q.tokens))}
           /\ q.cursor + ahead < Len(q.tokens) =>
                  /\ ~ReadsOutside(q, ahead)
                  /\ Peeked(q, ahead) = {TextAt(q.cursor + ahead + 1)}
<1>1. Refilled(q, ahead) = q
    BY RefilledFacts
<1>2. /\ q.cursor \in Nat
      /\ q.tokens \in Seq(Token)
      /\ Len(q.tokens) \in Nat
    BY DEF Ready, Parser
<1>3. AfterPeek(q, ahead) = [q EXCEPT !.outside = @ \/ ReadsOutside(q, ahead)]
    BY <1>1 DEF AfterPeek
<1>4. CASE TrulyDone(q)
    <2>1. ReadsOutside(q, ahead) = (q.tokens = <<>>)
        BY <1>4, Zenon DEF ReadsOutside
    <2>2. (q.tokens = <<>>) \in BOOLEAN
        OBVIOUS
    <2>3. q.tokens # <<>> => q.tokens[Len(q.tokens)] \in Token
                             /\ q.tokens[Len(q.tokens)] = TextAt(Len(q.tokens))
        <3> SUFFICES ASSUME q.tokens # <<>>
                     PROVE  q.tokens[Len(q.tokens)] \in Token
                            /\ q.tokens[Len(q.tokens)] = TextAt(Len(q.tokens))
            OBVIOUS
        <3>1. Len(q.tokens) \in 1 .. Len(q.tokens)
            BY <1>2
        <3> QED BY <1>2, <3>1 DEF Ready, Filled
    <2>4. Peeked(q, ahead) = IF q.tokens = <<>> THEN Token ELSE {TextAt(Len(q.tokens))}
        BY <1>4, <2>1, <2>3 DEF Peeked
    <2>5. ~(q.cursor + ahead < Len(q.tokens))
        BY <1>2, <1>4 DEF TrulyDone
    <2> QED BY <1>3, <2>1, <2>2, <2>3, <2>4, <2>5
<1>5. CASE ~TrulyDone(q)
    <2>1. ReadsOutside(q, ahead) = (q.cursor + ahead >= Len(Refilled(q, ahead).tokens))
        BY <1>5, Zenon DEF ReadsOutside
    <2>2. (q.cursor + ahead >= Len(Refilled(q, ahead).tokens)) \in BOOLEAN
        BY <1>1, <1>2
    <2>a. ReadsOutside(q, ahead) <=> q.cursor + ahead >= Len(q.tokens)
        BY <1>1, <1>5 DEF ReadsOutside
    <2>3. CASE q.cursor + ahead < Len(q.tokens)
        <3>1. q.cursor + ahead + 1 \in 1 .. Len(q.tokens)
            BY <1>2, <2>3
        <3>2. ~ReadsOutside(q, ahead)
            BY <1>2, <2>a, <2>3
        <3>3. Peeked(q, ahead) = {q.tokens[q.cursor + ahead + 1]}
            BY <1>1, <1>5, <3>2 DEF Peeked
        <3>4. /\ q.tokens[q.cursor + ahead + 1] \in Token
              /\ q.tokens[q.cursor + ahead + 1] = TextAt(q.cursor + ahead + 1)
            BY <1>2, <3>1 DEF Ready, Filled
        <3> QED BY <1>3, <1>5, <2>1, <2>2, <3>2, <3>3, <3>4
    <2>4. CASE ~(q.cursor + ahead < Len(q.tokens))
        <3>1. ReadsOutside(q, ahead)
            BY <1>2, <2>a, <2>4
        <3>2. Peeked(q, ahead) = Token
            BY <3>1 DEF Peeked
        <3> QED BY <1>3, <1>5, <2>1, <2>2, <2>4, <3>2
    <2> QED BY <2>3, <2>4
<1> QED BY <1>4, <1>5

\* That is what the stream shows, but for a look behind the end of a text that
\* is not cut short.
LEMMA PeekIsForeseen ==
    ASSUME text \in Texts, NEW q, Ready(q), Brimful(q), NEW ahead \in {0, 1},
           LexerIsDone(q) \/ q.cursor + ahead < Len(q.tokens)
    PROVE  /\ ahead = 0 \/ q.cursor < Len(text.tokens) =>
                  (ReadsOutside(q, ahead) => CutShort(text))
           /\ ahead = 0 \/ q.cursor < Len(text.tokens) \/ CutShort(text) =>
                  Peeked(q, ahead) \subseteq Foreseen(q.cursor, ahead)
<1>1. /\ q.cursor \in Nat
      /\ q.tokens \in Seq(Token)
      /\ Len(q.tokens) \in Nat
      /\ text.tokens \in Seq(Kind)
      /\ Len(text.tokens) \in Nat
      /\ q.cursor + ahead \in Nat
    BY TextFacts DEF Ready, Parser
<1>2. CASE q.cursor + ahead < Len(q.tokens)
    <2>1. /\ ~ReadsOutside(q, ahead)
          /\ Peeked(q, ahead) = {TextAt(q.cursor + ahead + 1)}
        BY <1>1, <1>2, PeekedFacts
    <2>2. CutShort(text) => q.cursor + ahead < Len(text.tokens)
        BY <1>1, <1>2 DEF Brimful
    <2>3. /\ Stream!Seen(q.cursor + ahead) = {TextAt(q.cursor + ahead + 1)}
          /\ Stream!Seen(q.cursor + ahead) \subseteq Token
        BY <1>1, <2>2, SeenFacts
    <2> QED BY <2>1, <2>3 DEF Foreseen
<1>3. CASE ~(q.cursor + ahead < Len(q.tokens)) /\ TrulyDone(q)
    <2>1. /\ ReadsOutside(q, ahead) <=> q.tokens = <<>>
          /\ Peeked(q, ahead) = IF q.tokens = <<>> THEN Token
                                ELSE {TextAt(Len(q.tokens))}
        BY <1>1, <1>3, PeekedFacts
    <2>2. LexerIsDone(q) /\ q.cursor >= Len(q.tokens)
        BY <1>3 DEF TrulyDone
    <2>3. q.tokens = <<>> <=> Len(q.tokens) = 0
        BY <1>1, EmptySeq
    <2>4. text.tokens = <<>> <=> Len(text.tokens) = 0
        BY <1>1, EmptySeq
    <2>5. CASE ~CutShort(text)
        <3>1. Len(q.tokens) > Len(text.tokens)
            BY <2>2, <2>5, EndIsInside
        <3>a. /\ Len(q.tokens) \in Nat /\ Len(q.tokens) > Len(text.tokens)
              /\ q.cursor + ahead + 1 \in Nat /\ q.cursor + ahead + 1 > Len(text.tokens)
            BY <1>1, <2>2, <3>1
        <3>2. TextAt(Len(q.tokens)) = Eof /\ TextAt(q.cursor + ahead + 1) = Eof
            BY <3>a, TextFacts
        <3>3. Peeked(q, ahead) = {Eof} /\ ~ReadsOutside(q, ahead)
            BY <1>1, <2>1, <2>3, <3>1, <3>2
        <3>4. Foreseen(q.cursor, ahead) = {Eof}
            BY <1>1, <2>5, <3>2, SeenFacts DEF Foreseen
        <3> QED BY <3>3, <3>4
    <2>6. CASE CutShort(text)
        <3>1. Len(q.tokens) = Len(text.tokens)
            BY <2>2, <2>6, EndIsInside
        <3>a. q.cursor >= Len(text.tokens) /\ ahead \in Nat
            BY <2>2, <3>1
        <3>2. q.cursor + 1 # Len(text.tokens) /\ q.cursor + ahead >= Len(text.tokens)
            BY <1>1, <3>a
        <3>3. Foreseen(q.cursor, ahead) = Stream!Seen(q.cursor + ahead)
            BY <3>2 DEF Foreseen
        <3>4. Stream!Seen(q.cursor + ahead) = IF text.tokens = <<>> THEN Token
                                              ELSE {TextAt(Len(text.tokens))}
            BY <1>1, <2>6, <3>2, SeenFacts
        <3> QED BY <2>1, <2>3, <2>4, <2>6, <3>1, <3>3, <3>4
    <2> QED BY <2>5, <2>6
<1>4. CASE ~(q.cursor + ahead < Len(q.tokens)) /\ ~TrulyDone(q)
    <2>1. LexerIsDone(q) /\ q.cursor < Len(q.tokens)
        BY <1>1, <1>4 DEF TrulyDone
    <2>2. ahead = 1 /\ q.cursor + 1 = Len(q.tokens)
        BY <1>1, <1>4, <2>1
    <2>3. CASE ~CutShort(text)
        <3>1. Len(q.tokens) > Len(text.tokens)
            BY <2>1, <2>3, EndIsInside
        <3>2. ~(q.cursor < Len(text.tokens))
            BY <1>1, <2>2, <3>1
        <3> QED BY <2>2, <2>3, <3>2
    <2>4. CASE CutShort(text)
        <3>1. Len(q.tokens) = Len(text.tokens)
            BY <2>1, <2>4, EndIsInside
        <3>2. Foreseen(q.cursor, ahead) = Token
            BY <2>2, <2>4, <3>1 DEF Foreseen
        <3>3. Peeked(q, ahead) \subseteq Token
            BY <1>1, PeekedFacts
        <3> QED BY <2>4, <3>2, <3>3
    <2> QED BY <2>3, <2>4
<1> QED BY <1>2, <1>3, <1>4

\* Looking at the current token, or the one behind it, moves nothing.
LEMMA PeekKeeps ==
    ASSUME text \in Texts, NEW q, Sound(q), NEW ahead \in {0, 1}
    PROVE  /\ AfterPeek(q, ahead).cursor = q.cursor
           /\ AfterPeek(q, ahead).current = q.current
           /\ Peeked(q, ahead) \subseteq Token
           /\ ahead = 0 \/ q.cursor < Len(text.tokens) \/ CutShort(text) =>
                  /\ Sound(AfterPeek(q, ahead))
                  /\ Peeked(q, ahead) \subseteq Foreseen(q.cursor, ahead)
<1> DEFINE r == AfterPeek(q, ahead)
<1>1. /\ Ready(q) /\ Window(q) /\ Brimful(q) /\ Placed(q)
      /\ q \in Parser
      /\ q.cursor \in Nat
      /\ q.outside \in BOOLEAN
      /\ Len(q.tokens) \in Nat
      /\ ahead \in Nat
    BY DEF Sound, Ready, Parser
<1>2. LexerIsDone(q) \/ q.cursor + ahead < Len(q.tokens)
    BY <1>1 DEF Window
<1>3. /\ r = [q EXCEPT !.outside = q.outside \/ ReadsOutside(q, ahead)]
      /\ ReadsOutside(q, ahead) \in BOOLEAN
      /\ Peeked(q, ahead) \subseteq Token
    BY <1>1, <1>2, PeekedFacts
<1> HIDE DEF r
<1>4. /\ r \in Parser
      /\ r.tokens = q.tokens
      /\ r.lexed = q.lexed
      /\ r.cursor = q.cursor
      /\ r.current = q.current
      /\ r.previous = q.previous
      /\ r.outside = (q.outside \/ ReadsOutside(q, ahead))
    BY <1>1, <1>3 DEF Parser
<1>5. Ready(r) /\ Window(r) /\ Brimful(r)
    BY <1>1, <1>4 DEF Ready, Filled, Counted, Window, LexerIsDone, Brimful
<1>6. ASSUME ahead = 0 \/ q.cursor < Len(text.tokens) \/ CutShort(text)
      PROVE  Placed(r) /\ Peeked(q, ahead) \subseteq Foreseen(q.cursor, ahead)
    <2>1. /\ Peeked(q, ahead) \subseteq Foreseen(q.cursor, ahead)
          /\ ReadsOutside(q, ahead) => CutShort(text)
        BY <1>1, <1>2, <1>6, PeekIsForeseen
    <2> QED BY <1>1, <1>4, <2>1 DEF Placed
<1> QED BY <1>3, <1>4, <1>5, <1>6 DEF r, Sound

-----------------------------------------------------------------------------
(* The driver.                                                              *)

\* next takes the parser one token on and keeps everything in order.
LEMMA MovedFacts ==
    ASSUME text \in Texts, NEW q, Sound(q), NEW r \in Moved(q)
    PROVE  Sound(r) /\ r.cursor = q.cursor + 1
<1> DEFINE a == [q EXCEPT !.cursor = q.cursor + 1, !.previous = q.current]
           b(t) == [AfterPeek(a, 0) EXCEPT !.current = t]
<1> HIDE DEF b
<1>2. /\ Ready(q) /\ Window(q) /\ Brimful(q) /\ Placed(q)
      /\ q \in Parser
      /\ q.cursor \in Nat
      /\ q.outside \in BOOLEAN
      /\ Len(q.tokens) \in Nat
      /\ Len(text.tokens) \in Nat
    BY TextFacts DEF Sound, Ready, Parser
<1>3. /\ a.tokens = q.tokens
      /\ a.lexed = q.lexed
      /\ a.cursor = q.cursor + 1
      /\ a.current = q.current
      /\ a.previous = q.current
      /\ a.outside = q.outside
    BY <1>2 DEF Parser
<1>a. a \in Parser
    <2>1. q.cursor + 1 \in Nat /\ q.current \in Token
        BY <1>2 DEF Parser
    <2> QED BY <1>2, <2>1 DEF Parser
<1> HIDE DEF a
<1>1. PICK t \in Peeked(a, 0) : r = Prepared(b(t), 2)
    BY DEF Moved, a, b
<1>4. Ready(a) /\ Brimful(a) /\ (LexerIsDone(a) <=> LexerIsDone(q))
    BY <1>2, <1>3, <1>a DEF Ready, Filled, Counted, LexerIsDone, Brimful
<1>5. LexerIsDone(a) \/ a.cursor + 0 < Len(a.tokens)
    BY <1>2, <1>3, <1>4 DEF Window
<1>6. /\ t \in Token
      /\ AfterPeek(a, 0) = [a EXCEPT !.outside = a.outside \/ ReadsOutside(a, 0)]
      /\ ReadsOutside(a, 0) \in BOOLEAN
    BY <1>4, <1>5, PeekedFacts
<1>7. /\ t \in Foreseen(a.cursor, 0)
      /\ ReadsOutside(a, 0) => CutShort(text)
    BY <1>4, <1>5, PeekIsForeseen
<1>8. /\ b(t) \in Parser
      /\ b(t).tokens = a.tokens
      /\ b(t).lexed = a.lexed
      /\ b(t).cursor = a.cursor
      /\ b(t).current = t
      /\ b(t).previous = a.previous
      /\ b(t).outside = (a.outside \/ ReadsOutside(a, 0))
    BY <1>3, <1>a, <1>6 DEF Parser, b
<1>9. Ready(b(t)) /\ Brimful(b(t))
    BY <1>4, <1>8 DEF Ready, Filled, Counted, Brimful
<1>10. /\ Ready(r)
       /\ r.cursor = q.cursor + 1
       /\ r.current = t
       /\ r.previous = q.current
       /\ r.outside = (q.outside \/ ReadsOutside(a, 0))
    BY <1>1, <1>3, <1>8, <1>9, PreparedFacts
<1>11. Window(r)
    <2>1. b(t).cursor + 2 # 0
        BY <1>2, <1>3, <1>8
    <2>2. LexerIsDone(r) \/ b(t).cursor + 2 < Len(r.tokens)
        BY <1>1, <1>9, <2>1, PreparedFacts
    <2> QED BY <1>3, <1>8, <1>10, <2>2 DEF Window
<1>12. Brimful(r)
    <2>1. CASE LexerIsDone(b(t)) \/ b(t).cursor + 2 < Len(b(t).tokens)
        <3>1. r = b(t)
            BY <1>1, <1>9, <2>1, PreparedFacts
        <3> QED BY <1>9, <3>1
    <2>2. CASE ~LexerIsDone(b(t)) /\ ~(b(t).cursor + 2 < Len(b(t).tokens))
        <3>1. b(t).cursor + 2 = Len(b(t).tokens) /\ Len(b(t).tokens) \in Nat
            BY <1>2, <1>3, <1>4, <1>8, <2>2 DEF Window, LexerIsDone
        <3>2. Len(r.tokens) = Len(b(t).tokens) + 2 * (b(t).cursor + 2)
            BY <1>1, <1>9, <2>2, <3>1, PreparedFacts
        <3>3. Len(r.tokens) = 3 * Len(b(t).tokens)
            BY <3>1, <3>2
        <3> QED BY <1>9, <2>2, <3>3, BrimStep
    <2> QED BY <2>1, <2>2
<1>13. Placed(r)
    <2>1. r.current \in Stream!Seen(r.cursor)
        <3>1. Foreseen(a.cursor, 0) = Stream!Seen(a.cursor + 0) /\ a.cursor + 0 = r.cursor
            BY <1>2, <1>3, <1>10 DEF Foreseen
        <3> QED BY <1>7, <1>10, <3>1
    <2>2. r.previous = Eof => r.cursor >= Len(text.tokens)
        <3>1. q.cursor < Len(text.tokens) => q.current # Eof
            BY <1>2, SeenFacts DEF Placed
        <3> QED BY <1>2, <1>10, <3>1
    <2>3. r.outside => CutShort(text)
        BY <1>2, <1>6, <1>7, <1>10 DEF Placed
    <2> QED BY <2>1, <2>2, <2>3 DEF Placed
<1> QED BY <1>10, <1>11, <1>12, <1>13 DEF Sound

-----------------------------------------------------------------------------
(* The steps.                                                               *)

\* The text never changes, so that what holds of the new parser now holds then.
LEMMA SoundThen ==
    ASSUME UNCHANGED text, Sound(p')
    PROVE  Sound(p)'
<1>1. CutShort(text)' <=> CutShort(text)
    BY DEF CutShort
<1>2. Stream!Seen(p.cursor)' = Stream!Seen(p'.cursor)
    BY <1>1 DEF Stream!Seen, Stream!Tokens, Stream!Token
<1>3. Brimful(p)' /\ Placed(p)'
    BY <1>1, <1>2 DEF Sound, Brimful, Placed, End
<1>4. Ready(p)' /\ Window(p)'
    BY DEF Sound, Ready, Filled, Counted, Window, LexerIsDone, End, TextAt, Parser, Token
<1> QED BY <1>3, <1>4 DEF Sound

\* A look of the stream from where the parser is.
LEMMA AheadIs == \A n : Stream!Ahead(n) = Foreseen(p.cursor, n)
BY DEF Stream!Ahead, Stream!Tokens, Stream!Token, Foreseen, Token

\* Where the stream shows a token of the language, the text goes on or is cut short.
LEMMA KindIsThere ==
    ASSUME text \in Texts, Sound(p), NEW kind \in Kind, kind \in Foreseen(p.cursor, 0)
    PROVE  p.cursor < Len(text.tokens) \/ CutShort(text)
<1>1. kind # Eof /\ p.cursor \in Nat /\ Len(text.tokens) \in Nat
    BY BufferAssumption, TextFacts DEF Sound, Ready, Parser
<1>2. Foreseen(p.cursor, 0) = Stream!Seen(p.cursor)
    BY <1>1 DEF Foreseen
<1> SUFFICES ASSUME ~CutShort(text)
             PROVE  p.cursor < Len(text.tokens)
    OBVIOUS
<1>3. TextAt(p.cursor + 1) # Eof
    BY <1>1, <1>2, SeenFacts
<1> QED BY <1>1, <1>3, TextFacts

\* Looking ahead answers by the text and leaves the parser where it is.
LEMMA LookedThen ==
    ASSUME text \in Texts, Sound(p), NEW pair \in Kind \X Kind, Look(pair)
    PROVE  /\ Sound(p)'
           /\ answer' \in BOOLEAN
           /\ Stream!Look(pair)
<1> DEFINE a == AfterPeek(p, 0)
           b == AfterPeek(a, 1)
<1>1. PICK first \in Peeked(p, 0), second \in Peeked(a, 1) :
          answer' = (pair = <<first, second>>)
    BY DEF Look
<1>2. /\ p' = IF pair[1] \in Peeked(p, 0) THEN b ELSE a
      /\ UNCHANGED text
    BY DEF Look
<1>3. /\ Sound(a) /\ a.cursor = p.cursor /\ a.current = p.current
      /\ Peeked(p, 0) \subseteq Foreseen(p.cursor, 0)
    BY PeekKeeps
<1>4. pair[1] \in Kind /\ pair[1] # Eof /\ pair = <<pair[1], pair[2]>>
    BY BufferAssumption
<1>5. p.cursor \in Nat /\ Len(text.tokens) \in Nat
    BY TextFacts DEF Sound, Ready, Parser
<1> HIDE DEF a
<1>6. CASE p.cursor < Len(text.tokens) \/ CutShort(text)
    <2>1. /\ Sound(b) /\ b.cursor = a.cursor /\ b.current = a.current
          /\ Peeked(a, 1) \subseteq Foreseen(p.cursor, 1)
        BY <1>3, <1>6, PeekKeeps
    <2> HIDE DEF b
    <2>2. Sound(p') /\ p'.cursor = p.cursor /\ p'.current = p.current
        BY <1>2, <1>3, <2>1
    <2>3. first \in Foreseen(p.cursor, 0) /\ second \in Foreseen(p.cursor, 1)
        BY <1>1, <1>3, <2>1
    <2>4. Stream!Look(pair)
        BY <1>1, <1>2, <2>2, <2>3, AheadIs DEF Stream!Look
    <2> QED BY <1>1, <1>2, <2>2, <2>4, SoundThen
<1>7. CASE ~(p.cursor < Len(text.tokens) \/ CutShort(text))
    <2>1. pair[1] \notin Foreseen(p.cursor, 0)
        BY <1>4, <1>7, KindIsThere
    <2>2. p' = a
        BY <1>2, <1>3, <2>1
    <2>3. pair[1] # first
        BY <1>1, <1>3, <2>1
    <2>a. \A n : pair # <<first, n>>
        BY <1>4, <2>3
    <2>4. answer' = FALSE
        BY <1>1, <2>a
    <2>5. Foreseen(p.cursor, 1) = {TextAt(p.cursor + 1 + 1)}
        BY <1>5, <1>7, SeenFacts DEF Foreseen
    <2>6. TextAt(p.cursor + 1 + 1) \in Stream!Ahead(1) /\ first \in Stream!Ahead(0)
        BY <1>1, <1>3, <2>5, AheadIs
    <2>7. answer' = (pair = <<first, TextAt(p.cursor + 1 + 1)>>)
        BY <2>4, <2>a
    <2>8. Stream!Look(pair)
        BY <1>2, <1>3, <2>2, <2>6, <2>7 DEF Stream!Look
    <2> QED BY <1>2, <1>3, <2>2, <2>4, <2>8, SoundThen
<1> QED BY <1>6, <1>7

\* Taking two tokens that are there goes on to the one behind them.
LEMMA EatenThen ==
    ASSUME text \in Texts, Sound(p), NEW pair \in Kind \X Kind, EatSequence(pair)
    PROVE  Sound(p)' /\ Stream!EatPair(pair)
<1> DEFINE a == AfterPeek(p, 0)
           b == AfterPeek(a, 1)
<1>1. /\ pair[1] \in Peeked(p, 0)
      /\ pair[2] \in Peeked(a, 1)
      /\ answer' = TRUE
      /\ UNCHANGED text
    BY DEF EatSequence
<1>2. PICK q \in Moved(b) : p' \in Moved(q)
    BY DEF EatSequence
<1>3. /\ Sound(a) /\ a.cursor = p.cursor
      /\ pair[1] \in Foreseen(p.cursor, 0)
    BY <1>1, PeekKeeps
<1>4. pair[1] \in Kind /\ pair = <<pair[1], pair[2]>> /\ p.cursor \in Nat
    BY DEF Sound, Ready, Parser
<1>5. p.cursor < Len(text.tokens) \/ CutShort(text)
    BY <1>3, <1>4, KindIsThere
<1> HIDE DEF a
<1>6. /\ Sound(b) /\ b.cursor = p.cursor
      /\ pair[2] \in Foreseen(p.cursor, 1)
    BY <1>1, <1>3, <1>5, PeekKeeps
<1> HIDE DEF b
<1>7. Sound(q) /\ q.cursor = p.cursor + 1
    BY <1>2, <1>6, MovedFacts
<1>8. Sound(p') /\ p'.cursor = q.cursor + 1
    BY <1>2, <1>7, MovedFacts
<1>9. p'.cursor = p.cursor + 2
    BY <1>4, <1>7, <1>8
<1>10. p'.current \in Stream!Seen(p.cursor + 2)
    BY <1>8, <1>9 DEF Sound, Placed
<1>11. \E first \in Stream!Ahead(0), second \in Stream!Ahead(1) : pair = <<first, second>>
    BY <1>3, <1>4, <1>6, AheadIs
<1>12. Stream!EatPair(pair)
    BY <1>1, <1>9, <1>10, <1>11 DEF Stream!EatPair
<1> QED BY <1>1, <1>8, <1>12, SoundThen

\* A call of next takes the next token of the stream.
LEMMA MovedThen ==
    ASSUME text \in Texts, Sound(p), UNCHANGED text, p' \in Moved(p)
    PROVE  Sound(p)' /\ Stream!Take
<1>1. Sound(p') /\ p'.cursor = p.cursor + 1
    BY MovedFacts
<1>2. p'.current \in Stream!Seen(p.cursor + 1)
    BY <1>1 DEF Sound, Placed
<1> QED BY <1>1, <1>2, SoundThen DEF Stream!Take

\* A parser that is done has gone through the text.
LEMMA DoneIsBehindTheText ==
    ASSUME text \in Texts, Sound(p), IsDone
    PROVE  p.cursor >= Len(text.tokens)
<1>1. p.cursor \in Nat /\ Len(p.tokens) \in Nat /\ Len(text.tokens) \in Nat
    BY TextFacts DEF Sound, Ready, Parser
<1>2. CASE p.current = Eof
    BY <1>1, <1>2, SeenFacts DEF Sound, Placed
<1>3. CASE p.previous = Eof
    BY <1>3 DEF Sound, Placed
<1>4. CASE TrulyDone(p)
    <2>1. Len(p.tokens) >= Len(text.tokens) /\ p.cursor >= Len(p.tokens)
        BY <1>4, EndIsInside DEF Sound, TrulyDone
    <2> QED BY <1>1, <2>1
<1> QED BY <1>2, <1>3, <1>4 DEF IsDone

-----------------------------------------------------------------------------
(* The invariant, and what follows.                                         *)

\* parser_create puts the parser on the first token.
LEMMA InitHolds == Init => IInv /\ p.cursor = 0
<1> SUFFICES ASSUME Init PROVE IInv /\ p.cursor = 0
    OBVIOUS
<1> DEFINE q == Prepared(Zeroed, FirstWindow)
<1>1. /\ text \in Texts /\ FirstWindow \in Nat /\ FirstWindow >= 2
      /\ FirstKind # Eof
      /\ Len(text.tokens) \in Nat
    BY BufferAssumption, TextFacts DEF Init
<1>2. PICK t \in Peeked(q, 0) : p = [AfterPeek(q, 0) EXCEPT !.current = t]
    BY DEF Init, Created
<1>3. /\ Ready(Zeroed) /\ Zeroed.cursor = 0 /\ Zeroed.outside = FALSE
      /\ Zeroed.previous = FirstKind /\ Zeroed.tokens = <<>> /\ Zeroed.lexed = 0
    <2>1. Zeroed \in Parser
        BY BufferAssumption DEF Zeroed, Parser, Token
    <2>2. Filled(Zeroed) /\ Counted(Zeroed)
        BY <1>1, TextFacts DEF Zeroed, Filled, Counted
    <2> QED BY <2>1, <2>2 DEF Ready, Zeroed
<1>4. /\ Ready(q)
      /\ q.cursor = 0
      /\ q.outside = FALSE
      /\ q.previous = FirstKind
      /\ LexerIsDone(Zeroed) => q = Zeroed
      /\ ~LexerIsDone(Zeroed) => Len(q.tokens) = 2 * FirstWindow
    <2>1. Len(Zeroed.tokens) = 0
        BY <1>3
    <2> QED BY <1>1, <1>3, <2>1, PreparedFacts
<1>5. Brimful(q) /\ (LexerIsDone(q) \/ q.cursor + 2 < Len(q.tokens))
    <2>1. CASE LexerIsDone(Zeroed)
        <3>1. Len(q.tokens) = 0 /\ End = 0
            BY <1>3, <1>4, <2>1 DEF LexerIsDone
        <3> QED BY <1>1, <1>4, <2>1, <3>1 DEF Brimful
    <2>2. CASE ~LexerIsDone(Zeroed)
        <3>1. Len(q.tokens) = Brim[0] /\ End # 0
            BY <1>3, <1>4, <2>2, BrimIs DEF LexerIsDone
        <3>2. CutShort(text) => \E n \in Nat : Len(text.tokens) = Brim[n]
            BY <1>1, <3>1, CutShortFacts
        <3>3. CutShort(text) => Len(q.tokens) <= Len(text.tokens)
            BY <3>1, <3>2, BrimGrows
        <3>4. q.cursor + 2 < Len(q.tokens)
            BY <1>1, <1>4, <2>2
        <3> QED BY <3>1, <3>3, <3>4 DEF Brimful
    <2> QED BY <2>1, <2>2
<1> HIDE DEF q
<1>6. LexerIsDone(q) \/ q.cursor + 0 < Len(q.tokens)
    BY <1>4, <1>5 DEF Ready, Parser
<1>7. /\ t \in Token
      /\ ReadsOutside(q, 0) \in BOOLEAN
      /\ AfterPeek(q, 0) = [q EXCEPT !.outside = q.outside \/ ReadsOutside(q, 0)]
    BY <1>1, <1>4, <1>6, PeekedFacts
<1>8. t \in Foreseen(q.cursor, 0) /\ (ReadsOutside(q, 0) => CutShort(text))
    BY <1>1, <1>4, <1>5, <1>6, PeekIsForeseen
<1>9. /\ p \in Parser
      /\ p.tokens = q.tokens
      /\ p.lexed = q.lexed
      /\ p.cursor = 0
      /\ p.current = t
      /\ p.previous = FirstKind
      /\ p.outside = ReadsOutside(q, 0)
    <2> DEFINE r == AfterPeek(q, 0)
    <2>1. /\ r \in Parser
          /\ r.tokens = q.tokens
          /\ r.lexed = q.lexed
          /\ r.cursor = 0
          /\ r.previous = FirstKind
          /\ r.outside = ReadsOutside(q, 0)
        BY <1>4, <1>7 DEF Ready, Parser
    <2> HIDE DEF r
    <2>2. p = [r EXCEPT !.current = t]
        BY <1>2 DEF r
    <2> QED BY <1>7, <2>1, <2>2 DEF Parser
<1>10. Ready(p) /\ Window(p) /\ Brimful(p)
    BY <1>4, <1>5, <1>9 DEF Ready, Filled, Counted, Window, LexerIsDone, Brimful
<1>11. Placed(p)
    <2>1. Foreseen(q.cursor, 0) = Stream!Seen(p.cursor)
        BY <1>4, <1>9 DEF Foreseen
    <2> QED BY <1>1, <1>8, <1>9, <2>1 DEF Placed
<1> QED BY <1>1, <1>9, <1>10, <1>11 DEF IInv, Sound, CallsInv, Init, NotSkipping

\* Every step preserves the invariant, and is a step of the stream or none.
LEMMA StepHolds ==
    ASSUME IInv, [Next]_vars
    PROVE  IInv' /\ [Stream!Next]_Stream!vars
<1>0. text \in Texts /\ Sound(p) /\ CallsInv
    BY DEF IInv
<1>1. CASE NextToken
    BY <1>0, <1>1, MovedThen DEF IInv, CallsInv, NextToken, Stream!Next
<1>2. ASSUME NEW pair \in Pairs, Look(pair)
      PROVE  IInv' /\ Stream!Next
    <2>1. pair \in Kind \X Kind
        BY BufferAssumption
    <2>2. Sound(p)' /\ answer' \in BOOLEAN /\ Stream!Look(pair)
        BY <1>0, <1>2, <2>1, LookedThen
    <2> QED BY <1>0, <1>2, <2>1, <2>2 DEF IInv, CallsInv, Look, Stream!Next
<1>3. ASSUME NEW pair \in Pairs, EatSequence(pair)
      PROVE  IInv' /\ Stream!Next
    <2>1. pair \in Kind \X Kind
        BY BufferAssumption
    <2>2. Sound(p)' /\ Stream!EatPair(pair)
        BY <1>0, <1>3, <2>1, EatenThen
    <2> QED BY <1>0, <1>3, <2>1, <2>2 DEF IInv, CallsInv, EatSequence, Stream!Next
<1>4. ASSUME NEW kind \in Kind, Expect(kind)
      PROVE  IInv' /\ Stream!Next
    <2>1. UNCHANGED <<text, skip>> /\ answer' = (p.current = kind) /\ answer' \in BOOLEAN
        BY <1>4 DEF Expect
    <2>2. CASE p.current = kind
        <3>1. Sound(p)' /\ Stream!Take
            BY <1>0, <1>4, <2>1, <2>2, MovedThen DEF Expect
        <3>2. Stream!Expect(kind)
            BY <2>1, <2>2, <3>1 DEF Stream!Expect
        <3> QED BY <1>0, <2>1, <3>1, <3>2 DEF IInv, CallsInv, Stream!Next
    <2>3. CASE p.current # kind
        <3>1. p' = p
            BY <1>4, <2>3 DEF Expect
        <3>2. Sound(p)'
            BY <1>0, <2>1, <3>1, SoundThen
        <3>3. Stream!Expect(kind)
            BY <2>1, <2>3, <3>1 DEF Stream!Expect
        <3> QED BY <1>0, <2>1, <3>2, <3>3 DEF IInv, CallsInv, Stream!Next
    <2> QED BY <2>2, <2>3
<1>5. ASSUME NEW kinds \in Sought, NEW past \in BOOLEAN, SkipUntilOneOf(kinds, past)
      PROVE  IInv' /\ UNCHANGED Stream!vars
    <2>1. UNCHANGED <<text, p, answer>> /\ skip' = [kinds |-> kinds, past |-> past, on |-> TRUE]
        BY <1>5 DEF SkipUntilOneOf
    <2>2. Sound(p)' /\ CallsInv'
        BY <1>0, <2>1, SoundThen DEF CallsInv
    <2> QED BY <1>0, <2>1, <2>2 DEF IInv, Stream!vars
<1>6. CASE SkipStep
    <2>1. UNCHANGED text /\ p' \in Moved(p)
        BY <1>6 DEF SkipStep
    <2>2. Sound(p)' /\ Stream!Take
        BY <1>0, <2>1, MovedThen
    <2>3. CASE UNCHANGED <<answer, skip>>
        BY <1>0, <2>1, <2>2, <2>3 DEF IInv, CallsInv, Stream!Next
    <2>4. CASE p.current \in skip.kinds /\ answer' = TRUE /\ skip' = NotSkipping
        <3>1. p.current \in Kind
            BY <1>0, <2>4, BufferAssumption DEF CallsInv
        <3>2. Stream!Expect(p.current)
            BY <2>2, <2>4 DEF Stream!Expect
        <3>3. CallsInv'
            BY <2>4 DEF CallsInv, NotSkipping
        <3> QED BY <1>0, <2>1, <2>2, <3>1, <3>2, <3>3 DEF IInv, Stream!Next
    <2> QED BY <1>6, <2>3, <2>4 DEF SkipStep
<1>7. CASE SkipEnd
    <2>1. UNCHANGED <<text, p>> /\ answer' = FALSE /\ IsDone
        BY <1>7 DEF SkipEnd
    <2>2. CallsInv' /\ Sound(p)'
        BY <1>0, <1>7, <2>1, SoundThen DEF SkipEnd, CallsInv, NotSkipping
    <2>3. p.cursor >= Len(text.tokens)
        BY <1>0, <2>1, DoneIsBehindTheText
    <2>4. Stream!GiveUp
        BY <2>1, <2>3 DEF Stream!GiveUp, Stream!Tokens
    <2> QED BY <1>0, <2>1, <2>2, <2>4 DEF IInv, Stream!Next
<1>8. CASE UNCHANGED vars
    <2>1. UNCHANGED <<text, p, answer, skip>>
        BY <1>8 DEF vars
    <2> QED BY <1>0, <2>1, SoundThen DEF IInv, CallsInv, Stream!vars
<1>9. CASE Rest
    BY <1>8, <1>9 DEF Rest
<1> QED BY <1>1, <1>2, <1>3, <1>4, <1>5, <1>6, <1>7, <1>8, <1>9 DEF Next

\* The invariant holds in every behaviour.
THEOREM BufferInvariance == Spec => []IInv
<1>1. IInv /\ [Next]_vars => IInv'
    BY StepHolds
<1> QED BY <1>1, InitHolds, PTL DEF Spec

\* The type invariant, for every set of texts and every first window.
THEOREM BufferTypeCorrect == Spec => []TypeOK
<1>1. IInv => TypeOK
    <2> SUFFICES ASSUME IInv PROVE TypeOK
        OBVIOUS
    <2>1. p.lexed <= End
        <3>1. text \in Texts /\ p.tokens \in Seq(Token) /\ Counted(p)
            BY DEF IInv, Sound, Ready, Parser
        <3>2. End \in Nat /\ Len(p.tokens) \in Nat
            BY <3>1, TextFacts
        <3> QED BY <3>1, <3>2 DEF Counted
    <2> QED BY <2>1 DEF IInv, Sound, CallsInv, Ready, TypeOK
<1> QED BY <1>1, BufferInvariance, PTL

\* The window of advance is there after every call.
THEOREM WindowTheorem == Spec => []WindowIsAhead
<1>1. IInv => WindowIsAhead
    BY DEF IInv, Sound, Window, WindowIsAhead
<1> QED BY <1>1, BufferInvariance, PTL

\* Whatever its length and the first window, a text makes peek read a token that
\* is not in the buffer only if it ends, without white space, where a buffer is full.
THEOREM InsideTheorem == Spec => []InsideTheBuffer
<1>1. IInv => InsideTheBuffer
    BY DEF IInv, Sound, Placed, InsideTheBuffer
<1> QED BY <1>1, BufferInvariance, PTL

\* The buffer implements the stream of tokens: whatever is lexed in advance, the
\* parser sees each token once, in order, then the end of file (the last token
\* again, in a text cut short), and every look ahead and every recovery is
\* answered by the text.
THEOREM ImplementsStreamTheorem == Spec => ImplementsStream
<1>1. Init => Stream!Init
    <2> SUFFICES ASSUME Init PROVE Stream!Init
        OBVIOUS
    <2>1. answer = FALSE /\ p.cursor = 0
        BY InitHolds DEF Init
    <2>2. p.current \in Stream!Seen(p.cursor)
        BY InitHolds DEF IInv, Sound, Placed
    <2> QED BY <2>1, <2>2 DEF Stream!Init
<1>2. IInv /\ [Next]_vars => [Stream!Next]_Stream!vars
    BY StepHolds
<1> QED BY <1>1, <1>2, BufferInvariance, PTL DEF Spec, ImplementsStream, Stream!Spec
=============================================================================
