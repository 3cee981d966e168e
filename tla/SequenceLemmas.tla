--------------------------- MODULE SequenceLemmas ---------------------------
(***************************************************************************)
(* What the proofs need to know of sequences and of the natural numbers,   *)
(* whatever the component: pushing, popping, replacing and removing an     *)
(* element, the least-number principle, and what FlattenSeq lists.         *)
(***************************************************************************)
EXTENDS Integers, SequencesExt, FiniteSetTheorems, SequenceTheorems,
        WellFoundedInduction, TLAPS

-----------------------------------------------------------------------------
(* Sequences: pushing, popping and replacing the first element, and         *)
(* removing one.                                                            *)

LEMMA PushProperties ==
    ASSUME NEW S, NEW x \in S, NEW s \in Seq(S)
    PROVE  /\ Cons(x, s) \in Seq(S)
           /\ Cons(x, s) # <<>>
           /\ Len(Cons(x, s)) = Len(s) + 1
           /\ Cons(x, s)[1] = x
           /\ \A n \in 2 .. Len(s) + 1 : Cons(x, s)[n] = s[n - 1]
<1>1. <<x>> \in Seq(S) /\ Len(<<x>>) = 1 /\ <<x>>[1] = x
  OBVIOUS
<1>2. /\ Cons(x, s) \in Seq(S)
      /\ Len(Cons(x, s)) = 1 + Len(s)
      /\ \A n \in 1 .. 1 + Len(s) :
            Cons(x, s)[n] = IF n <= 1 THEN <<x>>[n] ELSE s[n - 1]
  BY <1>1, ConcatProperties DEF Cons
<1>3. Len(s) \in Nat
  OBVIOUS
<1>4. Cons(x, s) # <<>>
  BY <1>2, <1>3
<1> QED
  BY <1>1, <1>2, <1>3, <1>4

LEMMA PopProperties ==
    ASSUME NEW S, NEW s \in Seq(S), s # <<>>
    PROVE  /\ Len(s) \in Nat \ {0}
           /\ Head(s) = s[1]
           /\ Head(s) \in S
           /\ Tail(s) \in Seq(S)
           /\ Len(Tail(s)) = Len(s) - 1
           /\ \A n \in 1 .. Len(s) - 1 : Tail(s)[n] = s[n + 1]
  BY HeadTailProperties, EmptySeq

LEMMA ReplaceProperties ==
    ASSUME NEW S, NEW x \in S, NEW s \in Seq(S), s # <<>>
    PROVE  /\ Cons(x, Tail(s)) \in Seq(S)
           /\ Cons(x, Tail(s)) # <<>>
           /\ Len(Cons(x, Tail(s))) = Len(s)
           /\ Cons(x, Tail(s))[1] = x
           /\ \A n \in 2 .. Len(s) : Cons(x, Tail(s))[n] = s[n]
<1>1. /\ Tail(s) \in Seq(S)
      /\ Len(Tail(s)) = Len(s) - 1
      /\ Len(s) \in Nat
      /\ \A n \in 1 .. Len(s) - 1 : Tail(s)[n] = s[n + 1]
  BY PopProperties
<1> DEFINE t == Tail(s)
<1> HIDE DEF t
<1>2. t \in Seq(S)
  BY <1>1 DEF t
<1>3. /\ Cons(x, t) \in Seq(S)
      /\ Cons(x, t) # <<>>
      /\ Len(Cons(x, t)) = Len(t) + 1
      /\ Cons(x, t)[1] = x
      /\ \A n \in 2 .. Len(t) + 1 : Cons(x, t)[n] = t[n - 1]
  BY <1>2, PushProperties
<1> QED
  BY <1>1, <1>3 DEF t

LEMMA RemoveAtType ==
    ASSUME NEW S, NEW s \in Seq(S), NEW n \in 1 .. Len(s)
    PROVE  RemoveAt(s, n) \in Seq(S)
<1>1. Len(s) \in Nat /\ \A i \in 1 .. Len(s) : s[i] \in S
  OBVIOUS
<1>2. SubSeq(s, 1, n - 1) \in Seq(S)
  BY <1>1, SubSeqProperties
<1>3. SubSeq(s, n + 1, Len(s)) \in Seq(S)
  BY <1>1, SubSeqProperties
<1> QED
  BY <1>2, <1>3, ConcatProperties DEF RemoveAt

LEMMA RemoveAtProperties ==
    ASSUME NEW S, NEW s \in Seq(S), NEW n \in 1 .. Len(s)
    PROVE  /\ Len(RemoveAt(s, n)) = Len(s) - 1
           /\ \A i \in 1 .. Len(s) - 1 :
                 RemoveAt(s, n)[i] = IF i < n THEN s[i] ELSE s[i + 1]
<1>1. Len(s) \in Nat /\ n \in Nat \ {0} /\ n <= Len(s) /\ \A i \in 1 .. Len(s) : s[i] \in S
  OBVIOUS
<1> DEFINE a == SubSeq(s, 1, n - 1)
           b == SubSeq(s, n + 1, Len(s))
<1>2. /\ a \in Seq(S) /\ Len(a) = n - 1
      /\ \A i \in 1 .. n - 1 : a[i] = s[i]
  <2>1. \A i \in 1 .. n - 1 : s[i] \in S
    BY <1>1
  <2>2. /\ a \in Seq(S)
        /\ Len(a) = IF 1 <= n - 1 THEN (n - 1) - 1 + 1 ELSE 0
        /\ \A i \in 1 .. (n - 1) - 1 + 1 : a[i] = s[1 + i - 1]
    BY <1>1, <2>1, SubSeqProperties
  <2> HIDE DEF a
  <2> QED
    BY <1>1, <2>2
<1>3. /\ b \in Seq(S) /\ Len(b) = Len(s) - n
      /\ \A i \in 1 .. Len(s) - n : b[i] = s[n + i]
  <2>1. \A i \in n + 1 .. Len(s) : s[i] \in S
    BY <1>1
  <2>2. /\ b \in Seq(S)
        /\ Len(b) = IF n + 1 <= Len(s) THEN Len(s) - (n + 1) + 1 ELSE 0
        /\ \A i \in 1 .. Len(s) - (n + 1) + 1 : b[i] = s[(n + 1) + i - 1]
    BY <1>1, <2>1, SubSeqProperties
  <2> HIDE DEF b
  <2>3. \A i \in 1 .. Len(s) - n :
           i \in 1 .. Len(s) - (n + 1) + 1 /\ (n + 1) + i - 1 = n + i
    BY <1>1
  <2> QED
    BY <1>1, <2>2, <2>3
<1>4. RemoveAt(s, n) = a \o b
  BY DEF RemoveAt
<1> HIDE DEF a, b
<1>5. /\ Len(a \o b) = Len(a) + Len(b)
      /\ \A i \in 1 .. Len(a) + Len(b) :
            (a \o b)[i] = IF i <= Len(a) THEN a[i] ELSE b[i - Len(a)]
  BY <1>2, <1>3, ConcatProperties
<1>6. Len(a \o b) = Len(s) - 1
  BY <1>1, <1>2, <1>3, <1>5
<1>7. ASSUME NEW i \in 1 .. Len(s) - 1
      PROVE  (a \o b)[i] = IF i < n THEN s[i] ELSE s[i + 1]
  <2>1. (a \o b)[i] = IF i <= n - 1 THEN a[i] ELSE b[i - (n - 1)]
    BY <1>1, <1>2, <1>3, <1>5
  <2>2. CASE i < n
    BY <1>1, <1>2, <2>1, <2>2
  <2>3. CASE ~(i < n)
    <3>1. i - (n - 1) \in 1 .. Len(s) - n /\ n + (i - (n - 1)) = i + 1 /\ ~(i <= n - 1)
      BY <1>1, <2>3
    <3> QED
      BY <1>3, <2>1, <2>3, <3>1
  <2> QED
    BY <2>2, <2>3
<1> QED
  BY <1>4, <1>6, <1>7

-----------------------------------------------------------------------------
(* Induction over a set of numbers: the induction theorems of the library   *)
(* take an operator, the well-foundedness of < does not.                    *)

LEMMA LeastNumber ==
    ASSUME NEW T, T \subseteq Nat, T # {}
    PROVE  \E x \in T : \A y \in T : x <= y
<1> DEFINE R == OpToRel(<, Nat)
<1>1. IsWellFoundedOn(R, Nat)
  BY NatLessThanWellFounded
<1>2. ASSUME NEW x \in Nat, NEW y \in Nat, x < y
      PROVE  <<x, y>> \in R
  <2>1. <<x, y>> \in Nat \X Nat /\ <<x, y>>[1] < <<x, y>>[2]
    BY <1>2
  <2> QED
    BY <2>1, Zenon DEF OpToRel
<1> HIDE DEF R
<1>3. PICK x \in T : \A y \in T : ~(<<y, x>> \in R)
  BY <1>1, WFMin
<1>4. ASSUME NEW y \in T
      PROVE  x <= y
  <2>1. x \in Nat /\ y \in Nat
    OBVIOUS
  <2>2. ~(y < x)
    BY <1>2, <1>3, <2>1
  <2> QED
    BY <2>1, <2>2
<1> QED
  BY <1>4

LEMMA SetInduction ==
    ASSUME NEW S, 0 \in S, \A n \in Nat : n \in S => n + 1 \in S
    PROVE  \A n \in Nat : n \in S
<1> SUFFICES ASSUME NEW n \in Nat, n \notin S
             PROVE  FALSE
  OBVIOUS
<1> DEFINE T == {m \in Nat : m \notin S}
<1>1. T \subseteq Nat /\ n \in T
  OBVIOUS
<1>2. PICK x \in T : \A y \in T : x <= y
  BY <1>1, LeastNumber
<1>3. x \in Nat \ {0}
  OBVIOUS
<1>4. x - 1 \in Nat /\ x - 1 \notin T
  BY <1>2, <1>3
<1>5. x - 1 + 1 \in S
  BY <1>4
<1> QED
  BY <1>3, <1>5

\* A function that starts with b and goes on with s, up to m.
Iterates(f, m, b, s) == f[0] = b /\ \A n \in 1 .. m : f[n] = s[f[n - 1]]

LEMMA IteratesAgree ==
    ASSUME NEW b, NEW s, NEW m \in Nat, NEW n \in Nat, NEW f, NEW g,
           Iterates(f, m, b, s), Iterates(g, n, b, s)
    PROVE  \A i \in Nat : i <= m /\ i <= n => f[i] = g[i]
<1> DEFINE S == {i \in Nat : i <= m /\ i <= n => f[i] = g[i]}
<1>1. 0 \in S
  BY DEF Iterates
<1>2. ASSUME NEW i \in Nat, i \in S
      PROVE  i + 1 \in S
  <2> SUFFICES ASSUME i + 1 <= m, i + 1 <= n
               PROVE  f[i + 1] = g[i + 1]
    OBVIOUS
  <2>1. f[i] = g[i]
    BY <1>2
  <2>2. i + 1 \in 1 .. m /\ i + 1 \in 1 .. n /\ i + 1 - 1 = i
    OBVIOUS
  <2>3. f[i + 1] = s[f[i]] /\ g[i + 1] = s[g[i]]
    BY <2>2 DEF Iterates
  <2> QED
    BY <2>1, <2>3
<1> HIDE DEF S
<1>3. \A i \in Nat : i \in S
  BY <1>1, <1>2, SetInduction
<1> QED
  BY <1>3 DEF S

LEMMA IteratesExists ==
    ASSUME NEW T, NEW b \in T, NEW s \in [T -> T], NEW m \in Nat
    PROVE  \E f \in [0 .. m -> T] : Iterates(f, m, b, s)
<1> DEFINE S == {n \in Nat : \E f \in [0 .. n -> T] : Iterates(f, n, b, s)}
<1>1. 0 \in S
  <2> DEFINE f == [i \in 0 .. 0 |-> b]
  <2>1. f \in [0 .. 0 -> T] /\ Iterates(f, 0, b, s)
    BY DEF Iterates
  <2> QED
    BY <2>1
<1>2. ASSUME NEW n \in Nat, n \in S
      PROVE  n + 1 \in S
  <2>1. PICK f \in [0 .. n -> T] : Iterates(f, n, b, s)
    BY <1>2
  <2> DEFINE g == [i \in 0 .. n + 1 |-> IF i = n + 1 THEN s[f[n]] ELSE f[i]]
  <2>2. g \in [0 .. n + 1 -> T]
    OBVIOUS
  <2>3. g[0] = b
    BY <2>1 DEF Iterates
  <2>4. ASSUME NEW i \in 1 .. n + 1
        PROVE  g[i] = s[g[i - 1]]
    <3>1. CASE i = n + 1
      BY <3>1
    <3>2. CASE i # n + 1
      <4>1. i \in 1 .. n /\ i - 1 \in 0 .. n
        BY <3>2
      <4>2. g[i] = f[i] /\ g[i - 1] = f[i - 1]
        BY <4>1
      <4> QED
        BY <2>1, <4>1, <4>2 DEF Iterates
    <3> QED
      BY <3>1, <3>2
  <2>5. Iterates(g, n + 1, b, s)
    BY <2>3, <2>4 DEF Iterates
  <2> QED
    BY <2>2, <2>5
<1> HIDE DEF S
<1>3. m \in S
  BY <1>1, <1>2, SetInduction
<1> QED
  BY <1>3 DEF S

\* What a recursive function over the natural numbers needs to exist.
LEMMA Iteration ==
    ASSUME NEW T, NEW b \in T, NEW s \in [T -> T]
    PROVE  \E f \in [Nat -> T] :
               f[0] = b /\ \A n \in Nat : f[n + 1] = s[f[n]]
<1> DEFINE P(n, y) == \E f \in [0 .. n -> T] : Iterates(f, n, b, s) /\ f[n] = y
           F == [n \in Nat |-> CHOOSE y \in T : P(n, y)]
<1>1. ASSUME NEW n \in Nat
      PROVE  \E y \in T : P(n, y)
  <2>1. PICK f \in [0 .. n -> T] : Iterates(f, n, b, s)
    BY IteratesExists
  <2>2. f[n] \in T
    OBVIOUS
  <2> QED
    BY <2>1, <2>2
<1>2. ASSUME NEW n \in Nat
      PROVE  F[n] \in T /\ P(n, F[n])
  <2> HIDE DEF P
  <2>1. (CHOOSE y \in T : P(n, y)) \in T /\ P(n, CHOOSE y \in T : P(n, y))
    BY <1>1
  <2> QED
    BY <2>1
<1>3. F \in [Nat -> T]
  BY <1>2
<1> HIDE DEF F
<1>4. F[0] = b
  <2>1. P(0, F[0])
    BY <1>2
  <2> QED
    BY <2>1 DEF Iterates
<1>5. ASSUME NEW n \in Nat
      PROVE  F[n + 1] = s[F[n]]
  <2>1. PICK f \in [0 .. n -> T] : Iterates(f, n, b, s) /\ f[n] = F[n]
    BY <1>2
  <2>2. P(n + 1, F[n + 1])
    BY <1>2
  <2>3. PICK g \in [0 .. n + 1 -> T] : Iterates(g, n + 1, b, s) /\ g[n + 1] = F[n + 1]
    BY <2>2
  <2>4. f[n] = g[n]
    BY <2>1, <2>3, IteratesAgree
  <2>5. n + 1 \in 1 .. n + 1 /\ n + 1 - 1 = n
    OBVIOUS
  <2>6. g[n + 1] = s[g[n]]
    BY <2>3, <2>5 DEF Iterates
  <2> QED
    BY <2>1, <2>3, <2>4, <2>6
<1> QED
  BY <1>3, <1>4, <1>5

LEMMA LeastOf ==
    ASSUME NEW T, T \subseteq Nat, T # {}
    PROVE  Min(T) \in T /\ \A y \in T : Min(T) <= y
<1>1. \E x \in T : \A y \in T : x =< y
  BY LeastNumber
<1> QED
  BY <1>1 DEF Min

\* A step for each number up to m, each made on the result of the one before.
Steps(m, T) == [1 .. m -> [T -> T]]
Runs(f, b, m, s) == f[0] = b /\ \A n \in 1 .. m : f[n] = s[n][f[n - 1]]
LEMMA StepsExist ==
    ASSUME NEW T, NEW b \in T, NEW m \in Nat, NEW s \in Steps(m, T)
    PROVE  \E f \in [0 .. m -> T] : Runs(f, b, m, s)
<1> DEFINE S == {k \in Nat : k <= m =>
                   \E f \in [0 .. k -> T] : Runs(f, b, k, s)}
<1>1. 0 \in S
  <2> DEFINE f == [i \in 0 .. 0 |-> b]
  <2>1. f \in [0 .. 0 -> T] /\ Runs(f, b, 0, s)
    BY DEF Runs
  <2> QED
    BY <2>1
<1>2. ASSUME NEW k \in Nat, k \in S
      PROVE  k + 1 \in S
  <2> SUFFICES ASSUME k + 1 <= m
               PROVE  \E f \in [0 .. k + 1 -> T] : Runs(f, b, k + 1, s)
    OBVIOUS
  <2>1. PICK g \in [0 .. k -> T] : g[0] = b /\ \A n \in 1 .. k : g[n] = s[n][g[n - 1]]
    BY <1>2 DEF Runs
  <2> DEFINE f == [i \in 0 .. k + 1 |-> IF i <= k THEN g[i] ELSE s[k + 1][g[k]]]
  <2>2. g[k] \in T /\ s[k + 1][g[k]] \in T
    <3>1. k \in 0 .. k /\ k + 1 \in 1 .. m
      OBVIOUS
    <3> QED
      BY <2>1, <3>1 DEF Steps
  <2>3. f \in [0 .. k + 1 -> T]
    BY <2>1, <2>2
  <2>4. f[0] = b
    BY <2>1
  <2>5. ASSUME NEW n \in 1 .. k + 1
        PROVE  f[n] = s[n][f[n - 1]]
    <3>1. n - 1 \in 0 .. k + 1 /\ n - 1 <= k /\ n \in 0 .. k + 1
      OBVIOUS
    <3>2. f[n - 1] = g[n - 1]
      BY <3>1
    <3>3. CASE n <= k
      <4>1. n \in 1 .. k /\ f[n] = g[n]
        BY <3>1, <3>3
      <4> HIDE DEF f
      <4> QED
        BY <2>1, <3>2, <4>1
    <3>4. CASE ~(n <= k)
      <4>1. n = k + 1 /\ n - 1 = k
        BY <3>4
      <4>2. f[n] = s[k + 1][g[k]]
        BY <3>1, <3>4
      <4> HIDE DEF f
      <4> QED
        BY <3>2, <4>1, <4>2
    <3> QED
      BY <3>3, <3>4
  <2> HIDE DEF f
  <2>6. Runs(f, b, k + 1, s)
    BY <2>4, <2>5 DEF Runs
  <2> QED
    BY <2>3, <2>6
<1> HIDE DEF S
<1>3. m \in S
  BY <1>1, <1>2, SetInduction
<1> QED
  BY <1>3 DEF S

-----------------------------------------------------------------------------
(* FlattenSeq.                                                              *)

\* f is the recursion of FlattenSeq over the first n sequences.
Flattens(f, seqs, n) ==
    f = [i \in 1 .. n |-> IF i = 1 THEN seqs[i] ELSE f[i - 1] \o seqs[i]]

LEMMA FlattenExists ==
    ASSUME NEW seqs, NEW m \in Nat
    PROVE  \E f : Flattens(f, seqs, m)
<1> DEFINE S == {n \in Nat : \E f : Flattens(f, seqs, n)}
<1>1. 0 \in S
  <2> DEFINE e == [i \in 1 .. 0 |-> {}]
  <2>1. Flattens(e, seqs, 0)
    BY DEF Flattens
  <2> QED
    BY <2>1
<1>2. ASSUME NEW n \in Nat, n \in S
      PROVE  n + 1 \in S
  <2>1. PICK f : Flattens(f, seqs, n)
    BY <1>2
  <2> DEFINE g == [i \in 1 .. n + 1 |->
                     IF i = n + 1
                     THEN IF i = 1 THEN seqs[i] ELSE f[n] \o seqs[i]
                     ELSE f[i]]
  <2>2. \A i \in 1 .. n + 1 :
           g[i] = IF i = 1 THEN seqs[i] ELSE g[i - 1] \o seqs[i]
    <3> SUFFICES ASSUME NEW i \in 1 .. n + 1
                 PROVE  g[i] = IF i = 1 THEN seqs[i] ELSE g[i - 1] \o seqs[i]
      OBVIOUS
    <3>1. CASE i = n + 1
      <4>1. i # 1 => g[i - 1] = f[n]
        BY <3>1
      <4> QED
        BY <3>1, <4>1
    <3>2. CASE i # n + 1
      <4>1. i \in 1 .. n /\ g[i] = f[i]
        BY <3>2
      <4>2. f[i] = IF i = 1 THEN seqs[i] ELSE f[i - 1] \o seqs[i]
        BY <2>1, <4>1 DEF Flattens
      <4>3. i # 1 => g[i - 1] = f[i - 1]
        BY <4>1
      <4> QED
        BY <4>1, <4>2, <4>3
    <3> QED
      BY <3>1, <3>2
  <2>3. Flattens(g, seqs, n + 1)
    BY <2>2 DEF Flattens
  <2> QED
    BY <2>3
<1> HIDE DEF S
<1>3. m \in S
  BY <1>1, <1>2, SetInduction
<1> QED
  BY <1>3 DEF S

LEMMA FlattenIs ==
    ASSUME NEW seqs, Len(seqs) \in Nat, Len(seqs) # 0
    PROVE  \E f : Flattens(f, seqs, Len(seqs)) /\ FlattenSeq(seqs) = f[Len(seqs)]
<1> DEFINE f == CHOOSE f :
                  f = [i \in 1 .. Len(seqs) |->
                         IF i = 1 THEN seqs[i] ELSE f[i - 1] \o seqs[i]]
<1>1. f = [i \in 1 .. Len(seqs) |-> IF i = 1 THEN seqs[i] ELSE f[i - 1] \o seqs[i]]
  BY FlattenExists DEF Flattens
<1>2. FlattenSeq(seqs) = f[Len(seqs)]
  BY DEF FlattenSeq
<1> HIDE DEF f
<1> QED
  BY <1>1, <1>2 DEF Flattens

LEMMA FlattenType ==
    ASSUME NEW S, NEW seqs \in Seq(Seq(S))
    PROVE  FlattenSeq(seqs) \in Seq(S)
<1>1. Len(seqs) \in Nat /\ DOMAIN seqs = 1 .. Len(seqs) /\ \A n \in 1 .. Len(seqs) : seqs[n] \in Seq(S)
  OBVIOUS
<1>2. CASE Len(seqs) = 0
  <2>1. seqs = <<>>
    BY <1>2, EmptySeq
  <2> QED
    BY <1>2, <2>1 DEF FlattenSeq
<1>3. CASE Len(seqs) # 0
  <2> DEFINE m == Len(seqs)
  <2>1. PICK f : Flattens(f, seqs, m) /\ FlattenSeq(seqs) = f[m]
    BY <1>1, <1>3, FlattenIs
  <2> DEFINE T == {n \in Nat : n \in 1 .. m => f[n] \in Seq(S)}
  <2>2. 0 \in T
    OBVIOUS
  <2>3. ASSUME NEW n \in Nat, n \in T
        PROVE  n + 1 \in T
    <3> SUFFICES ASSUME n + 1 \in 1 .. m
                 PROVE  f[n + 1] \in Seq(S)
      OBVIOUS
    <3>1. f[n + 1] = IF n + 1 = 1 THEN seqs[n + 1] ELSE f[n] \o seqs[n + 1]
      <4>1. \A i \in 1 .. m : f[i] = IF i = 1 THEN seqs[i] ELSE f[i - 1] \o seqs[i]
        <5> HIDE DEF m
        <5> QED
          BY <2>1 DEF Flattens
      <4>2. (n + 1) - 1 = n
        OBVIOUS
      <4> QED
        BY <4>1, <4>2
    <3>2. CASE n = 0
      BY <1>1, <3>1, <3>2
    <3>3. CASE n # 0
      <4>1. n \in 1 .. m
        BY <1>1, <3>3
      <4>2. f[n] \in Seq(S) /\ seqs[n + 1] \in Seq(S)
        BY <1>1, <2>3, <4>1
      <4>3. f[n] \o seqs[n + 1] \in Seq(S)
        BY <4>2, ConcatProperties
      <4> QED
        BY <3>1, <3>3, <4>3
    <3> QED
      BY <3>2, <3>3
  <2> HIDE DEF T
  <2>4. m \in T
    BY <1>1, <2>2, <2>3, SetInduction
  <2>5. m \in 1 .. m
    BY <1>1, <1>3
  <2> QED
    BY <2>1, <2>4, <2>5 DEF T
<1> QED
  BY <1>2, <1>3

=============================================================================
