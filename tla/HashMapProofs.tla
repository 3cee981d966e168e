--------------------------- MODULE HashMapProofs ---------------------------
(***************************************************************************)
(* Theorems about HashMap, for every set of keys and values, every hash    *)
(* function and every initial capacity.                                    *)
(***************************************************************************)
EXTENDS HashMap, SequenceLemmas

-----------------------------------------------------------------------------
(* What a table is and what it holds.  The definitions take the chains and  *)
(* the capacity as parameters: growing goes from one pair to another.       *)

\* A chain holds nodes of its bucket, each with a key of its own.
Chain(s, b, c) ==
    /\ \A n \in 1 .. Len(s) : BucketOf(s[n].key, c) = b
    /\ \A m, n \in 1 .. Len(s) : s[m].key = s[n].key => m = n

IsTable(t, c) ==
    /\ c \in Nat
    /\ t \in [0 .. c - 1 -> Seq(Node)]
    /\ \A b \in 0 .. c - 1 : Chain(t[b], b, c)

\* What a table holds, whatever its order, and that order.
Maps(t, c, k, v) ==
    \E b \in 0 .. c - 1 : \E n \in 1 .. Len(t[b]) :
        t[b][n].key = k /\ t[b][n].value = v

KeysOf(t, c) ==
    {k \in Key : \E b \in 0 .. c - 1 : \E n \in 1 .. Len(t[b]) : t[b][n].key = k}

Precedes(t, c, k, l) ==
    \/ BucketOf(k, c) < BucketOf(l, c)
    \/ \E b \in 0 .. c - 1 : \E m, n \in 1 .. Len(t[b]) :
           m < n /\ t[b][m].key = k /\ t[b][n].key = l

Present == KeysOf(buckets, capacity)
Earlier(k, l) == Precedes(buckets, capacity, k, l)

Sized ==
    /\ size = Cardinality(Present)
    /\ 4 * size <= 3 * capacity

-----------------------------------------------------------------------------
(* The inductive invariant.                                                 *)

\* Where the loop stands, whatever its body does to the table.
Looping == iter.at \in {"test", "body"}

Position ==
    /\ iter.at = "body" => iter.node # Null
    /\ iter.gone => iter.at = "body"
    /\ Looping /\ iter.node # Null /\ ~iter.gone => iter.node \in Present
    /\ iter.gone => iter.after \in Present \cup {Null}
    /\ iter.at = "test" /\ iter.node = Null => iter.bucket = capacity
    /\ Looping /\ grew => iter.stop < capacity
    /\ iter.at = "lost" => grew

\* While the table keeps its capacity: what is shown is behind the loop, and
\* what it must still show ahead of it.
AtTest ==
    /\ iter.node # Null =>
         /\ iter.bucket = BucketOf(iter.node, capacity)
         /\ \A k \in due : k = iter.node \/ Earlier(iter.node, k)
         /\ \A k \in shown : Earlier(k, iter.node)
    /\ iter.node = Null => due = {}

AtNode ==
    /\ iter.bucket = BucketOf(iter.node, capacity)
    /\ \A k \in due : Earlier(iter.node, k)
    /\ \A k \in shown : k = iter.node \/ Earlier(k, iter.node)

AtGap ==
    /\ iter.after # Null =>
         /\ iter.bucket = BucketOf(iter.after, capacity)
         /\ \A k \in due : k = iter.after \/ Earlier(iter.after, k)
         /\ \A k \in shown : Earlier(k, iter.after)
    /\ iter.after = Null =>
         /\ \A k \in due : iter.bucket < BucketOf(k, capacity)
         /\ \A k \in shown : BucketOf(k, capacity) <= iter.bucket

Progress ==
    Looping /\ ~grew =>
        /\ iter.stop = capacity
        /\ due \subseteq Present
        /\ shown \subseteq Present
        /\ iter.at = "test" => AtTest
        /\ iter.at = "body" /\ ~iter.gone => AtNode
        /\ iter.at = "body" /\ iter.gone => AtGap

HInv ==
    /\ TypeOK
    /\ IsTable(buckets, capacity)
    /\ Sized
    /\ Position
    /\ Progress
    /\ NothingShownTwice

-----------------------------------------------------------------------------
(* Looking up.                                                              *)

LEMMA ChainFacts ==
    ASSUME NEW s \in Seq(Node)
    PROVE  /\ Len(s) \in Nat
           /\ \A n \in 1 .. Len(s) : s[n] \in Node /\ s[n].key \in Key /\ s[n].value \in Value
<1>1. Len(s) \in Nat /\ \A n \in 1 .. Len(s) : s[n] \in Node
  OBVIOUS
<1> QED
  BY <1>1 DEF Node

LEMMA BucketRange ==
    ASSUME NEW c \in Nat \ {0}, NEW k \in Key
    PROVE  BucketOf(k, c) \in 0 .. c - 1
<1>1. Hash[k] \in Nat
  BY MapAssumption
<1> QED
  BY <1>1 DEF BucketOf

LEMMA PlaceIs ==
    ASSUME NEW s \in Seq(Node), NEW k
    PROVE  /\ Place(k, s) \in 0 .. Len(s)
           /\ Place(k, s) = 0 => \A n \in 1 .. Len(s) : s[n].key # k
           /\ Place(k, s) # 0 => Place(k, s) \in 1 .. Len(s) /\ s[Place(k, s)].key = k
<1> DEFINE T == {n \in 1 .. Len(s) : s[n].key = k}
<1>1. Place(k, s) = IF T # {} THEN Min(T) ELSE 0
  BY DEF Place, SelectInSeq
<1>2. Len(s) \in Nat /\ T \subseteq Nat
  OBVIOUS
<1>3. T # {} => Min(T) \in T
  BY <1>2, LeastOf
<1> QED
  BY <1>1, <1>2, <1>3

LEMMA TableFacts ==
    ASSUME NEW t, NEW c, IsTable(t, c), NEW b \in 0 .. c - 1
    PROVE  /\ t[b] \in Seq(Node) /\ Len(t[b]) \in Nat
           /\ \A n \in 1 .. Len(t[b]) :
                /\ t[b][n].key \in Key /\ t[b][n].value \in Value
                /\ BucketOf(t[b][n].key, c) = b
           /\ \A m, n \in 1 .. Len(t[b]) : t[b][m].key = t[b][n].key => m = n
<1>1. t[b] \in Seq(Node) /\ Chain(t[b], b, c)
  BY DEF IsTable
<1> QED
  BY <1>1, ChainFacts DEF Chain

\* A node is found where it is hashed to, and nowhere else.
LEMMA KeyPlace ==
    ASSUME NEW t, NEW c, IsTable(t, c), NEW k \in Key, c # 0
    PROVE  LET b == BucketOf(k, c)
           IN  /\ b \in 0 .. c - 1
               /\ t[b] \in Seq(Node)
               /\ k \in KeysOf(t, c) <=> Place(k, t[b]) # 0
               /\ k \in KeysOf(t, c) =>
                    /\ Place(k, t[b]) \in 1 .. Len(t[b])
                    /\ t[b][Place(k, t[b])].key = k
                    /\ \A n \in 1 .. Len(t[b]) : t[b][n].key = k => n = Place(k, t[b])
<1> DEFINE b == BucketOf(k, c)
<1>1. b \in 0 .. c - 1
  BY BucketRange DEF IsTable
<1>2. t[b] \in Seq(Node)
  BY <1>1, TableFacts
<1>3. ASSUME NEW d \in 0 .. c - 1, NEW n \in 1 .. Len(t[d]), t[d][n].key = k
      PROVE  d = b
  BY <1>3, TableFacts
<1>4. k \in KeysOf(t, c) => Place(k, t[b]) # 0
  BY <1>2, <1>3, PlaceIs DEF KeysOf
<1>5. Place(k, t[b]) # 0 => /\ Place(k, t[b]) \in 1 .. Len(t[b])
                            /\ t[b][Place(k, t[b])].key = k
  BY <1>2, PlaceIs
<1>6. Place(k, t[b]) # 0 => k \in KeysOf(t, c)
  BY <1>1, <1>5 DEF KeysOf
<1>7. \A m, n \in 1 .. Len(t[b]) : t[b][m].key = t[b][n].key => m = n
  BY <1>1, TableFacts
<1> HIDE DEF b
<1>8. Place(k, t[b]) # 0 =>
        \A n \in 1 .. Len(t[b]) : t[b][n].key = k => n = Place(k, t[b])
  BY <1>5, <1>7
<1> QED
  BY <1>1, <1>2, <1>4, <1>5, <1>6, <1>8 DEF b

LEMMA NoKeys ==
    ASSUME NEW t
    PROVE  KeysOf(t, 0) = {} /\ \A k, v : ~Maps(t, 0, k, v)
<1>1. \A b \in 0 .. 0 - 1 : FALSE
  OBVIOUS
<1> QED
  BY <1>1 DEF KeysOf, Maps

\* find returns the one value the table has for the key.
ValueIn(t, c, k) ==
    LET chain == IF c = 0 THEN <<>> ELSE t[BucketOf(k, c)]
        p == Place(k, chain)
    IN IF p = 0 THEN NoValue ELSE chain[p].value

LEMMA ValueInIs ==
    ASSUME NEW t, NEW c, IsTable(t, c), NEW k \in Key
    PROVE  /\ ValueIn(t, c, k) = NoValue <=> k \notin KeysOf(t, c)
           /\ k \in KeysOf(t, c) => ValueIn(t, c, k) \in Value
           /\ \A v : Maps(t, c, k, v) <=> k \in KeysOf(t, c) /\ v = ValueIn(t, c, k)
<1>1. CASE c = 0
  <2>1. Place(k, <<>>) = 0
    <3>1. <<>> \in Seq(Node) /\ Len(<<>>) = 0
      OBVIOUS
    <3>2. Place(k, <<>>) \in 0 .. 0
      BY <3>1, PlaceIs
    <3> QED
      BY <3>2
  <2>2. ValueIn(t, c, k) = NoValue
    BY <1>1, <2>1 DEF ValueIn
  <2> QED
    BY <1>1, <2>2, NoKeys
<1>2. CASE c # 0
  <2> DEFINE b == BucketOf(k, c)
             p == Place(k, t[b])
  <2>1. ValueIn(t, c, k) = IF p = 0 THEN NoValue ELSE t[b][p].value
    BY <1>2 DEF ValueIn
  <2>2. /\ b \in 0 .. c - 1
        /\ t[b] \in Seq(Node)
        /\ k \in KeysOf(t, c) <=> p # 0
        /\ k \in KeysOf(t, c) =>
             /\ p \in 1 .. Len(t[b])
             /\ t[b][p].key = k
             /\ \A n \in 1 .. Len(t[b]) : t[b][n].key = k => n = p
    BY <1>2, KeyPlace
  <2> HIDE DEF p
  <2>3. k \in KeysOf(t, c) => t[b][p].value \in Value
    BY <2>2, ChainFacts
  <2>4. NoValue \notin Value
    BY MapAssumption
  <2>5. ASSUME NEW v, Maps(t, c, k, v)
        PROVE  k \in KeysOf(t, c) /\ v = ValueIn(t, c, k)
    <3>1. PICK d \in 0 .. c - 1 : \E n \in 1 .. Len(t[d]) :
              t[d][n].key = k /\ t[d][n].value = v
      BY <2>5 DEF Maps
    <3>2. d = b
      BY <3>1, TableFacts
    <3>3. k \in KeysOf(t, c)
      BY <3>1 DEF KeysOf
    <3> QED
      BY <2>1, <2>2, <3>1, <3>2, <3>3
  <2>6. ASSUME NEW v, k \in KeysOf(t, c), v = ValueIn(t, c, k)
        PROVE  Maps(t, c, k, v)
    BY <2>1, <2>2, <2>6 DEF Maps
  <2> QED
    BY <2>1, <2>2, <2>3, <2>4, <2>5, <2>6
<1> QED
  BY <1>1, <1>2

LEMMA ValueIs ==
    ASSUME IsTable(buckets, capacity), NEW k \in Key
    PROVE  /\ ValueOf(k) = NoValue <=> k \notin Present
           /\ Has(k) <=> k \in Present
           /\ k \in Present => ValueOf(k) \in Value
           /\ \A v : Maps(buckets, capacity, k, v) <=> k \in Present /\ v = ValueOf(k)
<1>1. ValueOf(k) = ValueIn(buckets, capacity, k)
  BY DEF ValueOf, ValueIn
<1> QED
  BY <1>1, ValueInIs DEF Has, Present

\* Two tables that hold the same hold it under the same keys.
LEMMA SameValues ==
    ASSUME NEW t, NEW c, IsTable(t, c), NEW u, NEW d, IsTable(u, d), NEW k \in Key,
           \A v : Maps(u, d, k, v) <=> Maps(t, c, k, v)
    PROVE  /\ k \in KeysOf(u, d) <=> k \in KeysOf(t, c)
           /\ ValueIn(u, d, k) = ValueIn(t, c, k)
<1>1. /\ ValueIn(t, c, k) = NoValue <=> k \notin KeysOf(t, c)
      /\ \A v : Maps(t, c, k, v) <=> k \in KeysOf(t, c) /\ v = ValueIn(t, c, k)
  BY ValueInIs
<1>2. /\ ValueIn(u, d, k) = NoValue <=> k \notin KeysOf(u, d)
      /\ \A v : Maps(u, d, k, v) <=> k \in KeysOf(u, d) /\ v = ValueIn(u, d, k)
  BY ValueInIs
<1>3. \A v : (k \in KeysOf(u, d) /\ v = ValueIn(u, d, k)) <=>
             (k \in KeysOf(t, c) /\ v = ValueIn(t, c, k))
  BY <1>1, <1>2
<1> QED
  BY <1>1, <1>2, <1>3

-----------------------------------------------------------------------------
(* One chain is replaced: what the table holds is what the new chain holds  *)
(* of its bucket, and what the table held of the others.                    *)

InChain(s, k) == \E n \in 1 .. Len(s) : s[n].key = k
ChainMaps(s, k, v) == \E n \in 1 .. Len(s) : s[n].key = k /\ s[n].value = v
ChainPrecedes(s, k, l) ==
    \E m, n \in 1 .. Len(s) : m < n /\ s[m].key = k /\ s[n].key = l

LEMMA OwnChain ==
    ASSUME NEW t, NEW c, IsTable(t, c), c # 0, NEW k \in Key
    PROVE  /\ k \in KeysOf(t, c) <=> InChain(t[BucketOf(k, c)], k)
           /\ \A v : Maps(t, c, k, v) <=> ChainMaps(t[BucketOf(k, c)], k, v)
           /\ \A l \in Key : Precedes(t, c, k, l) <=>
                \/ BucketOf(k, c) < BucketOf(l, c)
                \/ BucketOf(k, c) = BucketOf(l, c) /\ ChainPrecedes(t[BucketOf(k, c)], k, l)
<1> DEFINE b == BucketOf(k, c)
<1>1. b \in 0 .. c - 1
  BY BucketRange DEF IsTable
<1>2. \A d \in 0 .. c - 1 : \A n \in 1 .. Len(t[d]) : BucketOf(t[d][n].key, c) = d
  BY TableFacts
<1>3. k \in KeysOf(t, c) <=> InChain(t[b], k)
  BY <1>1, <1>2 DEF KeysOf, InChain
<1>4. ASSUME NEW v
      PROVE  Maps(t, c, k, v) <=> ChainMaps(t[b], k, v)
  BY <1>1, <1>2 DEF Maps, ChainMaps
<1>5. ASSUME NEW l \in Key
      PROVE  Precedes(t, c, k, l) <=>
                \/ b < BucketOf(l, c)
                \/ b = BucketOf(l, c) /\ ChainPrecedes(t[b], k, l)
  BY <1>1, <1>2 DEF Precedes, ChainPrecedes
<1> QED
  BY <1>3, <1>4, <1>5

LEMMA ChainReplaced ==
    ASSUME NEW t, NEW c, IsTable(t, c), NEW b \in 0 .. c - 1,
           NEW s \in Seq(Node), Chain(s, b, c),
           NEW u, u = [t EXCEPT ![b] = s]
    PROVE  /\ IsTable(u, c)
           /\ \A k \in Key :
                /\ k \in KeysOf(u, c) <=>
                     IF BucketOf(k, c) = b THEN InChain(s, k) ELSE k \in KeysOf(t, c)
                /\ \A v : Maps(u, c, k, v) <=>
                     IF BucketOf(k, c) = b THEN ChainMaps(s, k, v) ELSE Maps(t, c, k, v)
           /\ \A k, l \in Key :
                /\ Precedes(t, c, k, l)
                /\ ChainPrecedes(t[b], k, l) => ChainPrecedes(s, k, l)
                => Precedes(u, c, k, l)
<1>1. /\ c \in Nat /\ c # 0
      /\ t \in [0 .. c - 1 -> Seq(Node)]
      /\ \A d \in 0 .. c - 1 : Chain(t[d], d, c)
  BY DEF IsTable
<1>2. /\ u \in [0 .. c - 1 -> Seq(Node)]
      /\ u[b] = s
      /\ \A d \in 0 .. c - 1 : d # b => u[d] = t[d]
  BY <1>1
<1>3. IsTable(u, c)
  BY <1>1, <1>2 DEF IsTable
<1>4. ASSUME NEW k \in Key
      PROVE  /\ k \in KeysOf(u, c) <=>
                  IF BucketOf(k, c) = b THEN InChain(s, k) ELSE k \in KeysOf(t, c)
             /\ \A v : Maps(u, c, k, v) <=>
                  IF BucketOf(k, c) = b THEN ChainMaps(s, k, v) ELSE Maps(t, c, k, v)
  <2>1. BucketOf(k, c) \in 0 .. c - 1
    BY <1>1, BucketRange
  <2>2. CASE BucketOf(k, c) = b
    BY <1>1, <1>2, <1>3, <2>2, OwnChain
  <2>3. CASE BucketOf(k, c) # b
    <3>1. u[BucketOf(k, c)] = t[BucketOf(k, c)]
      BY <1>2, <2>1, <2>3
    <3>2. k \in KeysOf(u, c) <=> k \in KeysOf(t, c)
      BY <1>1, <1>3, <3>1, OwnChain
    <3>3. ASSUME NEW v
          PROVE  Maps(u, c, k, v) <=> Maps(t, c, k, v)
      <4>1. Maps(u, c, k, v) <=> ChainMaps(u[BucketOf(k, c)], k, v)
        BY <1>1, <1>3, OwnChain
      <4>2. Maps(t, c, k, v) <=> ChainMaps(t[BucketOf(k, c)], k, v)
        BY <1>1, OwnChain
      <4> QED
        BY <3>1, <4>1, <4>2
    <3> QED
      BY <2>3, <3>2, <3>3
  <2> QED
    BY <2>2, <2>3
<1>5. ASSUME NEW k \in Key, NEW l \in Key, Precedes(t, c, k, l),
             ChainPrecedes(t[b], k, l) => ChainPrecedes(s, k, l)
      PROVE  Precedes(u, c, k, l)
  <2>1. BucketOf(k, c) \in 0 .. c - 1
    BY <1>1, BucketRange
  <2>2. \/ BucketOf(k, c) < BucketOf(l, c)
        \/ BucketOf(k, c) = BucketOf(l, c) /\ ChainPrecedes(t[BucketOf(k, c)], k, l)
    BY <1>1, <1>5, OwnChain
  <2>3. ChainPrecedes(t[BucketOf(k, c)], k, l) => ChainPrecedes(u[BucketOf(k, c)], k, l)
    BY <1>2, <1>5, <2>1
  <2> QED
    BY <1>1, <1>3, <2>2, <2>3, OwnChain
<1> QED
  BY <1>3, <1>4, <1>5

-----------------------------------------------------------------------------
(* Writing and erasing.                                                     *)

WrittenChain(s, k, v) ==
    IF Place(k, s) # 0 THEN [s EXCEPT ![Place(k, s)].value = v]
    ELSE Cons([key |-> k, value |-> v], s)

LEMMA WrittenChainIs ==
    ASSUME NEW c, NEW b, NEW s \in Seq(Node), Chain(s, b, c),
           NEW k \in Key, BucketOf(k, c) = b, NEW v \in Value
    PROVE  /\ WrittenChain(s, k, v) \in Seq(Node)
           /\ Chain(WrittenChain(s, k, v), b, c)
           /\ \A l : InChain(WrittenChain(s, k, v), l) <=> l = k \/ InChain(s, l)
           /\ \A l, w : ChainMaps(WrittenChain(s, k, v), l, w) <=>
                IF l = k THEN w = v ELSE ChainMaps(s, l, w)
           /\ \A l, m : ChainPrecedes(s, l, m) =>
                ChainPrecedes(WrittenChain(s, k, v), l, m)
<1> DEFINE p == Place(k, s)
           r == WrittenChain(s, k, v)
           x == [key |-> k, value |-> v]
<1>1. x \in Node /\ x.key = k /\ x.value = v
  BY DEF Node
<1>2. /\ Len(s) \in Nat
      /\ \A n \in 1 .. Len(s) : s[n] \in Node /\ s[n].key \in Key /\ s[n].value \in Value
  BY ChainFacts
<1>3. /\ \A n \in 1 .. Len(s) : BucketOf(s[n].key, c) = b
      /\ \A m, n \in 1 .. Len(s) : s[m].key = s[n].key => m = n
  BY DEF Chain
<1>4. CASE p # 0
  <2>1. p \in 1 .. Len(s) /\ s[p].key = k
    BY <1>4, PlaceIs
  <2>2. r = [s EXCEPT ![p].value = v]
    BY <1>4 DEF WrittenChain
  <2> HIDE DEF p, r
  <2>3. [s[p] EXCEPT !.value = v] \in Node
    BY <1>2, <2>1 DEF Node
  <2>4. r \in Seq(Node) /\ Len(r) = Len(s)
    BY <2>1, <2>2, <2>3, ExceptSeq
  <2>5. \A n \in 1 .. Len(s) :
           /\ r[n].key = s[n].key
           /\ r[n].value = IF n = p THEN v ELSE s[n].value
    BY <1>2, <2>1, <2>2 DEF Node
  <2>6. Chain(r, b, c)
    BY <1>3, <2>4, <2>5 DEF Chain
  <2>7. \A l : InChain(r, l) <=> l = k \/ InChain(s, l)
    BY <2>1, <2>4, <2>5 DEF InChain
  <2>8. ASSUME NEW l, NEW w
        PROVE  ChainMaps(r, l, w) <=> IF l = k THEN w = v ELSE ChainMaps(s, l, w)
    <3>1. \A n \in 1 .. Len(s) : s[n].key = k <=> n = p
      BY <1>3, <2>1
    <3> QED
      BY <2>1, <2>4, <2>5, <3>1 DEF ChainMaps
  <2>9. \A l, m : ChainPrecedes(s, l, m) => ChainPrecedes(r, l, m)
    BY <2>4, <2>5 DEF ChainPrecedes
  <2> QED
    BY <2>4, <2>6, <2>7, <2>8, <2>9 DEF r
<1>5. CASE p = 0
  <2>1. \A n \in 1 .. Len(s) : s[n].key # k
    BY <1>5, PlaceIs
  <2>2. r = Cons(x, s)
    BY <1>5 DEF WrittenChain
  <2> HIDE DEF p, r, x
  <2>3. /\ r \in Seq(Node) /\ Len(r) = Len(s) + 1 /\ r[1] = x
        /\ \A n \in 2 .. Len(s) + 1 : r[n] = s[n - 1]
    <3>1. x \in Node /\ s \in Seq(Node)
      BY <1>1
    <3>2. /\ Cons(x, s) \in Seq(Node)
          /\ Len(Cons(x, s)) = Len(s) + 1
          /\ Cons(x, s)[1] = x
          /\ \A n \in 2 .. Len(s) + 1 : Cons(x, s)[n] = s[n - 1]
      BY <3>1, PushProperties
    <3> QED
      BY <2>2, <3>2
  <2>4. \A n \in 1 .. Len(r) : n = 1 \/ (n \in 2 .. Len(s) + 1 /\ n - 1 \in 1 .. Len(s))
    BY <1>2, <2>3
  <2>5. \A n \in 1 .. Len(s) : n + 1 \in 2 .. Len(s) + 1 /\ n + 1 \in 1 .. Len(r) /\ r[n + 1] = s[n]
    BY <1>2, <2>3
  <2>6. 1 \in 1 .. Len(r)
    BY <1>2, <2>3
  <2>7. Chain(r, b, c)
    <3>1. \A n \in 1 .. Len(r) : BucketOf(r[n].key, c) = b
      BY <1>1, <1>3, <2>3, <2>4
    <3>2. ASSUME NEW m \in 1 .. Len(r), NEW n \in 1 .. Len(r), r[m].key = r[n].key
          PROVE  m = n
      <4>1. CASE m = 1
        BY <1>1, <2>1, <2>3, <2>4, <3>2, <4>1
      <4>2. CASE n = 1
        BY <1>1, <2>1, <2>3, <2>4, <3>2, <4>2
      <4>3. CASE m # 1 /\ n # 1
        <5>1. m - 1 = n - 1
          BY <1>3, <2>3, <2>4, <3>2, <4>3
        <5> QED
          BY <5>1
      <4> QED
        BY <4>1, <4>2, <4>3
    <3> QED
      BY <3>1, <3>2 DEF Chain
  <2>8. \A l : InChain(r, l) <=> l = k \/ InChain(s, l)
    BY <1>1, <2>3, <2>4, <2>5, <2>6 DEF InChain
  <2>9. ASSUME NEW l, NEW w
        PROVE  ChainMaps(r, l, w) <=> IF l = k THEN w = v ELSE ChainMaps(s, l, w)
    <3>1. CASE l = k
      BY <1>1, <2>1, <2>3, <2>4, <2>6, <3>1 DEF ChainMaps
    <3>2. CASE l # k
      <4>1. ASSUME NEW n \in 1 .. Len(r), r[n].key = l, r[n].value = w
            PROVE  ChainMaps(s, l, w)
        <5>1. n # 1
          BY <1>1, <2>3, <3>2, <4>1
        <5>2. n - 1 \in 1 .. Len(s) /\ r[n] = s[n - 1]
          BY <2>3, <2>4, <5>1
        <5> QED
          BY <4>1, <5>2 DEF ChainMaps
      <4>2. ASSUME NEW n \in 1 .. Len(s), s[n].key = l, s[n].value = w
            PROVE  ChainMaps(r, l, w)
        BY <2>5, <4>2 DEF ChainMaps
      <4> QED
        BY <3>2, <4>1, <4>2 DEF ChainMaps
    <3> QED
      BY <3>1, <3>2
  <2>10. ASSUME NEW l, NEW m, ChainPrecedes(s, l, m)
         PROVE  ChainPrecedes(r, l, m)
    <3>1. PICK i \in 1 .. Len(s), j \in 1 .. Len(s) :
              i < j /\ s[i].key = l /\ s[j].key = m
      BY <2>10 DEF ChainPrecedes
    <3>2. i + 1 < j + 1
      BY <3>1
    <3> QED
      BY <2>5, <3>1, <3>2 DEF ChainPrecedes
  <2> QED
    BY <2>3, <2>7, <2>8, <2>9, <2>10 DEF r
<1> QED
  BY <1>4, <1>5

Written(t, c, k, v) ==
    [t EXCEPT ![BucketOf(k, c)] = WrittenChain(t[BucketOf(k, c)], k, v)]

LEMMA WrittenIs ==
    ASSUME NEW t, NEW c, IsTable(t, c), c # 0, NEW k \in Key, NEW v \in Value
    PROVE  /\ IsTable(Written(t, c, k, v), c)
           /\ KeysOf(Written(t, c, k, v), c) = KeysOf(t, c) \cup {k}
           /\ \A l \in Key : \A w : Maps(Written(t, c, k, v), c, l, w) <=>
                IF l = k THEN w = v ELSE Maps(t, c, l, w)
           /\ \A l, m \in Key :
                Precedes(t, c, l, m) => Precedes(Written(t, c, k, v), c, l, m)
<1> DEFINE b == BucketOf(k, c)
           s == t[b]
           r == WrittenChain(s, k, v)
           u == Written(t, c, k, v)
<1>1. b \in 0 .. c - 1
  BY BucketRange DEF IsTable
<1>2. s \in Seq(Node) /\ Chain(s, b, c)
  BY <1>1 DEF IsTable
<1>3. /\ r \in Seq(Node) /\ Chain(r, b, c)
      /\ \A l : InChain(r, l) <=> l = k \/ InChain(s, l)
      /\ \A l, w : ChainMaps(r, l, w) <=> IF l = k THEN w = v ELSE ChainMaps(s, l, w)
      /\ \A l, m : ChainPrecedes(s, l, m) => ChainPrecedes(r, l, m)
  BY <1>2, WrittenChainIs
<1>4. u = [t EXCEPT ![b] = r]
  BY DEF Written
<1> HIDE DEF r, u
<1>5. /\ IsTable(u, c)
      /\ \A l \in Key :
           /\ l \in KeysOf(u, c) <=>
                IF BucketOf(l, c) = b THEN InChain(r, l) ELSE l \in KeysOf(t, c)
           /\ \A w : Maps(u, c, l, w) <=>
                IF BucketOf(l, c) = b THEN ChainMaps(r, l, w) ELSE Maps(t, c, l, w)
      /\ \A l, m \in Key :
           /\ Precedes(t, c, l, m)
           /\ ChainPrecedes(s, l, m) => ChainPrecedes(r, l, m)
           => Precedes(u, c, l, m)
  <2>1. b \in 0 .. c - 1 /\ r \in Seq(Node) /\ Chain(r, b, c)
    BY <1>1, <1>3
  <2> HIDE DEF b
  <2> QED
    BY <1>4, <2>1, ChainReplaced
<1>6. \A l \in Key : BucketOf(l, c) = b =>
        /\ l \in KeysOf(t, c) <=> InChain(s, l)
        /\ \A w : Maps(t, c, l, w) <=> ChainMaps(s, l, w)
  BY OwnChain
<1> HIDE DEF s
<1>7. KeysOf(u, c) = KeysOf(t, c) \cup {k}
  <2>1. \A l \in Key : l \in KeysOf(u, c) <=> l = k \/ l \in KeysOf(t, c)
    BY <1>3, <1>5, <1>6
  <2> QED
    BY <2>1 DEF KeysOf
<1>8. ASSUME NEW l \in Key, NEW w
      PROVE  Maps(u, c, l, w) <=> IF l = k THEN w = v ELSE Maps(t, c, l, w)
  BY <1>3, <1>5, <1>6
<1>9. \A l, m \in Key : Precedes(t, c, l, m) => Precedes(u, c, l, m)
  BY <1>3, <1>5
<1> QED
  BY <1>5, <1>7, <1>8, <1>9 DEF u

LEMMA ErasedChainIs ==
    ASSUME NEW c, NEW b, NEW s \in Seq(Node), Chain(s, b, c),
           NEW k, NEW p \in 1 .. Len(s), s[p].key = k
    PROVE  /\ RemoveAt(s, p) \in Seq(Node)
           /\ Chain(RemoveAt(s, p), b, c)
           /\ \A l : InChain(RemoveAt(s, p), l) <=> l # k /\ InChain(s, l)
           /\ \A l, w : ChainMaps(RemoveAt(s, p), l, w) <=> l # k /\ ChainMaps(s, l, w)
           /\ \A l, m : l # k /\ m # k /\ ChainPrecedes(s, l, m) =>
                ChainPrecedes(RemoveAt(s, p), l, m)
<1> DEFINE r == RemoveAt(s, p)
           old == [n \in 1 .. Len(r) |-> IF n < p THEN n ELSE n + 1]
<1>1. /\ Len(s) \in Nat
      /\ \A n \in 1 .. Len(s) : BucketOf(s[n].key, c) = b
      /\ \A m, n \in 1 .. Len(s) : s[m].key = s[n].key => m = n
  BY ChainFacts DEF Chain
<1>2. /\ r \in Seq(Node) /\ Len(r) = Len(s) - 1
      /\ \A n \in 1 .. Len(s) - 1 : r[n] = IF n < p THEN s[n] ELSE s[n + 1]
  BY RemoveAtType, RemoveAtProperties
<1> HIDE DEF r
<1>3. \A n \in 1 .. Len(r) : old[n] \in 1 .. Len(s) /\ old[n] # p /\ r[n] = s[old[n]]
  BY <1>1, <1>2
<1>4. \A n \in 1 .. Len(s) : n # p => \E m \in 1 .. Len(r) : old[m] = n
  <2> SUFFICES ASSUME NEW n \in 1 .. Len(s), n # p
               PROVE  \E m \in 1 .. Len(r) : old[m] = n
    OBVIOUS
  <2>1. CASE n < p
    <3>1. n \in 1 .. Len(r) /\ old[n] = n
      BY <1>1, <1>2, <2>1
    <3> QED
      BY <3>1
  <2>2. CASE n > p
    <3>1. n - 1 \in 1 .. Len(r) /\ old[n - 1] = n
      BY <1>1, <1>2, <2>2
    <3> QED
      BY <3>1
  <2> QED
    BY <1>1, <2>1, <2>2
<1>5. \A m, n \in 1 .. Len(r) : old[m] = old[n] => m = n
  BY <1>1, <1>2
<1>6. \A m, n \in 1 .. Len(r) : old[m] < old[n] => m < n
  BY <1>1, <1>2
<1> HIDE DEF old
<1>7. Chain(r, b, c)
  <2>1. \A n \in 1 .. Len(r) : BucketOf(r[n].key, c) = b
    BY <1>1, <1>3
  <2>2. ASSUME NEW m \in 1 .. Len(r), NEW n \in 1 .. Len(r), r[m].key = r[n].key
        PROVE  m = n
    <3>1. old[m] = old[n]
      BY <1>1, <1>3, <2>2
    <3> QED
      BY <1>5, <3>1
  <2> QED
    BY <2>1, <2>2 DEF Chain
<1>8. \A n \in 1 .. Len(r) : r[n].key # k
  BY <1>1, <1>3
<1>9. ASSUME NEW n \in 1 .. Len(s), s[n].key # k
      PROVE  \E m \in 1 .. Len(r) : old[m] = n /\ r[m] = s[n]
  <2>1. PICK m \in 1 .. Len(r) : old[m] = n
    BY <1>4, <1>9
  <2> QED
    BY <1>3, <2>1
<1>10. ASSUME NEW l
       PROVE  InChain(r, l) <=> l # k /\ InChain(s, l)
  BY <1>3, <1>8, <1>9 DEF InChain
<1>11. ASSUME NEW l, NEW w
       PROVE  ChainMaps(r, l, w) <=> l # k /\ ChainMaps(s, l, w)
  BY <1>3, <1>8, <1>9 DEF ChainMaps
<1>12. ASSUME NEW l, NEW m, l # k, m # k, ChainPrecedes(s, l, m)
       PROVE  ChainPrecedes(r, l, m)
  <2>1. PICK i \in 1 .. Len(s), j \in 1 .. Len(s) :
            i < j /\ s[i].key = l /\ s[j].key = m
    BY <1>12 DEF ChainPrecedes
  <2>2. PICK i2 \in 1 .. Len(r) : old[i2] = i /\ r[i2] = s[i]
    BY <1>9, <1>12, <2>1
  <2>3. PICK j2 \in 1 .. Len(r) : old[j2] = j /\ r[j2] = s[j]
    BY <1>9, <1>12, <2>1
  <2>4. i2 < j2
    BY <1>6, <2>1, <2>2, <2>3
  <2> QED
    BY <2>1, <2>2, <2>3, <2>4 DEF ChainPrecedes
<1> QED
  BY <1>2, <1>7, <1>10, <1>11, <1>12 DEF r

Erased(t, c, k) ==
    [t EXCEPT ![BucketOf(k, c)] =
        RemoveAt(t[BucketOf(k, c)], Place(k, t[BucketOf(k, c)]))]

LEMMA ErasedIs ==
    ASSUME NEW t, NEW c, IsTable(t, c), c # 0, NEW k \in KeysOf(t, c)
    PROVE  /\ IsTable(Erased(t, c, k), c)
           /\ KeysOf(Erased(t, c, k), c) = KeysOf(t, c) \ {k}
           /\ \A l \in Key : \A w : Maps(Erased(t, c, k), c, l, w) <=> l # k /\ Maps(t, c, l, w)
           /\ \A l, m \in Key : l # k /\ m # k /\ Precedes(t, c, l, m) =>
                Precedes(Erased(t, c, k), c, l, m)
<1> DEFINE b == BucketOf(k, c)
           s == t[b]
           p == Place(k, s)
           r == RemoveAt(s, p)
           u == Erased(t, c, k)
<1>0. k \in Key
  BY DEF KeysOf
<1>1. b \in 0 .. c - 1 /\ p \in 1 .. Len(s) /\ s[p].key = k
  BY <1>0, KeyPlace
<1>2. s \in Seq(Node) /\ Chain(s, b, c)
  BY <1>1 DEF IsTable
<1>3. u = [t EXCEPT ![b] = r]
  BY DEF Erased
<1> HIDE DEF p
<1>4. /\ r \in Seq(Node) /\ Chain(r, b, c)
      /\ \A l : InChain(r, l) <=> l # k /\ InChain(s, l)
      /\ \A l, w : ChainMaps(r, l, w) <=> l # k /\ ChainMaps(s, l, w)
      /\ \A l, m : l # k /\ m # k /\ ChainPrecedes(s, l, m) => ChainPrecedes(r, l, m)
  BY <1>1, <1>2, ErasedChainIs
<1> HIDE DEF r, u
<1>5. /\ IsTable(u, c)
      /\ \A l \in Key :
           /\ l \in KeysOf(u, c) <=>
                IF BucketOf(l, c) = b THEN InChain(r, l) ELSE l \in KeysOf(t, c)
           /\ \A w : Maps(u, c, l, w) <=>
                IF BucketOf(l, c) = b THEN ChainMaps(r, l, w) ELSE Maps(t, c, l, w)
      /\ \A l, m \in Key :
           /\ Precedes(t, c, l, m)
           /\ ChainPrecedes(s, l, m) => ChainPrecedes(r, l, m)
           => Precedes(u, c, l, m)
  <2>1. b \in 0 .. c - 1 /\ r \in Seq(Node) /\ Chain(r, b, c)
    BY <1>1, <1>4
  <2> HIDE DEF b
  <2> QED
    BY <1>3, <2>1, ChainReplaced
<1>6. \A l \in Key : BucketOf(l, c) = b =>
        /\ l \in KeysOf(t, c) <=> InChain(s, l)
        /\ \A w : Maps(t, c, l, w) <=> ChainMaps(s, l, w)
  BY OwnChain
<1> HIDE DEF s
<1>7. KeysOf(u, c) = KeysOf(t, c) \ {k}
  <2>1. \A l \in Key : l \in KeysOf(u, c) <=> l # k /\ l \in KeysOf(t, c)
    BY <1>4, <1>5, <1>6
  <2> QED
    BY <2>1 DEF KeysOf
<1>8. ASSUME NEW l \in Key, NEW w
      PROVE  Maps(u, c, l, w) <=> l # k /\ Maps(t, c, l, w)
  BY <1>4, <1>5, <1>6
<1>9. \A l, m \in Key : l # k /\ m # k /\ Precedes(t, c, l, m) => Precedes(u, c, l, m)
  BY <1>4, <1>5
<1> QED
  BY <1>5, <1>7, <1>8, <1>9 DEF u

-----------------------------------------------------------------------------
(* Nodes lists what the table holds, each node once.                        *)

\* s lists the first n chains.
Lists(s, n) ==
    /\ s \in Seq(Node)
    /\ \A i \in 1 .. Len(s) : \E b \in 0 .. n - 1 : \E m \in 1 .. Len(buckets[b]) :
           s[i] = buckets[b][m]
    /\ \A b \in 0 .. n - 1 : \A m \in 1 .. Len(buckets[b]) : \E i \in 1 .. Len(s) :
           s[i] = buckets[b][m]
    /\ \A i, j \in 1 .. Len(s) : s[i].key = s[j].key => i = j

LEMMA ListsNone == Lists(<<>>, 0)
<1>1. <<>> \in Seq(Node) /\ Len(<<>>) = 0
  OBVIOUS
<1>2. (\A i \in 1 .. 0 : FALSE) /\ (\A b \in 0 .. 0 - 1 : FALSE)
  OBVIOUS
<1> QED
  BY <1>1, <1>2 DEF Lists

LEMMA ListsNext ==
    ASSUME IsTable(buckets, capacity), NEW n \in 0 .. capacity - 1, NEW s, Lists(s, n)
    PROVE  Lists(s \o buckets[n], n + 1)
<1> DEFINE r == buckets[n]
           q == s \o r
<1>1. /\ s \in Seq(Node) /\ r \in Seq(Node)
      /\ Len(s) \in Nat /\ Len(r) \in Nat
      /\ \A m \in 1 .. Len(r) : BucketOf(r[m].key, capacity) = n
      /\ \A l, m \in 1 .. Len(r) : r[l].key = r[m].key => l = m
  BY TableFacts DEF Lists
<1>2. capacity \in Nat
  BY DEF IsTable
<1>3. /\ q \in Seq(Node) /\ Len(q) = Len(s) + Len(r)
      /\ \A i \in 1 .. Len(s) + Len(r) : q[i] = IF i <= Len(s) THEN s[i] ELSE r[i - Len(s)]
  BY <1>1, ConcatProperties
<1> HIDE DEF q
<1>4. \A i \in 1 .. Len(s) : i \in 1 .. Len(q) /\ q[i] = s[i]
  BY <1>1, <1>3
<1>5. \A m \in 1 .. Len(r) : Len(s) + m \in 1 .. Len(q) /\ q[Len(s) + m] = r[m]
  BY <1>1, <1>3
<1>6. ASSUME NEW i \in 1 .. Len(q)
      PROVE  \/ i \in 1 .. Len(s) /\ q[i] = s[i]
             \/ i - Len(s) \in 1 .. Len(r) /\ q[i] = r[i - Len(s)]
  BY <1>1, <1>3
<1>7. \A i \in 1 .. Len(s) : BucketOf(s[i].key, capacity) \in 0 .. n - 1
  <2> SUFFICES ASSUME NEW i \in 1 .. Len(s)
               PROVE  BucketOf(s[i].key, capacity) \in 0 .. n - 1
    OBVIOUS
  <2>1. PICK b \in 0 .. n - 1 : \E m \in 1 .. Len(buckets[b]) : s[i] = buckets[b][m]
    BY DEF Lists
  <2>2. b \in 0 .. capacity - 1
    BY <1>2
  <2> QED
    BY <2>1, <2>2, TableFacts
<1>12. \A i \in 1 .. Len(s), m \in 1 .. Len(r) : s[i].key # r[m].key
  <2>1. n \notin 0 .. n - 1
    OBVIOUS
  <2> QED
    BY <1>1, <1>7, <2>1
<1>8. ASSUME NEW i \in 1 .. Len(q)
      PROVE  \E b \in 0 .. (n + 1) - 1 : \E m \in 1 .. Len(buckets[b]) : q[i] = buckets[b][m]
  <2>1. CASE i \in 1 .. Len(s) /\ q[i] = s[i]
    <3>1. PICK b \in 0 .. n - 1 : \E m \in 1 .. Len(buckets[b]) : s[i] = buckets[b][m]
      BY <2>1 DEF Lists
    <3>2. b \in 0 .. (n + 1) - 1
      OBVIOUS
    <3> QED
      BY <2>1, <3>1, <3>2
  <2>2. CASE i - Len(s) \in 1 .. Len(r) /\ q[i] = r[i - Len(s)]
    <3>1. n \in 0 .. (n + 1) - 1
      OBVIOUS
    <3> QED
      BY <2>2, <3>1
  <2> QED
    BY <1>6, <2>1, <2>2
<1>9. ASSUME NEW b \in 0 .. (n + 1) - 1, NEW m \in 1 .. Len(buckets[b])
      PROVE  \E i \in 1 .. Len(q) : q[i] = buckets[b][m]
  <2>1. CASE b = n
    BY <1>5, <2>1
  <2>2. CASE b # n
    <3>1. b \in 0 .. n - 1
      BY <2>2
    <3>2. PICK i \in 1 .. Len(s) : s[i] = buckets[b][m]
      BY <3>1 DEF Lists
    <3> QED
      BY <1>4, <3>2
  <2> QED
    BY <2>1, <2>2
<1>10. ASSUME NEW i \in 1 .. Len(q), NEW j \in 1 .. Len(q), q[i].key = q[j].key
       PROVE  i = j
  <2>2. CASE i \in 1 .. Len(s) /\ q[i] = s[i]
    <3>1. j \in 1 .. Len(s) /\ q[j] = s[j]
      BY <1>6, <1>10, <1>12, <2>2
    <3> QED
      BY <1>10, <2>2, <3>1 DEF Lists
  <2>3. CASE i - Len(s) \in 1 .. Len(r) /\ q[i] = r[i - Len(s)]
    <3>1. j - Len(s) \in 1 .. Len(r) /\ q[j] = r[j - Len(s)]
      BY <1>6, <1>10, <1>12, <2>3
    <3>2. i - Len(s) = j - Len(s)
      BY <1>1, <1>10, <2>3, <3>1
    <3> QED
      BY <1>1, <3>2
  <2> QED
    BY <1>6, <2>2, <2>3
<1> QED
  BY <1>3, <1>8, <1>9, <1>10 DEF Lists, q

LEMMA NodesAre ==
    ASSUME IsTable(buckets, capacity)
    PROVE  Lists(Nodes, capacity)
<1> DEFINE lists == [n \in 1 .. capacity |-> buckets[n - 1]]
<1>1. /\ capacity \in Nat /\ Len(lists) = capacity
      /\ Nodes = FlattenSeq(lists)
  BY DEF IsTable, Nodes
<1>2. \A n \in 1 .. capacity : lists[n] = buckets[n - 1]
  OBVIOUS
<1>3. CASE capacity = 0
  <2>1. lists = <<>>
    BY <1>3
  <2>2. Nodes = <<>>
    BY <1>1, <2>1 DEF FlattenSeq
  <2> QED
    BY <1>3, <2>2, ListsNone
<1>4. CASE capacity # 0
  <2> HIDE DEF lists
  <2>1. PICK f : Flattens(f, lists, capacity) /\ Nodes = f[capacity]
    BY <1>1, <1>4, FlattenIs
  <2>2. \A i \in 1 .. capacity : f[i] = IF i = 1 THEN lists[i] ELSE f[i - 1] \o lists[i]
    BY <2>1 DEF Flattens
  <2> DEFINE S == {n \in Nat : n \in 1 .. capacity => Lists(f[n], n)}
  <2>3. 0 \in S
    OBVIOUS
  <2>4. ASSUME NEW n \in Nat, n \in S
        PROVE  n + 1 \in S
    <3> SUFFICES ASSUME n + 1 \in 1 .. capacity
                 PROVE  Lists(f[n + 1], n + 1)
      OBVIOUS
    <3>1. n \in 0 .. capacity - 1 /\ n + 1 - 1 = n /\ lists[n + 1] = buckets[n]
      BY <1>1, <1>2
    <3>2. CASE n = 0
      <4>1. f[n + 1] = buckets[n]
        BY <2>2, <3>1, <3>2
      <4>2. buckets[n] \in Seq(Node)
        BY <3>1, TableFacts
      <4>3. <<>> \o buckets[n] = buckets[n]
        BY <4>2, ConcatEmptySeq
      <4>4. Lists(<<>>, n)
        BY <3>2, ListsNone
      <4>5. Lists(<<>> \o buckets[n], n + 1)
        BY <3>1, <4>4, ListsNext
      <4> QED
        BY <4>1, <4>3, <4>5
    <3>3. CASE n # 0
      <4>1. f[n + 1] = f[n] \o buckets[n]
        <5>1. n + 1 # 1
          BY <3>3
        <5>2. ASSUME NEW i \in 1 .. capacity, i # 1
              PROVE  f[i] = f[i - 1] \o lists[i]
          BY <2>2, <5>2
        <5>3. f[n + 1] = f[(n + 1) - 1] \o lists[n + 1]
          BY <5>1, <5>2, Zenon
        <5>4. (n + 1) - 1 = n
          OBVIOUS
        <5>5. lists[n + 1] = buckets[n]
          BY <3>1
        <5> QED
          BY <5>3, <5>4, <5>5, Zenon
      <4>2. Lists(f[n], n)
        BY <1>1, <2>4, <3>1, <3>3
      <4> QED
        BY <3>1, <4>1, <4>2, ListsNext
    <3> QED
      BY <3>2, <3>3
  <2> HIDE DEF S
  <2>5. capacity \in S
    BY <1>1, <2>3, <2>4, SetInduction
  <2> QED
    BY <1>1, <1>4, <2>1, <2>5 DEF S
<1> QED
  BY <1>3, <1>4

\* There are as many nodes as keys.
LEMMA CountIs ==
    ASSUME IsTable(buckets, capacity)
    PROVE  /\ IsFiniteSet(Present)
           /\ Cardinality(Present) = Len(Nodes)
<1> DEFINE f == [i \in 1 .. Len(Nodes) |-> Nodes[i].key]
<1>1. Lists(Nodes, capacity) /\ Nodes \in Seq(Node) /\ Len(Nodes) \in Nat
  BY NodesAre, ChainFacts DEF Lists
<1>2. \A i \in 1 .. Len(Nodes) : f[i] \in Present
  <2> SUFFICES ASSUME NEW i \in 1 .. Len(Nodes) PROVE f[i] \in Present
    OBVIOUS
  <2>1. f[i] = Nodes[i].key /\ Nodes[i].key \in Key
    BY <1>1, ChainFacts
  <2>2. PICK b \in 0 .. capacity - 1 : \E m \in 1 .. Len(buckets[b]) : Nodes[i] = buckets[b][m]
    BY <1>1, Zenon DEF Lists
  <2>3. PICK m \in 1 .. Len(buckets[b]) : Nodes[i] = buckets[b][m]
    BY <2>2
  <2> QED
    BY <2>1, <2>3 DEF Present, KeysOf
<1>3. \A k \in Present : \E i \in 1 .. Len(Nodes) : f[i] = k
  <2> SUFFICES ASSUME NEW k \in Present PROVE \E i \in 1 .. Len(Nodes) : f[i] = k
    OBVIOUS
  <2>1. PICK b \in 0 .. capacity - 1 : \E n \in 1 .. Len(buckets[b]) : buckets[b][n].key = k
    BY DEF Present, KeysOf
  <2>2. PICK n \in 1 .. Len(buckets[b]) : buckets[b][n].key = k
    BY <2>1
  <2>3. PICK i \in 1 .. Len(Nodes) : Nodes[i] = buckets[b][n]
    BY <1>1, Zenon DEF Lists
  <2> QED
    BY <2>2, <2>3
<1>4. \A i, j \in 1 .. Len(Nodes) : f[i] = f[j] => i = j
  BY <1>1 DEF Lists
<1>5. f \in Bijection(1 .. Len(Nodes), Present)
  <2>1. f \in [1 .. Len(Nodes) -> Present]
    BY <1>2
  <2>2. f \in Injection(1 .. Len(Nodes), Present)
    BY <1>4, <2>1 DEF Injection, IsInjective
  <2>3. f \in Surjection(1 .. Len(Nodes), Present)
    BY <1>3, <2>1 DEF Surjection
  <2> QED
    BY <2>2, <2>3 DEF Bijection
<1>6. IsFiniteSet(1 .. Len(Nodes)) /\ Cardinality(1 .. Len(Nodes)) = Len(Nodes)
  BY <1>1, FS_Interval
<1>7. ExistsBijection(1 .. Len(Nodes), Present)
  BY <1>5 DEF ExistsBijection
<1> HIDE DEF f
<1> QED
  BY <1>6, <1>7, FS_Bijection

-----------------------------------------------------------------------------
(* Growing.  The nodes go one after the other into the new table, each with *)
(* a key the new table does not have yet, so that each is written to it.    *)

\* f is the recursion of Rehashed over the first n nodes.
Moves(f, c, n) ==
    f = [i \in 0 .. n |->
            IF i = 0 THEN Empty(c)
            ELSE [f[i - 1] EXCEPT ![BucketOf(Nodes[i].key, c)] = Cons(Nodes[i], @)]]

LEMMA MovesExists ==
    ASSUME NEW c, NEW m \in Nat
    PROVE  \E f : Moves(f, c, m)
<1> DEFINE S == {n \in Nat : \E f : Moves(f, c, n)}
           Step(t, i) == [t EXCEPT ![BucketOf(Nodes[i].key, c)] = Cons(Nodes[i], @)]
<1>1. 0 \in S
  <2> DEFINE e == [i \in 0 .. 0 |-> Empty(c)]
  <2>1. e = [i \in 0 .. 0 |-> IF i = 0 THEN Empty(c) ELSE Step(e[i - 1], i)]
    <3>1. \A i \in 0 .. 0 : i = 0
      OBVIOUS
    <3> HIDE DEF Step
    <3> QED
      BY <3>1
  <2>2. Moves(e, c, 0)
    BY <2>1 DEF Moves
  <2> QED
    BY <2>2
<1>2. ASSUME NEW n \in Nat, n \in S
      PROVE  n + 1 \in S
  <2>1. PICK f : Moves(f, c, n)
    BY <1>2
  <2>2. f = [i \in 0 .. n |-> IF i = 0 THEN Empty(c) ELSE Step(f[i - 1], i)]
    BY <2>1 DEF Moves
  <2> DEFINE g == [i \in 0 .. n + 1 |-> IF i = n + 1 THEN Step(f[n], n + 1) ELSE f[i]]
  <2>3. g = [i \in 0 .. n + 1 |-> IF i = 0 THEN Empty(c) ELSE Step(g[i - 1], i)]
    <3> HIDE DEF Step
    <3> SUFFICES ASSUME NEW i \in 0 .. n + 1
                 PROVE  g[i] = IF i = 0 THEN Empty(c) ELSE Step(g[i - 1], i)
      OBVIOUS
    <3>1. CASE i = n + 1
      <4>1. i # 0 /\ g[i - 1] = f[n] /\ g[i] = Step(f[n], i)
        BY <3>1
      <4> QED
        BY <4>1
    <3>2. CASE i # n + 1
      <4>1. i \in 0 .. n /\ g[i] = f[i]
        BY <3>2
      <4>2. f[i] = IF i = 0 THEN Empty(c) ELSE Step(f[i - 1], i)
        BY <2>2, <4>1
      <4>3. i # 0 => g[i - 1] = f[i - 1]
        BY <4>1
      <4> QED
        BY <4>1, <4>2, <4>3
    <3> QED
      BY <3>1, <3>2
  <2>4. Moves(g, c, n + 1)
    BY <2>3 DEF Moves
  <2> QED
    BY <2>4
<1> HIDE DEF S
<1>3. m \in S
  BY <1>1, <1>2, SetInduction
<1> QED
  BY <1>3 DEF S

LEMMA MovesIs ==
    ASSUME NEW c, Len(Nodes) \in Nat
    PROVE  \E f : Moves(f, c, Len(Nodes)) /\ Rehashed(c) = f[Len(Nodes)]
<1> DEFINE f == CHOOSE f :
                  f = [i \in 0 .. Len(Nodes) |->
                         IF i = 0 THEN Empty(c)
                         ELSE [f[i - 1] EXCEPT ![BucketOf(Nodes[i].key, c)] =
                                 Cons(Nodes[i], @)]]
<1>1. f = [i \in 0 .. Len(Nodes) |->
             IF i = 0 THEN Empty(c)
             ELSE [f[i - 1] EXCEPT ![BucketOf(Nodes[i].key, c)] = Cons(Nodes[i], @)]]
  BY MovesExists, Zenon DEF Moves
<1>2. Rehashed(c) = f[Len(Nodes)]
  BY Zenon DEF Rehashed
<1> HIDE DEF f
<1> QED
  BY <1>1, <1>2 DEF Moves

\* t is a table of the first n nodes.
Moved(t, c, n) ==
    /\ IsTable(t, c)
    /\ \A k \in Key :
         /\ k \in KeysOf(t, c) <=> \E i \in 1 .. n : Nodes[i].key = k
         /\ \A v : Maps(t, c, k, v) <=>
              \E i \in 1 .. n : Nodes[i].key = k /\ Nodes[i].value = v

LEMMA EmptyIs ==
    ASSUME NEW c \in Nat
    PROVE  /\ IsTable(Empty(c), c)
           /\ KeysOf(Empty(c), c) = {}
           /\ \A k, v : ~Maps(Empty(c), c, k, v)
<1>1. \A b \in 0 .. c - 1 : Empty(c)[b] = <<>>
  BY DEF Empty
<1>2. <<>> \in Seq(Node) /\ Len(<<>>) = 0 /\ \A n \in 1 .. 0 : FALSE
  OBVIOUS
<1>3. \A b \in 0 .. c - 1 : Chain(Empty(c)[b], b, c)
  BY <1>1, <1>2 DEF Chain
<1>4. Empty(c) \in [0 .. c - 1 -> Seq(Node)]
  BY <1>2 DEF Empty
<1> QED
  BY <1>1, <1>2, <1>3, <1>4 DEF IsTable, KeysOf, Maps

LEMMA MovedNext ==
    ASSUME IsTable(buckets, capacity), NEW c \in Nat \ {0},
           NEW n \in Nat, n + 1 <= Len(Nodes), NEW t, Moved(t, c, n)
    PROVE  Moved([t EXCEPT ![BucketOf(Nodes[n + 1].key, c)] = Cons(Nodes[n + 1], @)],
                 c, n + 1)
<1> DEFINE x == Nodes[n + 1]
           b == BucketOf(x.key, c)
           u == Written(t, c, x.key, x.value)
<1>1. /\ Nodes \in Seq(Node) /\ Len(Nodes) \in Nat
      /\ \A i, j \in 1 .. Len(Nodes) : Nodes[i].key = Nodes[j].key => i = j
  BY NodesAre DEF Lists
<1>2. x \in Node /\ x.key \in Key /\ x.value \in Value
  <2>1. n + 1 \in 1 .. Len(Nodes)
    BY <1>1
  <2> QED
    BY <1>1, <2>1, ChainFacts
<1>3. \A i \in 1 .. n : Nodes[i].key # x.key
  <2> SUFFICES ASSUME NEW i \in 1 .. n, Nodes[i].key = x.key PROVE FALSE
    OBVIOUS
  <2>1. i \in 1 .. Len(Nodes) /\ n + 1 \in 1 .. Len(Nodes) /\ i # n + 1
    BY <1>1
  <2> QED
    BY <1>1, <2>1
<1>4. IsTable(t, c) /\ x.key \notin KeysOf(t, c)
  BY <1>2, <1>3 DEF Moved
<1> HIDE DEF x
<1>5. Place(x.key, t[b]) = 0
  BY <1>2, <1>4, KeyPlace
<1>6. [key |-> x.key, value |-> x.value] = x
  BY <1>2 DEF Node
<1>7. WrittenChain(t[b], x.key, x.value) = Cons(x, t[b])
  BY <1>5, <1>6, Zenon DEF WrittenChain
<1>8. u = [t EXCEPT ![b] = Cons(x, @)]
  BY <1>7, Zenon DEF Written
<1>9. /\ IsTable(u, c)
      /\ KeysOf(u, c) = KeysOf(t, c) \cup {x.key}
      /\ \A l \in Key : \A w : Maps(u, c, l, w) <=>
            IF l = x.key THEN w = x.value ELSE Maps(t, c, l, w)
  BY <1>2, <1>4, WrittenIs
<1> HIDE DEF u
<1>10. ASSUME NEW k \in Key
       PROVE  /\ k \in KeysOf(u, c) <=> \E i \in 1 .. n + 1 : Nodes[i].key = k
              /\ \A v : Maps(u, c, k, v) <=>
                   \E i \in 1 .. n + 1 : Nodes[i].key = k /\ Nodes[i].value = v
  <2>1. \A i \in 1 .. n + 1 : i = n + 1 \/ i \in 1 .. n
    OBVIOUS
  <2>2. n + 1 \in 1 .. n + 1 /\ \A i \in 1 .. n : i \in 1 .. n + 1
    OBVIOUS
  <2>3. k \in KeysOf(t, c) <=> \E i \in 1 .. n : Nodes[i].key = k
    BY DEF Moved
  <2>4. k \in KeysOf(u, c) <=> \E i \in 1 .. n + 1 : Nodes[i].key = k
    BY <1>9, <2>1, <2>2, <2>3 DEF x
  <2>5. ASSUME NEW v
        PROVE  Maps(u, c, k, v) <=>
                  \E i \in 1 .. n + 1 : Nodes[i].key = k /\ Nodes[i].value = v
    <3>1. Maps(t, c, k, v) <=>
             \E i \in 1 .. n : Nodes[i].key = k /\ Nodes[i].value = v
      BY DEF Moved
    <3>2. Maps(u, c, k, v) <=> IF k = x.key THEN v = x.value ELSE Maps(t, c, k, v)
      BY <1>9
    <3>3. CASE k = x.key
      <4>1. \A i \in 1 .. n + 1 : Nodes[i].key = k <=> i = n + 1
        BY <1>3, <2>1, <3>3 DEF x
      <4> QED
        BY <2>2, <3>2, <3>3, <4>1 DEF x
    <3>4. CASE k # x.key
      BY <2>1, <2>2, <3>1, <3>2, <3>4 DEF x
    <3> QED
      BY <3>3, <3>4
  <2> QED
    BY <2>4, <2>5
<1>11. Moved(u, c, n + 1)
  BY <1>9, <1>10 DEF Moved
<1> QED
  BY <1>8, <1>11 DEF x

\* A grown table holds what the table held.
LEMMA RehashedIs ==
    ASSUME IsTable(buckets, capacity), NEW c \in Nat \ {0}
    PROVE  /\ IsTable(Rehashed(c), c)
           /\ KeysOf(Rehashed(c), c) = Present
           /\ \A k \in Key : \A v : Maps(Rehashed(c), c, k, v) <=> Maps(buckets, capacity, k, v)
<1>1. /\ Nodes \in Seq(Node) /\ Len(Nodes) \in Nat
      /\ Lists(Nodes, capacity)
  BY NodesAre, ChainFacts DEF Lists
<1>2. PICK f : Moves(f, c, Len(Nodes)) /\ Rehashed(c) = f[Len(Nodes)]
  BY <1>1, MovesIs
<1> DEFINE S == {n \in Nat : n <= Len(Nodes) => Moved(f[n], c, n)}
<1>3. 0 \in S
  <2>1. f[0] = Empty(c)
    BY <1>1, <1>2 DEF Moves
  <2>2. \A i \in 1 .. 0 : FALSE
    OBVIOUS
  <2>3. Moved(Empty(c), c, 0)
    BY <2>2, EmptyIs DEF Moved
  <2> QED
    BY <2>1, <2>3
<1>4. ASSUME NEW n \in Nat, n \in S
      PROVE  n + 1 \in S
  <2> SUFFICES ASSUME n + 1 <= Len(Nodes)
               PROVE  Moved(f[n + 1], c, n + 1)
    OBVIOUS
  <2>1. Moved(f[n], c, n)
    BY <1>1, <1>4
  <2> DEFINE b == BucketOf(Nodes[n + 1].key, c)
  <2>2. f[n + 1] = [f[n] EXCEPT ![b] = Cons(Nodes[n + 1], @)]
    <3>1. n + 1 \in 0 .. Len(Nodes) /\ n + 1 # 0 /\ (n + 1) - 1 = n
      BY <1>1
    <3>2. \A i \in 0 .. Len(Nodes) : f[i] =
            IF i = 0 THEN Empty(c)
            ELSE [f[i - 1] EXCEPT ![BucketOf(Nodes[i].key, c)] = Cons(Nodes[i], @)]
      BY <1>2 DEF Moves
    <3>3. f[n + 1] = [f[(n + 1) - 1] EXCEPT ![b] = Cons(Nodes[n + 1], @)]
      BY <3>1, <3>2, Zenon
    <3>4. (n + 1) - 1 = n
      OBVIOUS
    <3> QED
      BY <3>3, <3>4, Zenon
  <2>3. Moved([f[n] EXCEPT ![b] = Cons(Nodes[n + 1], @)], c, n + 1)
    BY <2>1, MovedNext
  <2> QED
    BY <2>2, <2>3, Zenon
<1> HIDE DEF S
<1>5. Len(Nodes) \in S
  BY <1>1, <1>3, <1>4, SetInduction
<1>6. Moved(Rehashed(c), c, Len(Nodes))
  BY <1>1, <1>2, <1>5 DEF S
<1>7. ASSUME NEW k \in Key, NEW v
      PROVE  Maps(buckets, capacity, k, v) <=>
                \E i \in 1 .. Len(Nodes) : Nodes[i].key = k /\ Nodes[i].value = v
  <2>1. ASSUME Maps(buckets, capacity, k, v)
        PROVE  \E i \in 1 .. Len(Nodes) : Nodes[i].key = k /\ Nodes[i].value = v
    <3>1. PICK b \in 0 .. capacity - 1 : \E n \in 1 .. Len(buckets[b]) :
              buckets[b][n].key = k /\ buckets[b][n].value = v
      BY <2>1 DEF Maps
    <3>2. PICK n \in 1 .. Len(buckets[b]) :
              buckets[b][n].key = k /\ buckets[b][n].value = v
      BY <3>1
    <3>3. PICK i \in 1 .. Len(Nodes) : Nodes[i] = buckets[b][n]
      BY <1>1, Zenon DEF Lists
    <3> QED
      BY <3>2, <3>3
  <2>2. ASSUME NEW i \in 1 .. Len(Nodes), Nodes[i].key = k, Nodes[i].value = v
        PROVE  Maps(buckets, capacity, k, v)
    <3>1. PICK b \in 0 .. capacity - 1 : \E m \in 1 .. Len(buckets[b]) :
              Nodes[i] = buckets[b][m]
      BY <1>1, Zenon DEF Lists
    <3> QED
      BY <2>2, <3>1 DEF Maps
  <2> QED
    BY <2>1, <2>2
<1>8. \A k \in Key : \A v : Maps(buckets, capacity, k, v) => k \in Present
  BY DEF Present, KeysOf, Maps
<1>9. ASSUME NEW k \in Key
      PROVE  k \in KeysOf(Rehashed(c), c) <=> k \in Present
  <2>1. k \in KeysOf(Rehashed(c), c) <=> \E i \in 1 .. Len(Nodes) : Nodes[i].key = k
    BY <1>6 DEF Moved
  <2>2. ASSUME NEW i \in 1 .. Len(Nodes), Nodes[i].key = k
        PROVE  k \in Present
    <3>1. Maps(buckets, capacity, k, Nodes[i].value)
      BY <1>7, <2>2
    <3> QED
      BY <1>8, <3>1
  <2>3. ASSUME k \in Present
        PROVE  \E i \in 1 .. Len(Nodes) : Nodes[i].key = k
    <3>1. Maps(buckets, capacity, k, ValueOf(k))
      BY <2>3, ValueIs
    <3>2. \E i \in 1 .. Len(Nodes) : Nodes[i].key = k /\ Nodes[i].value = ValueOf(k)
      BY <1>7, <3>1, Zenon
    <3> QED
      BY <3>2
  <2> QED
    BY <2>1, <2>2, <2>3
<1>10. KeysOf(Rehashed(c), c) \subseteq Key /\ Present \subseteq Key
  BY DEF KeysOf, Present
<1>11. ASSUME NEW k \in Key, NEW v
       PROVE  Maps(Rehashed(c), c, k, v) <=> Maps(buckets, capacity, k, v)
  <2>1. Maps(Rehashed(c), c, k, v) <=>
          \E i \in 1 .. Len(Nodes) : Nodes[i].key = k /\ Nodes[i].value = v
    BY <1>6 DEF Moved
  <2> QED
    BY <1>7, <2>1, Zenon
<1>12. IsTable(Rehashed(c), c)
  BY <1>6 DEF Moved
<1> QED
  BY <1>9, <1>10, <1>11, <1>12

-----------------------------------------------------------------------------
(* The order of a loop, and where its iterator goes.                        *)

LEMMA OrderIs ==
    ASSUME NEW t, NEW c, IsTable(t, c), c # 0,
           NEW k \in Key, NEW l \in Key, NEW m \in Key
    PROVE  /\ ~Precedes(t, c, k, k)
           /\ Precedes(t, c, k, l) /\ Precedes(t, c, l, m) => Precedes(t, c, k, m)
<1>1. /\ BucketOf(k, c) \in 0 .. c - 1
      /\ BucketOf(l, c) \in 0 .. c - 1
      /\ BucketOf(m, c) \in 0 .. c - 1
      /\ c \in Nat
  BY BucketRange DEF IsTable
<1> DEFINE s == t[BucketOf(k, c)]
<1>2. s \in Seq(Node) /\ Len(s) \in Nat
      /\ \A i, j \in 1 .. Len(s) : s[i].key = s[j].key => i = j
  BY <1>1, TableFacts
<1>3. \A x \in Key : Precedes(t, c, k, x) <=>
         \/ BucketOf(k, c) < BucketOf(x, c)
         \/ BucketOf(k, c) = BucketOf(x, c) /\ ChainPrecedes(s, k, x)
  BY OwnChain
<1>4. Precedes(t, c, l, m) <=>
         \/ BucketOf(l, c) < BucketOf(m, c)
         \/ BucketOf(l, c) = BucketOf(m, c) /\ ChainPrecedes(t[BucketOf(l, c)], l, m)
  BY OwnChain
<1> HIDE DEF s
<1>5. ~ChainPrecedes(s, k, k)
  <2> SUFFICES ASSUME NEW i \in 1 .. Len(s), NEW j \in 1 .. Len(s),
                      i < j, s[i].key = k, s[j].key = k
               PROVE  FALSE
    BY DEF ChainPrecedes
  <2> QED
    BY <1>2
<1>6. ASSUME ChainPrecedes(s, k, l), ChainPrecedes(s, l, m)
      PROVE  ChainPrecedes(s, k, m)
  <2>1. PICK i1 \in 1 .. Len(s), j1 \in 1 .. Len(s) :
            i1 < j1 /\ s[i1].key = k /\ s[j1].key = l
    BY <1>6 DEF ChainPrecedes
  <2>2. PICK i2 \in 1 .. Len(s), j2 \in 1 .. Len(s) :
            i2 < j2 /\ s[i2].key = l /\ s[j2].key = m
    BY <1>6 DEF ChainPrecedes
  <2>3. j1 = i2
    BY <1>2, <2>1, <2>2
  <2>4. i1 < j2
    BY <1>2, <2>1, <2>2, <2>3
  <2> QED
    BY <2>1, <2>2, <2>4 DEF ChainPrecedes
<1>7. ~Precedes(t, c, k, k)
  BY <1>1, <1>3, <1>5
<1>8. ASSUME Precedes(t, c, k, l), Precedes(t, c, l, m)
      PROVE  Precedes(t, c, k, m)
  <2>1. BucketOf(k, c) <= BucketOf(l, c) /\ BucketOf(l, c) <= BucketOf(m, c)
    BY <1>1, <1>3, <1>4, <1>8
  <2>2. CASE BucketOf(k, c) < BucketOf(m, c)
    BY <1>3, <2>2
  <2>3. CASE ~(BucketOf(k, c) < BucketOf(m, c))
    <3>1. BucketOf(k, c) = BucketOf(l, c) /\ BucketOf(l, c) = BucketOf(m, c)
      BY <1>1, <2>1, <2>3
    <3>2. ChainPrecedes(s, k, l) /\ ChainPrecedes(s, l, m)
      BY <1>1, <1>3, <1>4, <1>8, <3>1 DEF s
    <3> QED
      BY <1>3, <1>6, <3>1, <3>2
  <2> QED
    BY <2>2, <2>3
<1> QED
  BY <1>7, <1>8

\* The next node of the chain, if there is one, is the next of the loop.
LEMMA SuccessorIs ==
    ASSUME IsTable(buckets, capacity), capacity # 0, NEW k \in Present
    PROVE  /\ Successor(k) # Null =>
                /\ Successor(k) \in Present
                /\ BucketOf(Successor(k), capacity) = BucketOf(k, capacity)
                /\ Earlier(k, Successor(k))
                /\ \A l \in Present : Earlier(k, l) =>
                      l = Successor(k) \/ Earlier(Successor(k), l)
           /\ Successor(k) = Null =>
                \A l \in Present : Earlier(k, l) =>
                   BucketOf(k, capacity) < BucketOf(l, capacity)
<1> DEFINE b == BucketOf(k, capacity)
           s == buckets[b]
           p == Place(k, s)
<1>0. k \in Key /\ \A l \in Present : l \in Key
  BY DEF Present, KeysOf
<1>1. /\ b \in 0 .. capacity - 1
      /\ p \in 1 .. Len(s) /\ s[p].key = k
      /\ \A n \in 1 .. Len(s) : s[n].key = k => n = p
  BY <1>0, KeyPlace DEF Present
<1>2. /\ s \in Seq(Node) /\ Len(s) \in Nat
      /\ \A n \in 1 .. Len(s) : s[n].key \in Key /\ BucketOf(s[n].key, capacity) = b
  BY <1>1, TableFacts
<1>3. Successor(k) = IF p = Len(s) THEN Null ELSE s[p + 1].key
  BY DEF Successor
<1>4. Null \notin Key
  BY MapAssumption
<1>5. \A l \in Key : Earlier(k, l) <=>
         b < BucketOf(l, capacity) \/ (b = BucketOf(l, capacity) /\ ChainPrecedes(s, k, l))
  BY <1>0, OwnChain DEF Earlier
<1> HIDE DEF p
<1>6. ASSUME NEW l \in Key, ChainPrecedes(s, k, l)
      PROVE  \E n \in 1 .. Len(s) : p < n /\ s[n].key = l
  <2>1. PICK i \in 1 .. Len(s), j \in 1 .. Len(s) : i < j /\ s[i].key = k /\ s[j].key = l
    BY <1>6 DEF ChainPrecedes
  <2>2. i = p
    BY <1>1, <2>1
  <2> QED
    BY <2>1, <2>2
<1>7. CASE p = Len(s)
  <2>1. \A l \in Key : ~ChainPrecedes(s, k, l)
    BY <1>2, <1>6, <1>7
  <2>2. Successor(k) = Null
    BY <1>3, <1>7
  <2>3. \A l \in Key : Earlier(k, l) => b < BucketOf(l, capacity)
    BY <1>5, <2>1
  <2> QED
    BY <1>0, <2>2, <2>3
<1>8. CASE p # Len(s)
  <2> DEFINE x == s[p + 1].key
  <2>1. p + 1 \in 1 .. Len(s) /\ p < p + 1
    BY <1>1, <1>2, <1>8
  <2>2. Successor(k) = x /\ x # Null /\ x \in Key /\ BucketOf(x, capacity) = b
    BY <1>2, <1>3, <1>4, <1>8, <2>1
  <2>3. x \in Present
    BY <1>1, <2>1, <2>2 DEF Present, KeysOf
  <2>4. ChainPrecedes(s, k, x)
    BY <1>1, <2>1 DEF ChainPrecedes
  <2>5. Earlier(k, x)
    BY <1>5, <2>2, <2>4
  <2>6. \A l \in Key : Earlier(x, l) <=>
          b < BucketOf(l, capacity) \/ (b = BucketOf(l, capacity) /\ ChainPrecedes(s, x, l))
    BY <2>2, OwnChain DEF Earlier
  <2>7. ASSUME NEW l \in Key, Earlier(k, l), l # x
        PROVE  Earlier(x, l)
    <3>1. CASE b < BucketOf(l, capacity)
      BY <2>6, <3>1
    <3>2. CASE b = BucketOf(l, capacity) /\ ChainPrecedes(s, k, l)
      <4>1. PICK n \in 1 .. Len(s) : p < n /\ s[n].key = l
        BY <1>6, <3>2
      <4>2. p + 1 < n
        BY <1>1, <2>7, <4>1
      <4>3. ChainPrecedes(s, x, l)
        BY <2>1, <4>1, <4>2 DEF ChainPrecedes
      <4> QED
        BY <2>6, <3>2, <4>3
    <3> QED
      BY <1>5, <2>7, <3>1, <3>2
  <2> HIDE DEF x
  <2> QED
    BY <1>0, <2>2, <2>3, <2>5, <2>7
<1> QED
  BY <1>7, <1>8

\* Otherwise the loop goes on with the first node behind the bucket.
LEMMA AdvancedIs ==
    ASSUME IsTable(buckets, capacity), NEW b \in Int, b >= -1
    PROVE  LET a == Advanced(b)
           IN  /\ a.bucket \in Nat
               /\ a.node \in Present \cup {Null}
               /\ a.node # Null =>
                    /\ capacity # 0
                    /\ a.bucket = BucketOf(a.node, capacity)
                    /\ b < a.bucket
                    /\ \A l \in Present : b < BucketOf(l, capacity) =>
                          l = a.node \/ Earlier(a.node, l)
               /\ a.node = Null =>
                    /\ a.bucket = capacity
                    /\ \A l \in Present : BucketOf(l, capacity) <= b
<1> DEFINE later == {c \in b + 1 .. capacity - 1 : buckets[c] # <<>>}
           a == Advanced(b)
<1>0. capacity \in Nat /\ Null \notin Key
  BY MapAssumption DEF IsTable
<1>1. later \subseteq Nat
  BY <1>0
<1>2. a = IF later = {} THEN [bucket |-> capacity, node |-> Null]
          ELSE [bucket |-> Min(later), node |-> Head(buckets[Min(later)]).key]
  BY DEF Advanced
<1> HIDE DEF a
\* Where the present keys are.
<1>3. ASSUME NEW l \in Present
      PROVE  /\ l \in Key
             /\ capacity # 0
             /\ BucketOf(l, capacity) \in 0 .. capacity - 1
             /\ buckets[BucketOf(l, capacity)] # <<>>
  <2>1. l \in Key /\ capacity # 0
    BY <1>3, NoKeys DEF Present, KeysOf
  <2>2. /\ BucketOf(l, capacity) \in 0 .. capacity - 1
        /\ Place(l, buckets[BucketOf(l, capacity)]) \in 1 .. Len(buckets[BucketOf(l, capacity)])
    BY <2>1, KeyPlace DEF Present
  <2>3. Len(<<>>) = 0 /\ \A n \in 1 .. 0 : FALSE
    OBVIOUS
  <2> QED
    BY <2>1, <2>2, <2>3
<1>4. \A l \in Present : b < BucketOf(l, capacity) => BucketOf(l, capacity) \in later
  BY <1>0, <1>3
<1>5. CASE later = {}
  <2>1. a.bucket = capacity /\ a.node = Null
    BY <1>2, <1>5
  <2>2. \A l \in Present : BucketOf(l, capacity) <= b
    BY <1>0, <1>3, <1>4, <1>5
  <2> QED
    BY <1>0, <2>1, <2>2 DEF a
<1>6. CASE later # {}
  <2> DEFINE n == Min(later)
             s == buckets[n]
             x == Head(s).key
  <2>1. n \in later /\ \A d \in later : n <= d
    BY <1>1, <1>6, LeastOf
  <2>2. n \in 0 .. capacity - 1 /\ b < n /\ s # <<>> /\ n \in Nat
    BY <1>0, <2>1
  <2>3. a.bucket = n /\ a.node = x
    BY <1>2, <1>6
  <2> HIDE DEF n
  <2>4. /\ s \in Seq(Node) /\ Len(s) \in Nat
        /\ \A m \in 1 .. Len(s) : s[m].key \in Key /\ BucketOf(s[m].key, capacity) = n
    BY <2>2, TableFacts
  <2>5. Len(s) \in Nat \ {0} /\ Head(s) = s[1]
    BY <2>2, <2>4, PopProperties
  <2>6. 1 \in 1 .. Len(s)
    BY <2>5
  <2>7. x = s[1].key /\ x \in Key /\ BucketOf(x, capacity) = n
    BY <2>4, <2>5, <2>6
  <2>8. x \in Present
    BY <2>2, <2>6, <2>7 DEF Present, KeysOf
  <2>9. capacity # 0
    BY <2>2
  <2>10. \A l \in Key : Earlier(x, l) <=>
           n < BucketOf(l, capacity) \/ (n = BucketOf(l, capacity) /\ ChainPrecedes(s, x, l))
    BY <2>7, <2>9, OwnChain DEF Earlier
  <2>11. ASSUME NEW l \in Present, b < BucketOf(l, capacity), l # x
         PROVE  Earlier(x, l)
    <3>1. n <= BucketOf(l, capacity) /\ BucketOf(l, capacity) \in 0 .. capacity - 1 /\ l \in Key
      BY <1>3, <1>4, <2>1, <2>11
    <3>2. CASE n = BucketOf(l, capacity)
      <4>1. Place(l, s) \in 1 .. Len(s) /\ s[Place(l, s)].key = l
        BY <2>9, <3>1, <3>2, KeyPlace DEF Present
      <4>2. 1 < Place(l, s)
        BY <2>5, <2>7, <2>11, <4>1
      <4>3. ChainPrecedes(s, x, l)
        BY <2>6, <2>7, <4>1, <4>2 DEF ChainPrecedes
      <4> QED
        BY <2>10, <3>1, <3>2, <4>3
    <3>3. CASE n # BucketOf(l, capacity)
      <4>1. n < BucketOf(l, capacity)
        BY <1>0, <2>2, <3>1, <3>3
      <4> QED
        BY <2>10, <3>1, <4>1
    <3> QED
      BY <3>2, <3>3
  <2> HIDE DEF x
  <2>12. a.node # Null
    BY <1>0, <2>3, <2>7
  <2> QED
    BY <2>2, <2>3, <2>7, <2>8, <2>9, <2>11, <2>12 DEF a
<1> QED
  BY <1>5, <1>6

-----------------------------------------------------------------------------
(* The steps.  First what each of them does to the table.                   *)

LEMMA NextNames ==
    /\ Present' = KeysOf(buckets', capacity')
    /\ \A k, l : Earlier(k, l)' <=> Precedes(buckets', capacity', k, l)
    /\ \A k : ValueOf(k)' = ValueIn(buckets', capacity', k)
<1>1. Present' = KeysOf(buckets', capacity')
  BY DEF Present, KeysOf
<1>2. ASSUME NEW k, NEW l
      PROVE  Earlier(k, l)' <=> Precedes(buckets', capacity', k, l)
  BY DEF Earlier, Precedes, BucketOf
<1>3. ASSUME NEW k
      PROVE  ValueOf(k)' = ValueIn(buckets', capacity', k)
  BY DEF ValueOf, ValueIn
<1> QED
  BY <1>1, <1>2, <1>3

LEMMA PresentIs ==
    ASSUME IsTable(buckets, capacity)
    PROVE  /\ Present \subseteq Key
           /\ IsFiniteSet(Present)
           /\ Cardinality(Present) \in 0 .. Cardinality(Key)
           /\ Cardinality(Key) \in Nat
           /\ Present # {} => capacity # 0
<1>1. Present \subseteq Key /\ IsFiniteSet(Key)
  BY MapAssumption DEF Present, KeysOf
<1>2. IsFiniteSet(Present) /\ Cardinality(Present) <= Cardinality(Key)
  BY <1>1, FS_Subset
<1>3. Cardinality(Present) \in Nat /\ Cardinality(Key) \in Nat
  BY <1>1, <1>2, FS_CardinalityType
<1>4. Present # {} => capacity # 0
  BY NoKeys DEF Present
<1> QED
  BY <1>1, <1>2, <1>3, <1>4

\* check_and_rehash leaves room for one more node, and changes nothing else.
LEMMA GrownIs ==
    ASSUME TypeOK, IsTable(buckets, capacity), Sized
    PROVE  /\ Grown \in Nat \ {0}
           /\ capacity <= Grown
           /\ 4 * (size + 1) <= 3 * Grown
           /\ IsTable(GrownBuckets, Grown)
           /\ KeysOf(GrownBuckets, Grown) = Present
           /\ \A k \in Key : \A v :
                 Maps(GrownBuckets, Grown, k, v) <=> Maps(buckets, capacity, k, v)
           /\ Grown = capacity => GrownBuckets = buckets
<1>1. capacity \in Nat /\ size \in Nat /\ 4 * size <= 3 * capacity
  BY PresentIs DEF TypeOK, Sized
<1>2. /\ Grown \in Nat \ {0}
      /\ capacity <= Grown
      /\ 4 * (size + 1) <= 3 * Grown
  BY <1>1 DEF Grown
<1> HIDE DEF Grown
<1>3. CASE Grown = capacity
  BY <1>2, <1>3 DEF GrownBuckets, Present
<1>4. CASE Grown # capacity
  BY <1>2, <1>4, RehashedIs DEF GrownBuckets
<1> QED
  BY <1>2, <1>3, <1>4

LEMMA PutIs ==
    ASSUME TypeOK, IsTable(buckets, capacity), Sized,
           NEW k \in Key, NEW v \in Value, Put(k, v)
    PROVE  /\ IsTable(buckets', capacity')
           /\ capacity' = Grown /\ Grown \in Nat /\ capacity <= Grown
           /\ Present' = Present \cup {k}
           /\ Sized'
           /\ size' \in 0 .. Cardinality(Key)
           /\ \A l \in Key : ValueOf(l)' = IF l = k THEN v ELSE ValueOf(l)
           /\ capacity' = capacity => \A l, m \in Key : Earlier(l, m) => Earlier(l, m)'
<1> DEFINE c == Grown
           t == GrownBuckets
           b == BucketOf(k, c)
           p == Place(k, t[b])
<1>1. /\ c \in Nat \ {0}
      /\ capacity <= c
      /\ 4 * (size + 1) <= 3 * c
      /\ IsTable(t, c)
      /\ KeysOf(t, c) = Present
      /\ \A l \in Key : \A w : Maps(t, c, l, w) <=> Maps(buckets, capacity, l, w)
      /\ c = capacity => t = buckets
  BY GrownIs
<1>2. /\ buckets' = [t EXCEPT ![b] = IF p # 0 THEN [t[b] EXCEPT ![p].value = v]
                                     ELSE Cons([key |-> k, value |-> v], t[b])]
      /\ size' = IF p # 0 THEN size ELSE size + 1
      /\ capacity' = c
  BY DEF Put
<1> HIDE DEF c, t
<1>3. buckets' = Written(t, c, k, v)
  BY <1>2 DEF Written, WrittenChain
<1>4. /\ IsTable(buckets', capacity')
      /\ KeysOf(buckets', capacity') = Present \cup {k}
      /\ \A l \in Key : \A w : Maps(buckets', capacity', l, w) <=>
            IF l = k THEN w = v ELSE Maps(t, c, l, w)
      /\ \A l, m \in Key :
            Precedes(t, c, l, m) => Precedes(buckets', capacity', l, m)
  <2>1. capacity' = c /\ c # 0
    BY <1>1, <1>2
  <2> QED
    BY <1>1, <1>3, <2>1, WrittenIs
<1>5. Present' = Present \cup {k}
  BY <1>4, NextNames
<1>6. p # 0 <=> k \in Present
  BY <1>1, KeyPlace
<1>7. /\ Present \subseteq Key /\ IsFiniteSet(Present) /\ IsFiniteSet(Key)
      /\ size = Cardinality(Present) /\ size \in Nat
      /\ 4 * size <= 3 * capacity /\ capacity \in Nat
  BY PresentIs, MapAssumption DEF Sized, TypeOK
<1>8. size' = Cardinality(Present \cup {k})
  <2>1. Cardinality(Present \cup {k}) =
          IF k \in Present THEN Cardinality(Present) ELSE Cardinality(Present) + 1
    BY <1>7, FS_AddElement
  <2> HIDE DEF p
  <2> QED
    BY <1>2, <1>6, <1>7, <2>1
<1>9. size' \in 0 .. Cardinality(Key)
  <2>1. Present \cup {k} \subseteq Key
    BY <1>7
  <2>2. /\ IsFiniteSet(Present \cup {k})
        /\ Cardinality(Present \cup {k}) <= Cardinality(Key)
    BY <1>7, <2>1, FS_Subset
  <2>3. Cardinality(Present \cup {k}) \in Nat /\ Cardinality(Key) \in Nat
    BY <1>7, <2>2, FS_CardinalityType
  <2> QED
    BY <1>8, <2>2, <2>3
<1>10. Sized'
  <2>1. 4 * size' <= 3 * capacity'
    <3> HIDE DEF p
    <3> QED
      BY <1>1, <1>2, <1>7
  <2> QED
    BY <1>5, <1>8, <2>1 DEF Sized
<1>11. ASSUME NEW l \in Key
       PROVE  ValueOf(l)' = IF l = k THEN v ELSE ValueOf(l)
  <2>1. /\ ValueOf(l)' = ValueIn(buckets', capacity', l)
        /\ ValueOf(l) = ValueIn(buckets, capacity, l)
    BY NextNames DEF ValueOf, ValueIn
  <2>2. CASE l = k
    <3>1. Maps(buckets', capacity', l, v)
      BY <1>4, <2>2
    <3> QED
      BY <1>4, <2>1, <2>2, <3>1, ValueInIs
  <2>3. CASE l # k
    <3>1. \A w : Maps(buckets', capacity', l, w) <=> Maps(buckets, capacity, l, w)
      BY <1>1, <1>4, <2>3
    <3>2. ValueIn(buckets', capacity', l) = ValueIn(buckets, capacity, l)
      BY <1>4, <3>1, SameValues
    <3> QED
      BY <2>1, <2>3, <3>2
  <2> QED
    BY <2>2, <2>3
<1>12. ASSUME capacity' = capacity, NEW l \in Key, NEW m \in Key, Earlier(l, m)
       PROVE  Earlier(l, m)'
  <2>1. t = buckets /\ c = capacity
    BY <1>1, <1>2, <1>12
  <2>2. Precedes(t, c, l, m)
    BY <1>12, <2>1 DEF Earlier
  <2> QED
    BY <1>4, <2>2, NextNames
<1>13. c = Grown
  BY DEF c
<1> QED
  BY <1>1, <1>2, <1>4, <1>5, <1>9, <1>10, <1>11, <1>12, <1>13

\* erase, when the key is there.
Unlinked(k) ==
    /\ buckets' = [buckets EXCEPT ![BucketOf(k, capacity)] = RemoveAt(@, Place(k, @))]
    /\ size' = size - 1
    /\ capacity' = capacity

LEMMA UnlinkedIs ==
    ASSUME TypeOK, IsTable(buckets, capacity), Sized, NEW k \in Present, Unlinked(k)
    PROVE  /\ IsTable(buckets', capacity')
           /\ Present' = Present \ {k}
           /\ Sized'
           /\ size' \in 0 .. Cardinality(Key)
           /\ \A l \in Key : ValueOf(l)' = IF l = k THEN NoValue ELSE ValueOf(l)
           /\ \A l, m \in Key : l # k /\ m # k /\ Earlier(l, m) => Earlier(l, m)'
<1> DEFINE u == Erased(buckets, capacity, k)
<1>1. buckets' = u /\ capacity' = capacity /\ size' = size - 1
  BY DEF Unlinked, Erased
<1>2. /\ Present \subseteq Key /\ IsFiniteSet(Present)
      /\ Cardinality(Present) \in 0 .. Cardinality(Key) /\ Cardinality(Key) \in Nat
      /\ capacity # 0
      /\ size = Cardinality(Present) /\ 4 * size <= 3 * capacity
      /\ capacity \in Nat
  BY PresentIs DEF Sized, TypeOK
<1>3. /\ IsTable(u, capacity)
      /\ KeysOf(u, capacity) = Present \ {k}
      /\ \A l \in Key : \A w :
            Maps(u, capacity, l, w) <=> l # k /\ Maps(buckets, capacity, l, w)
      /\ \A l, m \in Key : l # k /\ m # k /\ Precedes(buckets, capacity, l, m) =>
            Precedes(u, capacity, l, m)
  BY <1>2, ErasedIs DEF Present
<1> HIDE DEF u
<1>4. IsTable(buckets', capacity') /\ Present' = Present \ {k}
  BY <1>1, <1>3, NextNames
<1>5. Cardinality(Present \ {k}) = Cardinality(Present) - 1
  BY <1>2, FS_RemoveElement
<1>6. IsFiniteSet(Present \ {k}) /\ Cardinality(Present \ {k}) \in Nat
  BY <1>2, FS_Subset, FS_CardinalityType
<1>7. Sized' /\ size' \in 0 .. Cardinality(Key)
  <2>1. size' = Cardinality(Present \ {k})
    BY <1>1, <1>2, <1>5
  <2>2. 4 * size' <= 3 * capacity' /\ size' \in 0 .. Cardinality(Key)
    BY <1>1, <1>2, <1>5, <1>6, <2>1
  <2> QED
    BY <1>4, <2>1, <2>2 DEF Sized
<1>8. ASSUME NEW l \in Key
      PROVE  ValueOf(l)' = IF l = k THEN NoValue ELSE ValueOf(l)
  <2>1. /\ ValueOf(l)' = ValueIn(u, capacity, l)
        /\ ValueOf(l) = ValueIn(buckets, capacity, l)
    BY <1>1, NextNames DEF ValueOf, ValueIn
  <2>2. CASE l = k
    BY <1>3, <2>1, <2>2, ValueInIs
  <2>3. CASE l # k
    <3>1. \A w : Maps(u, capacity, l, w) <=> Maps(buckets, capacity, l, w)
      BY <1>3, <2>3
    <3>2. ValueIn(u, capacity, l) = ValueIn(buckets, capacity, l)
      BY <1>3, <3>1, SameValues
    <3> QED
      BY <2>1, <2>3, <3>2
  <2> QED
    BY <2>2, <2>3
<1>9. ASSUME NEW l \in Key, NEW m \in Key, l # k, m # k, Earlier(l, m)
      PROVE  Earlier(l, m)'
  <2>1. Precedes(u, capacity, l, m)
    BY <1>3, <1>9 DEF Earlier
  <2> QED
    BY <1>1, <2>1, NextNames
<1> QED
  BY <1>4, <1>7, <1>8, <1>9

\* A table without nodes: the constructor's, and what clear and a move leave.
LEMMA EmptiedIs ==
    ASSUME NEW c \in Nat
    PROVE  /\ IsTable(Empty(c), c)
           /\ KeysOf(Empty(c), c) = {}
           /\ \A k \in Key : ValueIn(Empty(c), c, k) = NoValue
           /\ Cardinality({}) = 0
           /\ 0 \in 0 .. Cardinality(Key)
<1>1. Cardinality({}) = 0
  BY FS_EmptySet
<1>2. Cardinality(Key) \in Nat
  BY MapAssumption, FS_CardinalityType
<1> QED
  BY <1>1, <1>2, EmptyIs, ValueInIs

LEMMA EmptiedNext ==
    ASSUME capacity' \in Nat, buckets' = Empty(capacity'), size' = 0
    PROVE  /\ IsTable(buckets', capacity')
           /\ Present' = {}
           /\ Sized'
           /\ size' \in 0 .. Cardinality(Key)
           /\ \A k \in Key : ValueOf(k)' = NoValue
<1>1. /\ IsTable(buckets', capacity')
      /\ KeysOf(buckets', capacity') = {}
      /\ \A k \in Key : ValueIn(buckets', capacity', k) = NoValue
      /\ Cardinality({}) = 0
      /\ 0 \in 0 .. Cardinality(Key)
  BY EmptiedIs
<1>2. Present' = {}
  BY <1>1, NextNames
<1>3. Sized'
  <2>1. 4 * size' <= 3 * capacity'
    <3>1. \A c \in Nat : 4 * 0 <= 3 * c
      OBVIOUS
    <3> QED
      BY <3>1
  <2>2. size' = Cardinality(Present')
    BY <1>1, <1>2
  <2> QED
    BY <2>1, <2>2 DEF Sized
<1>4. ASSUME NEW k \in Key
      PROVE  ValueOf(k)' = NoValue
  <2>1. ValueOf(k)' = ValueIn(buckets', capacity', k)
    BY NextNames
  <2>2. ValueIn(buckets', capacity', k) = NoValue
    BY <1>1
  <2> QED
    BY <2>1, <2>2
<1>5. IsTable(buckets', capacity') /\ size' \in 0 .. Cardinality(Key)
  BY <1>1
<1> QED
  BY <1>2, <1>3, <1>4, <1>5

\* A copy, and the copy of the copy: the nodes are inserted anew.
LEMMA CopyBackIs ==
    ASSUME TypeOK, IsTable(buckets, capacity), Sized, CopyBack
    PROVE  /\ IsTable(buckets', capacity')
           /\ Present' = Present
           /\ Sized'
           /\ \A k \in Key : ValueOf(k)' = ValueOf(k)
<1>1. /\ capacity' = AtLeastFour(capacity)
      /\ buckets' = Rehashed(AtLeastFour(capacity))
      /\ size' = size
  BY DEF CopyBack
<1>2. capacity \in Nat /\ size \in Nat /\ 4 * size <= 3 * capacity /\ size = Cardinality(Present)
  BY PresentIs DEF TypeOK, Sized
<1>3. /\ AtLeastFour(capacity) \in Nat \ {0}
      /\ capacity <= AtLeastFour(capacity)
  BY <1>2 DEF AtLeastFour
<1>4. /\ IsTable(buckets', capacity')
      /\ KeysOf(buckets', capacity') = Present
      /\ \A k \in Key : \A v :
            Maps(buckets', capacity', k, v) <=> Maps(buckets, capacity, k, v)
  BY <1>1, <1>3, RehashedIs
<1>5. Present' = Present
  BY <1>4, NextNames
<1>6. Sized'
  <2>1. 4 * size' <= 3 * capacity'
    BY <1>1, <1>2, <1>3
  <2> QED
    BY <1>1, <1>2, <1>5, <2>1 DEF Sized
<1>7. ASSUME NEW k \in Key
      PROVE  ValueOf(k)' = ValueOf(k)
  <2>1. ValueIn(buckets', capacity', k) = ValueIn(buckets, capacity, k)
    BY <1>4, SameValues
  <2> QED
    BY <2>1, NextNames DEF ValueOf, ValueIn
<1> QED
  BY <1>4, <1>5, <1>6, <1>7

\* Nothing happens to the table.
LEMMA SameTable ==
    ASSUME UNCHANGED table
    PROVE  /\ IsTable(buckets, capacity) => IsTable(buckets', capacity')
           /\ Present' = Present
           /\ Sized => Sized'
           /\ \A k : ValueOf(k)' = ValueOf(k)
           /\ \A k, l : Earlier(k, l)' <=> Earlier(k, l)
<1>1. buckets' = buckets /\ capacity' = capacity /\ size' = size
  BY DEF table
<1>2. /\ Present' = KeysOf(buckets, capacity)
      /\ \A k, l : Earlier(k, l)' <=> Precedes(buckets, capacity, k, l)
      /\ \A k : ValueOf(k)' = ValueIn(buckets, capacity, k)
  BY <1>1, NextNames
<1>3. Present' = Present
  BY <1>2 DEF Present
<1>4. Sized => Sized'
  BY <1>1, <1>3 DEF Sized
<1>5. ASSUME NEW k
      PROVE  ValueOf(k)' = ValueOf(k)
  <2>1. ValueOf(k) = ValueIn(buckets, capacity, k)
    BY DEF ValueOf, ValueIn
  <2> QED
    BY <1>2, <2>1
<1>6. ASSUME NEW k, NEW l
      PROVE  Earlier(k, l)' <=> Earlier(k, l)
  <2>1. Earlier(k, l) <=> Precedes(buckets, capacity, k, l)
    BY DEF Earlier
  <2> QED
    BY <1>2, <2>1
<1>7. IsTable(buckets, capacity) => IsTable(buckets', capacity')
  BY <1>1
<1> QED
  BY <1>3, <1>4, <1>5, <1>6, <1>7

-----------------------------------------------------------------------------
(* The invariant is inductive.                                              *)

LEMMA InitHolds == Init => HInv
<1> SUFFICES ASSUME Init PROVE HInv
  OBVIOUS
<1>1. /\ capacity = AtLeastFour(InitialCapacity) /\ buckets = Empty(capacity)
      /\ size = 0 /\ iter = Off /\ answer = NoValue /\ due = {} /\ shown = {}
      /\ grew = FALSE /\ twice = FALSE
  BY DEF Init
<1>2. capacity \in Nat
  BY <1>1, MapAssumption DEF AtLeastFour
<1>3. /\ IsTable(buckets, capacity) /\ Present = {}
      /\ Cardinality({}) = 0 /\ 0 \in 0 .. Cardinality(Key)
  BY <1>1, <1>2, EmptiedIs DEF Present
<1>4. Sized
  <2>1. \A c \in Nat : 4 * 0 <= 3 * c
    OBVIOUS
  <2> QED
    BY <1>1, <1>2, <1>3, <2>1 DEF Sized
<1>5. TypeOK
  <2>1. buckets \in [0 .. capacity - 1 -> Seq(Node)]
    BY <1>3 DEF IsTable
  <2>2. iter \in Iterator
    BY <1>1 DEF Off, Iterator
  <2> QED
    BY <1>1, <1>2, <1>3, <2>1, <2>2 DEF TypeOK
<1>6. Position /\ Progress /\ NothingShownTwice
  BY <1>1 DEF Position, Progress, NothingShownTwice, Looping, Off
<1> QED
  BY <1>3, <1>4, <1>5, <1>6 DEF HInv

\* What the steps need of the iterator.
LEMMA IterIs ==
    ASSUME TypeOK
    PROVE  /\ iter.at \in {"off", "test", "body", "lost"}
           /\ iter.bucket \in Nat /\ iter.stop \in Nat
           /\ iter.node \in Key \cup {Null}
           /\ iter.after \in Key \cup {Null}
           /\ iter.gone \in BOOLEAN
           /\ due \subseteq Key /\ shown \subseteq Key
           /\ grew \in BOOLEAN /\ twice \in BOOLEAN
           /\ capacity \in Nat
  BY DEF TypeOK, Iterator

\* A step that leaves the loop where it is and keeps the keys that are there,
\* and their order too unless the table grows, keeps the loop's part of the
\* invariant.
LEMMA LoopKeptByPut ==
    ASSUME TypeOK, Position, Progress, NothingShownTwice, Callable,
           UNCHANGED <<iter, due, shown, twice>>,
           capacity' \in Nat, capacity <= capacity',
           grew' = (grew \/ (~Alone /\ capacity' # capacity)),
           Present \subseteq Present', Present \subseteq Key,
           capacity' = capacity => \A k, l \in Key : Earlier(k, l) => Earlier(k, l)'
    PROVE  Position' /\ Progress' /\ NothingShownTwice'
<1>1. iter' = iter /\ due' = due /\ shown' = shown /\ twice' = twice
  OBVIOUS
<1>2. iter.at \in {"off", "body"} /\ iter.gone = FALSE
  BY IterIs DEF Callable
<1>3. Looping => iter.at = "body"
  BY <1>2 DEF Looping
<1>4. Position'
  <2>1. Looping /\ iter.node # Null => iter.node \in Present'
    BY <1>2 DEF Position
  <2>2. ASSUME Looping, grew'
        PROVE  iter.stop < capacity'
    <3>1. CASE grew
      BY <2>2, <3>1, IterIs DEF Position
    <3>2. CASE ~grew
      <4>1. capacity' # capacity
        BY <2>2, <3>2
      <4>2. iter.stop = capacity
        BY <2>2, <3>2 DEF Progress
      <4> QED
        BY <4>1, <4>2, IterIs
    <3> QED
      BY <3>1, <3>2
  <2>3. iter.at = "body" => iter.node # Null
    BY DEF Position
  <2> QED
    BY <1>1, <1>2, <2>1, <2>2, <2>3 DEF Position, Looping
<1>5. NothingShownTwice'
  <2>1. ~grew' => ~grew
    OBVIOUS
  <2> QED
    BY <1>1, <2>1 DEF NothingShownTwice
<1>6. Progress'
  <2> SUFFICES ASSUME Looping', ~grew'
               PROVE  /\ iter'.stop = capacity'
                      /\ due' \subseteq Present'
                      /\ shown' \subseteq Present'
                      /\ (iter.at = "test" => AtTest)'
                      /\ (iter.at = "body" /\ ~iter.gone => AtNode)'
                      /\ (iter.at = "body" /\ iter.gone => AtGap)'
    BY DEF Progress
  <2>1. Looping /\ ~grew /\ iter.at = "body"
    BY <1>1, <1>3 DEF Looping
  <2>2. capacity' = capacity
    BY <2>1 DEF Alone
  <2>3. iter.stop = capacity /\ due \subseteq Present /\ shown \subseteq Present /\ AtNode
    BY <1>2, <2>1 DEF Progress
  <2>4. iter.node \in Key
    BY <1>2, <2>1 DEF Position
  <2>5. AtNode'
    <3>1. iter.bucket = BucketOf(iter.node, capacity)
      BY <2>3 DEF AtNode
    <3>2. \A k \in due : Earlier(iter.node, k)'
      <4> SUFFICES ASSUME NEW k \in due PROVE Earlier(iter.node, k)'
        OBVIOUS
      <4>1. k \in Key /\ Earlier(iter.node, k)
        BY <2>3, IterIs DEF AtNode
      <4> QED
        BY <1>1, <2>2, <2>4, <4>1
    <3>3. \A k \in shown : k = iter.node \/ Earlier(k, iter.node)'
      <4> SUFFICES ASSUME NEW k \in shown, k # iter.node PROVE Earlier(k, iter.node)'
        OBVIOUS
      <4>1. k \in Key /\ Earlier(k, iter.node)
        BY <2>3, IterIs DEF AtNode
      <4> QED
        BY <1>1, <2>2, <2>4, <4>1
    <3> QED
      BY <1>1, <2>2, <3>1, <3>2, <3>3 DEF AtNode
  <2> QED
    BY <1>1, <1>2, <2>1, <2>2, <2>3, <2>5
<1> QED
  BY <1>4, <1>5, <1>6

LEMMA WriteKeepsHInv ==
    ASSUME HInv, NEW k \in Key, NEW v \in Value, Callable, Put(k, v),
           answer' \in Value \cup {NoValue} \cup BOOLEAN
    PROVE  HInv'
<1>1. /\ TypeOK /\ IsTable(buckets, capacity) /\ Sized
      /\ Position /\ Progress /\ NothingShownTwice
  BY DEF HInv
<1>2. /\ IsTable(buckets', capacity')
      /\ capacity' = Grown /\ Grown \in Nat /\ capacity <= Grown
      /\ Present' = Present \cup {k}
      /\ Sized'
      /\ size' \in 0 .. Cardinality(Key)
      /\ capacity' = capacity => \A l, m \in Key : Earlier(l, m) => Earlier(l, m)'
  BY <1>1, PutIs
<1>3. /\ UNCHANGED <<iter, due, shown, twice>>
      /\ grew' = (grew \/ (~Alone /\ capacity' # capacity))
  BY <1>2 DEF Put
<1>4. Position' /\ Progress' /\ NothingShownTwice'
  <2>1. Present \subseteq Present' /\ Present \subseteq Key
    BY <1>1, <1>2, PresentIs
  <2>2. capacity' \in Nat /\ capacity <= capacity'
    BY <1>2
  <2> QED
    BY <1>1, <1>2, <1>3, <2>1, <2>2, LoopKeptByPut
<1>5. TypeOK'
  <2>1. capacity' \in Nat /\ buckets' \in [0 .. capacity' - 1 -> Seq(Node)]
    BY <1>2 DEF IsTable
  <2>2. iter' \in Iterator /\ due' \in SUBSET Key /\ shown' \in SUBSET Key
    BY <1>1, <1>3 DEF TypeOK
  <2>3. grew' \in BOOLEAN /\ twice' \in BOOLEAN
    BY <1>1, <1>3, IterIs
  <2> QED
    BY <1>2, <2>1, <2>2, <2>3 DEF TypeOK
<1> QED
  BY <1>2, <1>4, <1>5 DEF HInv

LEMMA FindKeepsHInv ==
    ASSUME HInv, NEW k \in Key, Find(k)
    PROVE  HInv'
<1>1. /\ TypeOK /\ IsTable(buckets, capacity) /\ Sized
      /\ Position /\ Progress /\ NothingShownTwice
  BY DEF HInv
<1>2. /\ UNCHANGED <<buckets, capacity, size, iter, due, shown, grew, twice>>
      /\ answer' = ValueOf(k)
  BY DEF Find, table, history
<1>3. /\ IsTable(buckets', capacity') /\ Sized'
      /\ Present' = Present
      /\ \A l, m : Earlier(l, m)' <=> Earlier(l, m)
  <2>1. UNCHANGED table
    BY <1>2 DEF table
  <2> QED
    BY <1>1, <2>1, SameTable
<1>4. answer' \in Value \cup {NoValue} \cup BOOLEAN
  BY <1>1, <1>2, ValueIs
<1>5. TypeOK'
  BY <1>1, <1>2, <1>4 DEF TypeOK
<1>6. Position' /\ Progress' /\ NothingShownTwice'
  BY <1>1, <1>2, <1>3 DEF Position, Progress, NothingShownTwice, Looping,
                          AtTest, AtNode, AtGap
<1> QED
  BY <1>3, <1>5, <1>6 DEF HInv

\* Erasing the node the loop stands on: the loop goes on where the node did.
LEMMA OwnErased ==
    ASSUME HInv, iter.at = "body", ~iter.gone, NEW k \in Present, k = iter.node,
           Unlinked(k), due' = due \ {k}, shown' = shown \ {k}, UNCHANGED <<grew, twice>>,
           iter' = [iter EXCEPT !.gone = TRUE, !.after = Successor(k)]
    PROVE  iter' \in Iterator /\ Position' /\ Progress'
<1>1. /\ TypeOK /\ IsTable(buckets, capacity) /\ Sized /\ Position /\ Progress
      /\ Present \subseteq Key /\ capacity # 0
      /\ k \in Key
  BY PresentIs DEF HInv
<1>2. /\ Present' = Present \ {k}
      /\ \A l, m \in Key : l # k /\ m # k /\ Earlier(l, m) => Earlier(l, m)'
  BY <1>1, UnlinkedIs
<1>9. ASSUME NEW l \in Key, NEW m \in Key, l # k, m # k, Earlier(l, m)
      PROVE  Precedes(buckets', capacity', l, m)
  BY <1>2, <1>9, NextNames
<1>3. /\ Successor(k) # Null =>
           /\ Successor(k) \in Present
           /\ BucketOf(Successor(k), capacity) = BucketOf(k, capacity)
           /\ Earlier(k, Successor(k))
           /\ \A l \in Present : Earlier(k, l) =>
                 l = Successor(k) \/ Earlier(Successor(k), l)
      /\ Successor(k) = Null =>
           \A l \in Present : Earlier(k, l) => BucketOf(k, capacity) < BucketOf(l, capacity)
  BY <1>1, SuccessorIs
<1> DEFINE x == Successor(k)
<1> HIDE DEF x
<1>4. /\ iter'.at = "body" /\ iter'.bucket = iter.bucket /\ iter'.node = iter.node
      /\ iter'.stop = iter.stop /\ iter'.gone = TRUE /\ iter'.after = x
      /\ iter' \in Iterator
  <2>1. x \in Key \cup {Null} /\ iter \in Iterator
    BY <1>1, <1>3 DEF x, TypeOK
  <2>2. iter' = [iter EXCEPT !.gone = TRUE, !.after = x]
    BY DEF x
  <2> QED
    BY <2>1, <2>2 DEF Iterator
<1>5. x # Null => x # k /\ x \in Present'
  <2>1. ~Earlier(k, k)
    BY <1>1, OrderIs DEF Earlier
  <2> QED
    BY <1>2, <1>3, <2>1 DEF x
<1>6. capacity' = capacity
  BY DEF Unlinked
<1>7. Position'
  <2>1. iter.node # Null
    BY <1>1 DEF Position
  <2>2. grew => iter.stop < capacity
    BY <1>1 DEF Position, Looping
  <2> QED
    BY <1>4, <1>5, <1>6, <2>1, <2>2 DEF Position, Looping
<1>8. Progress'
  <2> SUFFICES ASSUME ~grew
               PROVE  /\ iter'.stop = capacity'
                      /\ due' \subseteq Present'
                      /\ shown' \subseteq Present'
                      /\ AtGap'
    BY <1>4 DEF Progress, Looping
  <2>1. /\ iter.stop = capacity /\ due \subseteq Present /\ shown \subseteq Present
        /\ iter.bucket = BucketOf(k, capacity)
        /\ \A l \in due : Earlier(k, l)
        /\ \A l \in shown : l = k \/ Earlier(l, k)
    BY <1>1 DEF Progress, AtNode, Looping
  <2>2. /\ due' \subseteq Present' /\ shown' \subseteq Present'
        /\ iter'.stop = capacity'
    BY <1>2, <1>4, <1>6, <2>1
  <2>3. CASE x # Null
    <3>1. iter.bucket = BucketOf(x, capacity) /\ x \in Key /\ Earlier(k, x)
      BY <1>1, <1>3, <2>1, <2>3 DEF x
    <3>2. ASSUME NEW l \in due', l # x
          PROVE  Precedes(buckets', capacity', x, l)
      <4>1. l \in Key /\ l # k /\ Earlier(x, l)
        BY <1>1, <1>3, <2>1, <2>3, <3>2 DEF x
      <4> QED
        BY <1>5, <1>9, <2>3, <3>1, <4>1
    <3>3. ASSUME NEW l \in shown'
          PROVE  Precedes(buckets', capacity', l, x)
      <4>1. l \in Key /\ l # k /\ Earlier(l, k)
        BY <1>1, <2>1, <3>3
      <4>2. Earlier(l, x)
        BY <1>1, <3>1, <4>1, OrderIs DEF Earlier
      <4> QED
        BY <1>5, <1>9, <2>3, <3>1, <4>1, <4>2
    <3>4. AtGap'
      BY <1>4, <1>6, <2>3, <3>1, <3>2, <3>3 DEF AtGap, Earlier
    <3> QED
      BY <2>2, <3>4
  <2>4. CASE x = Null
    <3>1. ASSUME NEW l \in due'
          PROVE  iter.bucket < BucketOf(l, capacity)
      BY <1>3, <2>1, <2>4, <3>1 DEF x
    <3>2. ASSUME NEW l \in shown'
          PROVE  BucketOf(l, capacity) <= iter.bucket
      <4>1. l \in Key /\ Earlier(l, k)
        BY <1>1, <2>1, <3>2
      <4>2. BucketOf(l, capacity) < BucketOf(k, capacity) \/ BucketOf(l, capacity) = BucketOf(k, capacity)
        BY <1>1, <4>1, OwnChain DEF Earlier
      <4>3. BucketOf(l, capacity) \in 0 .. capacity - 1 /\ BucketOf(k, capacity) \in 0 .. capacity - 1
        BY <1>1, <4>1, BucketRange, IterIs
      <4> QED
        BY <2>1, <4>2, <4>3
    <3>3. AtGap'
      BY <1>4, <1>6, <2>4, <3>1, <3>2 DEF AtGap
    <3> QED
      BY <2>2, <3>3
  <2> QED
    BY <2>3, <2>4
<1> QED
  BY <1>4, <1>7, <1>8

\* Erasing another key, or one that is not there: the loop does not move.
LEMMA OtherErased ==
    ASSUME HInv, Callable, NEW k \in Key, iter.at = "body" => k # iter.node,
           due' = due \ {k}, shown' = shown \ {k}, UNCHANGED <<capacity, iter, grew, twice>>,
           Present' = Present \ {k},
           \A l, m \in Key : l # k /\ m # k /\ Earlier(l, m) => Earlier(l, m)'
    PROVE  Position' /\ Progress'
<1>1. /\ TypeOK /\ Position /\ Progress
      /\ iter' = iter /\ capacity' = capacity /\ grew' = grew
  BY DEF HInv
<1>2. iter.at \in {"off", "body"} /\ iter.gone = FALSE
  BY <1>1, IterIs DEF Callable
<1>3. Position'
  <2>1. Looping /\ iter.node # Null => iter.node \in Present \ {k}
    BY <1>1, <1>2 DEF Position, Looping
  <2> QED
    BY <1>1, <1>2, <2>1 DEF Position, Looping
<1>4. Progress'
  <2> SUFFICES ASSUME iter.at = "body", ~grew
               PROVE  /\ iter'.stop = capacity'
                      /\ due' \subseteq Present'
                      /\ shown' \subseteq Present'
                      /\ AtNode'
    BY <1>1, <1>2 DEF Progress, Looping
  <2>1. /\ iter.stop = capacity /\ due \subseteq Present /\ shown \subseteq Present
        /\ iter.bucket = BucketOf(iter.node, capacity)
        /\ \A l \in due : Earlier(iter.node, l)
        /\ \A l \in shown : l = iter.node \/ Earlier(l, iter.node)
        /\ iter.node \in Key /\ iter.node # k
    BY <1>1, <1>2, IterIs DEF Progress, AtNode, Looping, Position
  <2>2. ASSUME NEW l \in due'
        PROVE  Earlier(iter.node, l)'
    <3>1. l \in Key /\ l # k /\ Earlier(iter.node, l)
      BY <1>1, <2>1, <2>2, IterIs
    <3> QED
      BY <1>1, <2>1, <3>1
  <2>3. ASSUME NEW l \in shown', l # iter.node
        PROVE  Earlier(l, iter.node)'
    <3>1. l \in Key /\ l # k /\ Earlier(l, iter.node)
      BY <1>1, <2>1, <2>3, IterIs
    <3> QED
      BY <1>1, <2>1, <3>1
  <2>4. AtNode'
    BY <1>1, <2>1, <2>2, <2>3 DEF AtNode
  <2> QED
    BY <1>1, <2>1, <2>4
<1> QED
  BY <1>3, <1>4

LEMMA EraseKeepsHInv ==
    ASSUME HInv, NEW k \in Key, Erase(k)
    PROVE  HInv'
<1>1. /\ TypeOK /\ IsTable(buckets, capacity) /\ Sized
      /\ Position /\ Progress /\ NothingShownTwice
      /\ Present \subseteq Key
  BY PresentIs DEF HInv
<1>2. /\ Callable
      /\ answer' = Has(k)
      /\ due' = due \ {k} /\ shown' = shown \ {k}
      /\ capacity' = capacity /\ grew' = grew /\ twice' = twice
      /\ Has(k) <=> k \in Present
      /\ answer' \in BOOLEAN
  BY <1>1, ValueIs DEF Erase, Has
<1>3. iter.at \in {"off", "body"} /\ iter.gone = FALSE
  BY <1>1, <1>2, IterIs DEF Callable
<1>4. CASE k \notin Present
  <2>1. UNCHANGED <<buckets, size, iter>>
    BY <1>2, <1>4 DEF Erase
  <2>2. UNCHANGED table
    BY <1>2, <2>1 DEF table
  <2>3. /\ IsTable(buckets', capacity') /\ Sized'
        /\ Present' = Present
        /\ \A l, m : Earlier(l, m)' <=> Earlier(l, m)
    BY <1>1, <2>2, SameTable
  <2>4. iter.at = "body" => k # iter.node
    BY <1>1, <1>3, <1>4, IterIs DEF Position, Looping
  <2>5. Position' /\ Progress'
    <3>1. Present' = Present \ {k}
      BY <1>4, <2>3
    <3> QED
      BY <1>2, <2>1, <2>3, <2>4, <3>1, OtherErased
  <2>6. TypeOK'
    BY <1>1, <1>2, <2>1 DEF TypeOK
  <2>7. NothingShownTwice'
    BY <1>1, <1>2 DEF NothingShownTwice
  <2> QED
    BY <2>3, <2>5, <2>6, <2>7 DEF HInv
<1>5. CASE k \in Present
  <2>1. /\ Unlinked(k)
        /\ iter' = IF iter.at = "body" /\ iter.node = k
                   THEN [iter EXCEPT !.gone = TRUE, !.after = Successor(k)] ELSE iter
    BY <1>2, <1>5 DEF Erase, Unlinked
  <2>2. /\ IsTable(buckets', capacity') /\ Sized'
        /\ Present' = Present \ {k}
        /\ size' \in 0 .. Cardinality(Key)
        /\ \A l, m \in Key : l # k /\ m # k /\ Earlier(l, m) => Earlier(l, m)'
    BY <1>1, <1>5, <2>1, UnlinkedIs
  <2>3. iter' \in Iterator /\ Position' /\ Progress'
    <3>1. CASE iter.at = "body" /\ iter.node = k
      BY <1>2, <1>3, <1>5, <2>1, <3>1, OwnErased
    <3>2. CASE ~(iter.at = "body" /\ iter.node = k)
      <4>1. iter' = iter /\ iter' \in Iterator
        BY <1>1, <2>1, <3>2 DEF TypeOK
      <4> QED
        BY <1>2, <2>2, <3>2, <4>1, OtherErased
    <3> QED
      BY <3>1, <3>2
  <2>4. TypeOK'
    <3>1. capacity' \in Nat /\ buckets' \in [0 .. capacity' - 1 -> Seq(Node)]
      BY <2>2 DEF IsTable
    <3> QED
      BY <1>1, <1>2, <2>2, <2>3, <3>1 DEF TypeOK
  <2>5. NothingShownTwice'
    BY <1>1, <1>2 DEF NothingShownTwice
  <2> QED
    BY <2>2, <2>3, <2>4, <2>5 DEF HInv
<1> QED
  BY <1>4, <1>5

\* Outside a loop, any table will do.
LEMMA AloneKeepsHInv ==
    ASSUME HInv, Alone, UNCHANGED <<iter, history>>,
           IsTable(buckets', capacity'), Sized', size' \in 0 .. Cardinality(Key),
           answer' \in Value \cup {NoValue} \cup BOOLEAN
    PROVE  HInv'
<1>1. /\ TypeOK /\ Position /\ NothingShownTwice
      /\ iter' = iter /\ due' = due /\ shown' = shown /\ grew' = grew /\ twice' = twice
      /\ iter.at = "off"
  BY DEF HInv, history, Alone
<1>2. TypeOK'
  <2>1. capacity' \in Nat /\ buckets' \in [0 .. capacity' - 1 -> Seq(Node)]
    BY DEF IsTable
  <2> QED
    BY <1>1, <2>1 DEF TypeOK
<1>3. Position'
  BY <1>1 DEF Position, Looping
<1>4. Progress'
  BY <1>1 DEF Progress, Looping
<1>5. NothingShownTwice'
  BY <1>1 DEF NothingShownTwice
<1> QED
  BY <1>2, <1>3, <1>4, <1>5 DEF HInv

LEMMA EmptyingKeepsHInv ==
    ASSUME HInv, Clear \/ MoveAway
    PROVE  HInv'
<1>1. /\ Alone /\ UNCHANGED <<iter, history>>
      /\ size' = 0 /\ answer' = NoValue
      /\ capacity' \in Nat /\ buckets' = Empty(capacity')
  BY IterIs DEF HInv, Clear, MoveAway
<1>2. IsTable(buckets', capacity') /\ Sized' /\ size' \in 0 .. Cardinality(Key)
  BY <1>1, EmptiedNext
<1> QED
  BY <1>1, <1>2, AloneKeepsHInv

LEMMA CopyKeepsHInv ==
    ASSUME HInv, CopyBack
    PROVE  HInv'
<1>1. /\ TypeOK /\ IsTable(buckets, capacity) /\ Sized
      /\ Alone /\ UNCHANGED <<iter, history>> /\ size' = size /\ answer' = answer
  BY DEF HInv, CopyBack
<1>2. IsTable(buckets', capacity') /\ Sized'
  BY <1>1, CopyBackIs
<1>3. size' \in 0 .. Cardinality(Key) /\ answer' \in Value \cup {NoValue} \cup BOOLEAN
  BY <1>1 DEF TypeOK
<1> QED
  BY <1>1, <1>2, <1>3, AloneKeepsHInv

\* The loop moves, the table does not.
LEMMA LoopKeepsHInv ==
    ASSUME HInv, UNCHANGED table, iter' \in Iterator,
           answer' \in Value \cup {NoValue} \cup BOOLEAN,
           due' \subseteq Key, shown' \subseteq Key,
           grew' \in BOOLEAN, twice' \in BOOLEAN,
           Position', Progress', NothingShownTwice'
    PROVE  HInv'
<1>1. IsTable(buckets', capacity') /\ Sized'
  BY SameTable DEF HInv
<1>2. buckets' = buckets /\ capacity' = capacity /\ size' = size
  BY DEF table
<1>3. TypeOK'
  BY <1>2 DEF HInv, TypeOK
<1> QED
  BY <1>1, <1>3 DEF HInv

LEMMA BeginKeepsHInv ==
    ASSUME HInv, Begin
    PROVE  HInv'
<1> DEFINE a == Advanced(-1)
<1>1. /\ TypeOK /\ IsTable(buckets, capacity) /\ Present \subseteq Key /\ iter \in Iterator
      /\ capacity \in Nat
  BY PresentIs DEF HInv, TypeOK
<1>2. /\ a.bucket \in Nat
      /\ a.node \in Present \cup {Null}
      /\ a.node # Null =>
           /\ a.bucket = BucketOf(a.node, capacity)
           /\ \A l \in Present : -1 < BucketOf(l, capacity) =>
                 l = a.node \/ Earlier(a.node, l)
      /\ a.node = Null =>
           /\ a.bucket = capacity
           /\ \A l \in Present : BucketOf(l, capacity) <= -1
  BY <1>1, AdvancedIs
<1>3. /\ iter' = [At(a) EXCEPT !.stop = capacity]
      /\ due' = {k \in Key : Has(k)} /\ shown' = {} /\ grew' = FALSE /\ twice' = FALSE
      /\ UNCHANGED table /\ answer' = answer
  BY DEF Begin
<1> HIDE DEF a
<1>4. /\ iter'.at = "test" /\ iter'.bucket = a.bucket /\ iter'.node = a.node
      /\ iter'.stop = capacity /\ iter'.gone = FALSE
      /\ iter' \in Iterator
  BY <1>1, <1>2, <1>3 DEF At, Iterator
<1>5. due' = Present
  BY <1>1, <1>3, ValueIs
<1>6. capacity' = capacity /\ buckets' = buckets /\ Present' = Present
  BY <1>3, SameTable DEF table
<1>7. Position'
  BY <1>2, <1>3, <1>4, <1>6 DEF Position, Looping
<1>8. Progress'
  <2>1. \A l \in Present : BucketOf(l, capacity) \in 0 .. capacity - 1 /\ capacity # 0
    BY <1>1, BucketRange, PresentIs
  <2>2. \A l \in Present : -1 < BucketOf(l, capacity) /\ ~(BucketOf(l, capacity) <= -1)
    BY <1>1, <2>1
  <2>3. a.node # Null =>
          /\ a.bucket = BucketOf(a.node, capacity)
          /\ \A l \in Present : l = a.node \/ Precedes(buckets, capacity, a.node, l)
    BY <1>2, <2>2 DEF Earlier
  <2>4. a.node = Null => Present = {}
    BY <1>2, <2>2
  <2>5. AtTest'
    BY <1>3, <1>4, <1>5, <1>6, <2>3, <2>4 DEF AtTest, Earlier
  <2> QED
    BY <1>3, <1>4, <1>5, <1>6, <2>5 DEF Progress
<1>9. answer' \in Value \cup {NoValue} \cup BOOLEAN
  BY <1>1, <1>3 DEF TypeOK
<1> QED
  BY <1>1, <1>3, <1>4, <1>5, <1>7, <1>8, <1>9, LoopKeepsHInv DEF NothingShownTwice

LEMMA ShowKeepsHInv ==
    ASSUME HInv, Show
    PROVE  HInv'
<1> DEFINE n == iter.node
<1>1. /\ TypeOK /\ IsTable(buckets, capacity) /\ Position /\ Progress /\ NothingShownTwice
      /\ Present \subseteq Key /\ iter \in Iterator
  BY PresentIs DEF HInv, TypeOK
<1>2. /\ iter.at = "test" /\ n # Null
      /\ iter' = [iter EXCEPT !.at = "body"]
      /\ answer' = ValueOf(n)
      /\ due' = due \ {n} /\ shown' = shown \cup {n}
      /\ twice' = (twice \/ n \in shown)
      /\ UNCHANGED table /\ grew' = grew
  BY DEF Show
<1>3. iter.gone = FALSE /\ n \in Present /\ n \in Key /\ capacity # 0
  BY <1>1, <1>2, IterIs, PresentIs DEF Position, Looping
<1>4. /\ iter'.at = "body" /\ iter'.bucket = iter.bucket /\ iter'.node = n
      /\ iter'.stop = iter.stop /\ iter'.gone = FALSE
      /\ iter' \in Iterator
  BY <1>1, <1>2, <1>3 DEF Iterator
<1>5. capacity' = capacity /\ buckets' = buckets /\ Present' = Present
  BY <1>2, SameTable DEF table
<1>6. answer' \in Value \cup {NoValue} \cup BOOLEAN
  BY <1>1, <1>2, <1>3, ValueIs
<1>7. due' \subseteq Key /\ shown' \subseteq Key /\ grew' \in BOOLEAN /\ twice' \in BOOLEAN
  BY <1>1, <1>2, <1>3, IterIs
<1>8. Position'
  <2>1. grew => iter.stop < capacity
    BY <1>1, <1>2 DEF Position, Looping
  <2> QED
    BY <1>2, <1>3, <1>4, <1>5, <2>1 DEF Position, Looping
<1>9. ASSUME ~grew
      PROVE  /\ iter.stop = capacity /\ due \subseteq Present /\ shown \subseteq Present
             /\ iter.bucket = BucketOf(n, capacity)
             /\ \A k \in due : k = n \/ Earlier(n, k)
             /\ \A k \in shown : Earlier(k, n)
  BY <1>1, <1>2, <1>9 DEF Progress, AtTest, Looping
<1>10. Progress'
  <2> SUFFICES ASSUME ~grew
               PROVE  /\ iter'.stop = capacity'
                      /\ due' \subseteq Present'
                      /\ shown' \subseteq Present'
                      /\ AtNode'
    BY <1>2, <1>4 DEF Progress
  <2>1. /\ \A k \in due' : Precedes(buckets, capacity, n, k)
        /\ \A k \in shown' : k = n \/ Precedes(buckets, capacity, k, n)
    BY <1>2, <1>9 DEF Earlier
  <2>2. AtNode'
    BY <1>4, <1>5, <1>9, <2>1 DEF AtNode, Earlier
  <2> QED
    BY <1>2, <1>3, <1>4, <1>5, <1>9, <2>2
<1>11. NothingShownTwice'
  <2>1. ~grew => n \notin shown
    <3>1. ~Earlier(n, n)
      BY <1>1, <1>3, OrderIs DEF Earlier
    <3> QED
      BY <1>9, <3>1
  <2> QED
    BY <1>1, <1>2, <2>1 DEF NothingShownTwice
<1> QED
  BY <1>2, <1>4, <1>6, <1>7, <1>8, <1>10, <1>11, LoopKeepsHInv

\* Where ++ goes in the chain: as AtGap says of a node that is gone.
After == IF iter.gone THEN iter.after ELSE Successor(iter.node)

LEMMA AfterIs ==
    ASSUME HInv, iter.at = "body"
    PROVE  /\ After \in Present \cup {Null}
           /\ ~grew /\ After # Null =>
                /\ iter.bucket = BucketOf(After, capacity)
                /\ \A k \in due : k = After \/ Earlier(After, k)
                /\ \A k \in shown : Earlier(k, After)
           /\ ~grew /\ After = Null =>
                /\ \A k \in due : iter.bucket < BucketOf(k, capacity)
                /\ \A k \in shown : BucketOf(k, capacity) <= iter.bucket
<1>1. /\ TypeOK /\ IsTable(buckets, capacity) /\ Position /\ Progress
      /\ Present \subseteq Key
  BY PresentIs DEF HInv
<1>2. CASE iter.gone
  <2>1. After = iter.after
    BY <1>2 DEF After
  <2>2. After \in Present \cup {Null}
    BY <1>1, <1>2, <2>1 DEF Position
  <2>3. ~grew => AtGap
    BY <1>1, <1>2 DEF Progress, Looping
  <2> QED
    BY <2>1, <2>2, <2>3 DEF AtGap
<1>3. CASE ~iter.gone
  <2> DEFINE n == iter.node
  <2>1. After = Successor(n)
    BY <1>3 DEF After
  <2>2. n \in Present /\ n \in Key /\ capacity # 0
    BY <1>1, <1>3, PresentIs DEF Position, Looping
  <2>3. /\ After # Null =>
             /\ After \in Present
             /\ BucketOf(After, capacity) = BucketOf(n, capacity)
             /\ Earlier(n, After)
             /\ \A l \in Present : Earlier(n, l) => l = After \/ Earlier(After, l)
        /\ After = Null =>
             \A l \in Present : Earlier(n, l) => BucketOf(n, capacity) < BucketOf(l, capacity)
    BY <1>1, <2>1, <2>2, SuccessorIs
  <2>4. ASSUME ~grew
        PROVE  /\ due \subseteq Present /\ shown \subseteq Present
               /\ iter.bucket = BucketOf(n, capacity)
               /\ \A k \in due : Earlier(n, k)
               /\ \A k \in shown : k = n \/ Earlier(k, n)
    BY <1>1, <1>3, <2>4 DEF Progress, AtNode, Looping
  <2> HIDE DEF n
  <2>5. ASSUME ~grew, After # Null
        PROVE  /\ iter.bucket = BucketOf(After, capacity)
               /\ \A k \in due : k = After \/ Earlier(After, k)
               /\ \A k \in shown : Earlier(k, After)
    <3>1. ASSUME NEW k \in shown
          PROVE  Earlier(k, After)
      <4>1. k \in Key /\ After \in Key
        BY <1>1, <2>3, <2>4, <2>5
      <4> QED
        BY <1>1, <2>2, <2>3, <2>4, <2>5, <4>1, OrderIs DEF Earlier
    <3> QED
      BY <2>3, <2>4, <2>5, <3>1
  <2>6. ASSUME ~grew, After = Null
        PROVE  /\ \A k \in due : iter.bucket < BucketOf(k, capacity)
               /\ \A k \in shown : BucketOf(k, capacity) <= iter.bucket
    <3>1. ASSUME NEW k \in shown
          PROVE  BucketOf(k, capacity) <= BucketOf(n, capacity)
      <4>1. k \in Key /\ (k = n \/ Earlier(k, n))
        BY <1>1, <2>4, <2>6
      <4>2. \/ BucketOf(k, capacity) < BucketOf(n, capacity)
            \/ BucketOf(k, capacity) = BucketOf(n, capacity)
        BY <1>1, <2>2, <4>1, OwnChain DEF Earlier
      <4>3. /\ BucketOf(k, capacity) \in 0 .. capacity - 1
            /\ BucketOf(n, capacity) \in 0 .. capacity - 1
            /\ capacity \in Nat
        BY <1>1, <2>2, <4>1, BucketRange, IterIs
      <4> QED
        BY <4>2, <4>3
    <3> QED
      BY <2>3, <2>4, <2>6, <3>1
  <2> QED
    BY <2>3, <2>5, <2>6
<1> QED
  BY <1>2, <1>3

\* Where ++ goes: to a node that is there, or off the table.
Arrival ==
    IF After = Null THEN Advanced(iter.bucket)
    ELSE [bucket |-> iter.bucket, node |-> After]

LEMMA ArrivalIs ==
    ASSUME HInv, iter.at = "body"
    PROVE  /\ Arrival.bucket \in Nat
           /\ Arrival.node \in Present \cup {Null}
           /\ Arrival.node = Null => Arrival.bucket = capacity
           /\ ~grew /\ Arrival.node # Null =>
                /\ Arrival.bucket = BucketOf(Arrival.node, capacity)
                /\ \A k \in due : k = Arrival.node \/ Earlier(Arrival.node, k)
                /\ \A k \in shown : Earlier(k, Arrival.node)
           /\ ~grew /\ Arrival.node = Null => due = {}
<1>1. /\ TypeOK /\ IsTable(buckets, capacity) /\ Progress /\ Present \subseteq Key
      /\ iter.bucket \in Nat /\ capacity \in Nat
  BY PresentIs, IterIs DEF HInv
<1>2. /\ After \in Present \cup {Null}
      /\ ~grew /\ After # Null =>
           /\ iter.bucket = BucketOf(After, capacity)
           /\ \A k \in due : k = After \/ Earlier(After, k)
           /\ \A k \in shown : Earlier(k, After)
      /\ ~grew /\ After = Null =>
           /\ \A k \in due : iter.bucket < BucketOf(k, capacity)
           /\ \A k \in shown : BucketOf(k, capacity) <= iter.bucket
  BY AfterIs
<1>3. CASE After # Null
  <2>1. Arrival.bucket = iter.bucket /\ Arrival.node = After
    BY <1>3 DEF Arrival
  <2> QED
    BY <1>1, <1>2, <1>3, <2>1
<1>4. CASE After = Null
  <2> DEFINE a == Arrival
             b == iter.bucket
  <2>1. a = Advanced(b)
    BY <1>4 DEF Arrival
  <2>2. b \in Int /\ b >= -1
    BY <1>1
  <2>3. /\ a.bucket \in Nat
        /\ a.node \in Present \cup {Null}
        /\ a.node # Null =>
             /\ capacity # 0
             /\ a.bucket = BucketOf(a.node, capacity)
             /\ b < a.bucket
             /\ \A l \in Present : b < BucketOf(l, capacity) =>
                   l = a.node \/ Earlier(a.node, l)
        /\ a.node = Null =>
             /\ a.bucket = capacity
             /\ \A l \in Present : BucketOf(l, capacity) <= b
    BY <1>1, <2>1, <2>2, AdvancedIs
  <2> HIDE DEF a, b
  <2>4. ASSUME ~grew
        PROVE  /\ due \subseteq Present /\ shown \subseteq Present
               /\ \A k \in due : b < BucketOf(k, capacity)
               /\ \A k \in shown : BucketOf(k, capacity) <= b
    BY <1>1, <1>2, <1>4, <2>4 DEF Progress, Looping, b
  <2>5. ASSUME NEW k \in Present
        PROVE  BucketOf(k, capacity) \in Nat
    <3>1. k \in Key /\ capacity # 0
      BY <1>1, <2>5, PresentIs
    <3>2. BucketOf(k, capacity) \in 0 .. capacity - 1
      BY <1>1, <3>1, BucketRange
    <3> QED
      BY <1>1, <3>2
  <2>6. ASSUME ~grew, a.node # Null
        PROVE  \A k \in shown : Earlier(k, a.node)
    <3> SUFFICES ASSUME NEW k \in shown PROVE Earlier(k, a.node)
      OBVIOUS
    <3>1. k \in Present /\ k \in Key /\ a.node \in Key
      BY <1>1, <2>3, <2>4, <2>6
    <3>2. BucketOf(k, capacity) < BucketOf(a.node, capacity)
      BY <2>2, <2>3, <2>4, <2>5, <2>6, <3>1
    <3> QED
      BY <1>1, <2>3, <2>6, <3>1, <3>2, OwnChain DEF Earlier
  <2>7. ASSUME ~grew, a.node = Null
        PROVE  due = {}
    <3> SUFFICES ASSUME NEW k \in due PROVE FALSE
      OBVIOUS
    <3>1. k \in Present
      BY <2>4, <2>7
    <3> QED
      BY <2>2, <2>3, <2>4, <2>5, <2>7, <3>1
  <2>8. ASSUME ~grew, a.node # Null
        PROVE  \A k \in due : k = a.node \/ Earlier(a.node, k)
    BY <2>3, <2>4, <2>8
  <2> QED
    BY <2>3, <2>6, <2>7, <2>8 DEF a
<1> QED
  BY <1>3, <1>4

LEMMA AdvanceKeepsHInv ==
    ASSUME HInv, Advance
    PROVE  HInv'
<1>1. /\ TypeOK /\ IsTable(buckets, capacity) /\ Position /\ Progress /\ NothingShownTwice
      /\ Present \subseteq Key /\ iter \in Iterator
  BY PresentIs DEF HInv, TypeOK
<1>2. /\ iter.at = "body"
      /\ iter' = At(Arrival)
      /\ UNCHANGED <<table, answer, history>>
  BY DEF Advance, Arrival, After
<1> DEFINE a == Arrival
<1>3. /\ a.bucket \in Nat
      /\ a.node \in Present \cup {Null}
      /\ a.node = Null => a.bucket = capacity
      /\ ~grew /\ a.node # Null =>
           /\ a.bucket = BucketOf(a.node, capacity)
           /\ \A k \in due : k = a.node \/ Earlier(a.node, k)
           /\ \A k \in shown : Earlier(k, a.node)
      /\ ~grew /\ a.node = Null => due = {}
  BY <1>2, ArrivalIs
<1> HIDE DEF a
<1>4. /\ iter'.at = "test" /\ iter'.bucket = a.bucket /\ iter'.node = a.node
      /\ iter'.stop = iter.stop /\ iter'.gone = FALSE
      /\ iter' \in Iterator
  BY <1>1, <1>2, <1>3 DEF At, Iterator, a
<1>5. /\ capacity' = capacity /\ buckets' = buckets /\ Present' = Present
      /\ due' = due /\ shown' = shown /\ grew' = grew /\ twice' = twice /\ answer' = answer
      /\ UNCHANGED table
  BY <1>2, SameTable DEF table, history
<1>6. Position'
  <2>1. grew => iter.stop < capacity
    BY <1>1, <1>2 DEF Position, Looping
  <2> QED
    BY <1>3, <1>4, <1>5, <2>1 DEF Position, Looping
<1>7. Progress'
  <2> SUFFICES ASSUME ~grew
               PROVE  /\ iter'.stop = capacity'
                      /\ due' \subseteq Present'
                      /\ shown' \subseteq Present'
                      /\ AtTest'
    BY <1>4, <1>5 DEF Progress
  <2>1. iter.stop = capacity /\ due \subseteq Present /\ shown \subseteq Present
    BY <1>1, <1>2 DEF Progress, Looping
  <2>2. a.node # Null =>
          /\ a.bucket = BucketOf(a.node, capacity)
          /\ \A k \in due : k = a.node \/ Precedes(buckets, capacity, a.node, k)
          /\ \A k \in shown : Precedes(buckets, capacity, k, a.node)
    BY <1>3 DEF Earlier
  <2>3. AtTest'
    BY <1>3, <1>4, <1>5, <2>2 DEF AtTest, Earlier
  <2> QED
    BY <1>4, <1>5, <2>1, <2>3
<1>8. NothingShownTwice'
  BY <1>1, <1>5 DEF NothingShownTwice
<1>9. /\ answer' \in Value \cup {NoValue} \cup BOOLEAN
      /\ due' \subseteq Key /\ shown' \subseteq Key /\ grew' \in BOOLEAN /\ twice' \in BOOLEAN
  BY <1>1, <1>5, IterIs DEF TypeOK
<1> QED
  BY <1>4, <1>5, <1>6, <1>7, <1>8, <1>9, LoopKeepsHInv

\* At the loop's condition with no node: only growth can have moved the end.
LEMMA EndIs ==
    ASSUME HInv, iter.at = "test", iter.node = Null
    PROVE  /\ AtEnd => ~grew /\ due = {}
           /\ ~AtEnd => grew
<1>1. /\ iter.bucket = capacity
      /\ grew => iter.stop < capacity
      /\ ~grew => iter.stop = capacity /\ due = {}
      /\ capacity \in Nat /\ iter.stop \in Nat
  BY IterIs DEF HInv, Position, Progress, AtTest, Looping
<1>2. AtEnd <=> iter.bucket = iter.stop
  BY DEF AtEnd
<1>3. grew => iter.bucket # iter.stop
  BY <1>1
<1> QED
  BY <1>1, <1>2, <1>3

LEMMA LeaveKeepsHInv ==
    ASSUME HInv, End \/ Lose
    PROVE  HInv'
<1>1. /\ TypeOK /\ NothingShownTwice /\ Position
      /\ iter \in Iterator /\ answer \in Value \cup {NoValue} \cup BOOLEAN
  BY DEF HInv, TypeOK
<1>2. /\ UNCHANGED <<table, history>> /\ iter.at = "test" /\ iter.node = Null
      /\ answer' \in Value \cup {NoValue} \cup BOOLEAN
      /\ iter' = Off \/ (iter' = [iter EXCEPT !.at = "lost"] /\ ~AtEnd)
  BY <1>1 DEF End, Lose, AtEnd
<1>3. iter' = Off \/ (iter' = [iter EXCEPT !.at = "lost"] /\ grew /\ iter.gone = FALSE)
  BY <1>1, <1>2, EndIs, IterIs DEF Position
<1>4. /\ due' = due /\ shown' = shown /\ grew' = grew /\ twice' = twice /\ UNCHANGED table
      /\ due' \subseteq Key /\ shown' \subseteq Key /\ grew' \in BOOLEAN /\ twice' \in BOOLEAN
  BY <1>1, <1>2, IterIs DEF history
<1>5. /\ iter' \in Iterator
      /\ iter'.at \in {"off", "lost"} /\ iter'.gone = FALSE
      /\ iter'.at = "lost" => grew
  <2>1. CASE iter' = Off
    BY <2>1 DEF Off, Iterator
  <2>2. CASE iter' = [iter EXCEPT !.at = "lost"] /\ grew /\ iter.gone = FALSE
    BY <1>1, <2>2 DEF Iterator
  <2> QED
    BY <1>3, <2>1, <2>2
<1>6. Position' /\ Progress'
  BY <1>4, <1>5 DEF Position, Progress, Looping
<1>7. NothingShownTwice'
  BY <1>1, <1>4 DEF NothingShownTwice
<1> QED
  BY <1>2, <1>4, <1>5, <1>6, <1>7, LoopKeepsHInv

LEMMA StutterKeepsHInv ==
    ASSUME HInv, UNCHANGED vars
    PROVE  HInv'
<1>1. /\ TypeOK /\ IsTable(buckets, capacity) /\ Sized /\ Position /\ Progress
      /\ NothingShownTwice
  BY DEF HInv
<1>2. /\ UNCHANGED table
      /\ buckets' = buckets /\ capacity' = capacity /\ size' = size /\ iter' = iter
      /\ answer' = answer /\ due' = due /\ shown' = shown /\ grew' = grew /\ twice' = twice
  BY DEF vars, table
<1>3. /\ Present' = Present
      /\ \A l, m : Earlier(l, m)' <=> Earlier(l, m)
  BY <1>2, SameTable
<1>4. Position' /\ Progress' /\ NothingShownTwice'
  BY <1>1, <1>2, <1>3 DEF Position, Progress, NothingShownTwice, Looping,
                          AtTest, AtNode, AtGap
<1>5. /\ iter' \in Iterator /\ answer' \in Value \cup {NoValue} \cup BOOLEAN
      /\ due' \subseteq Key /\ shown' \subseteq Key /\ grew' \in BOOLEAN /\ twice' \in BOOLEAN
  BY <1>1, <1>2, IterIs DEF TypeOK
<1> QED
  BY <1>2, <1>4, <1>5, LoopKeepsHInv

LEMMA NextKeepsHInv == HInv /\ [Next]_vars => HInv'
<1> SUFFICES ASSUME HInv, [Next]_vars PROVE HInv'
  OBVIOUS
<1>1. ASSUME NEW k \in Key, Find(k) PROVE HInv'
  BY <1>1, FindKeepsHInv
<1>2. ASSUME NEW k \in Key, Erase(k) PROVE HInv'
  BY <1>2, EraseKeepsHInv
<1>3. ASSUME NEW k \in Key, NEW v \in Value, Emplace(k, v) PROVE HInv'
  <2>1. Callable /\ Put(k, v) /\ answer' \in BOOLEAN
    BY <1>3 DEF Emplace
  <2> QED
    BY <2>1, WriteKeepsHInv
<1>4. ASSUME NEW k \in Key, NEW v \in Value, Assign(k, v) PROVE HInv'
  <2>1. Callable /\ Put(k, v) /\ answer' = IF Has(k) THEN ValueOf(k) ELSE Default
    BY <1>4 DEF Assign
  <2>2. answer' \in Value
    BY <2>1, ValueIs, MapAssumption DEF HInv
  <2> QED
    BY <2>1, <2>2, WriteKeepsHInv
<1>5. CASE Clear \/ MoveAway
  BY <1>5, EmptyingKeepsHInv
<1>6. CASE CopyBack
  BY <1>6, CopyKeepsHInv
<1>7. CASE Begin
  BY <1>7, BeginKeepsHInv
<1>8. CASE Show
  BY <1>8, ShowKeepsHInv
<1>9. CASE Advance
  BY <1>9, AdvanceKeepsHInv
<1>10. CASE End \/ Lose
  BY <1>10, LeaveKeepsHInv
<1>11. CASE Lost \/ UNCHANGED vars
  BY <1>11, StutterKeepsHInv DEF Lost
<1> QED
  BY <1>1, <1>2, <1>3, <1>4, <1>5, <1>6, <1>7, <1>8, <1>9, <1>10, <1>11 DEF Next

-----------------------------------------------------------------------------
(* The theorems.                                                            *)

\* In every reachable state the chains are a table of its own keys and count,
\* and a loop stands where the keys it has shown are behind it and those it must
\* show ahead of it, unless the table has grown under it.
THEOREM TableInvariance == Spec => []HInv
<1>1. Init => HInv
  BY InitHolds
<1>2. HInv /\ [Next]_vars => HInv'
  BY NextKeepsHInv
<1> QED
  BY <1>1, <1>2, PTL DEF Spec

\* The state of the table and of the loop over it has its type.
THEOREM TypeTheorem == Spec => []TypeOK
<1>1. HInv => TypeOK
  BY DEF HInv
<1> QED
  BY <1>1, TableInvariance, PTL

\* Growing, copying, moving and erasing keep every node in the bucket of its
\* key, one node a key, the count right and the table at most three quarters
\* full, for every hash function and whatever the operations before.
THEOREM ChainsTheorem == Spec => []ChainsAreATable
<1>1. HInv => ChainsAreATable
  <2> SUFFICES ASSUME HInv PROVE ChainsAreATable
    OBVIOUS
  <2>1. IsTable(buckets, capacity) /\ Sized
    BY DEF HInv
  <2>2. /\ DOMAIN buckets = 0 .. capacity - 1
        /\ \A b \in 0 .. capacity - 1 : DOMAIN buckets[b] = 1 .. Len(buckets[b])
    BY <2>1 DEF IsTable
  <2>3. /\ \A b \in 0 .. capacity - 1 : \A n \in 1 .. Len(buckets[b]) :
             BucketOf(buckets[b][n].key, capacity) = b
        /\ \A b \in 0 .. capacity - 1 : \A m, n \in 1 .. Len(buckets[b]) :
             buckets[b][m].key = buckets[b][n].key => m = n
    BY <2>1, TableFacts
  <2>4. size = Len(Nodes) /\ 4 * size <= 3 * capacity
    BY <2>1, CountIs DEF Sized
  <2>5. ASSUME NEW b \in DOMAIN buckets
        PROVE  /\ \A n \in DOMAIN buckets[b] : BucketOf(buckets[b][n].key, capacity) = b
               /\ \A m, n \in DOMAIN buckets[b] :
                    buckets[b][m].key = buckets[b][n].key => m = n
    <3>1. b \in 0 .. capacity - 1 /\ DOMAIN buckets[b] = 1 .. Len(buckets[b])
      BY <2>2
    <3> QED
      BY <2>3, <3>1
  <2> QED
    BY <2>4, <2>5 DEF ChainsAreATable
<1> QED
  BY <1>1, TableInvariance, PTL

\* A loop whose body looks up, inserts and erases shows no key twice while the
\* table keeps its capacity.
THEOREM NothingShownTwiceTheorem == Spec => []NothingShownTwice
<1>1. HInv => NothingShownTwice
  BY DEF HInv
<1> QED
  BY <1>1, TableInvariance, PTL

\* Such a loop never runs off the table unless its body makes the table grow.
THEOREM LoopsEndTheorem == Spec => []OnlyGrowthBreaksLoops
<1>1. HInv => OnlyGrowthBreaksLoops
  BY DEF HInv, Position, OnlyGrowthBreaksLoops
<1> QED
  BY <1>1, TableInvariance, PTL

-----------------------------------------------------------------------------
(* HashMap implements AbstractMap.                                          *)

Map == [k \in Key |-> ValueOf(k)]

LEMMA MapNext ==
    /\ \A k \in Key : Map[k] = ValueOf(k)
    /\ (\A k \in Key : ValueOf(k)' = ValueOf(k)) => Map' = Map
<1>1. \A k \in Key : Map[k] = ValueOf(k)
  BY DEF Map
<1>2. ASSUME \A k \in Key : ValueOf(k)' = ValueOf(k)
      PROVE  Map' = Map
  <2>1. Map' = [k \in Key |-> ValueOf(k)']
    BY DEF Map
  <2> QED
    BY <1>2, <2>1 DEF Map
<1> QED
  BY <1>1, <1>2

\* One key is given a value, or none.
LEMMA MapExcept ==
    ASSUME NEW k \in Key, NEW v,
           \A l \in Key : ValueOf(l)' = IF l = k THEN v ELSE ValueOf(l)
    PROVE  Map' = [Map EXCEPT ![k] = v]
<1>1. Map' = [l \in Key |-> ValueOf(l)']
  BY DEF Map
<1>2. Map' = [l \in Key |-> IF l = k THEN v ELSE ValueOf(l)]
  BY <1>1
<1> QED
  BY <1>2 DEF Map

LEMMA TableStutters ==
    ASSUME UNCHANGED table
    PROVE  Map' = Map
<1>1. \A k \in Key : ValueOf(k)' = ValueOf(k)
  BY SameTable
<1> QED
  BY <1>1, MapNext

LEMMA AbstractStutters ==
    ASSUME Map' = Map, UNCHANGED <<answer, due>>
    PROVE  UNCHANGED Abstract!vars
BY DEF Map, Abstract!vars

LEMMA WriteImplements ==
    ASSUME HInv, NEW k \in Key, NEW v \in Value, Put(k, v)
    PROVE  Map' = [Map EXCEPT ![k] = v] /\ due' = due
<1>1. \A l \in Key : ValueOf(l)' = IF l = k THEN v ELSE ValueOf(l)
  BY PutIs DEF HInv
<1>2. due' = due
  BY DEF Put
<1> QED
  BY <1>1, <1>2, MapExcept

LEMMA EraseImplements ==
    ASSUME HInv, NEW k \in Key, Erase(k)
    PROVE  Map' = [Map EXCEPT ![k] = NoValue]
<1>1. /\ TypeOK /\ IsTable(buckets, capacity) /\ Sized
      /\ Has(k) <=> k \in Present
      /\ ValueOf(k) = NoValue <=> k \notin Present
  BY ValueIs DEF HInv
<1>2. CASE k \notin Present
  <2>1. UNCHANGED table
    BY <1>1, <1>2 DEF Erase, table
  <2>2. \A l \in Key : ValueOf(l)' = ValueOf(l)
    BY <2>1, SameTable
  <2>3. \A l \in Key : ValueOf(l)' = IF l = k THEN NoValue ELSE ValueOf(l)
    BY <1>1, <1>2, <2>2
  <2> QED
    BY <2>3, MapExcept
<1>3. CASE k \in Present
  <2>1. Unlinked(k)
    BY <1>1, <1>3 DEF Erase, Unlinked
  <2>2. \A l \in Key : ValueOf(l)' = IF l = k THEN NoValue ELSE ValueOf(l)
    BY <1>1, <1>3, <2>1, UnlinkedIs
  <2> QED
    BY <2>2, MapExcept
<1> QED
  BY <1>2, <1>3

\* Every step of the table and its loop is a step of the map, or one it does not
\* see.
LEMMA StepsImplement ==
    HInv /\ [Next]_vars => [Abstract!Next]_(Abstract!vars)
<1> SUFFICES ASSUME HInv, [Next]_vars
             PROVE  Abstract!Next \/ UNCHANGED Abstract!vars
  OBVIOUS
<1>1. /\ TypeOK /\ IsTable(buckets, capacity) /\ Sized
      /\ \A k \in Key : Has(k) <=> Map[k] # NoValue
      /\ \A k \in Key : Map[k] = ValueOf(k)
  BY MapNext DEF HInv, Has
<1>2. ASSUME NEW k \in Key, Find(k)
      PROVE  Abstract!Next
  <2>1. Map' = Map /\ due' = due /\ answer' = Map[k]
    BY <1>1, <1>2, TableStutters DEF Find, table, history
  <2>2. Abstract!Find(k)
    BY <2>1 DEF Abstract!Find, Map
  <2> QED
    BY <2>2 DEF Abstract!Next
<1>3. ASSUME NEW k \in Key, Erase(k)
      PROVE  Abstract!Next
  <2>1. /\ Map' = [Map EXCEPT ![k] = NoValue]
        /\ due' = due \ {k} /\ answer' = (Map[k] # NoValue)
    BY <1>1, <1>3, EraseImplements DEF Erase, Has
  <2>2. Abstract!Erase(k)
    BY <2>1 DEF Abstract!Erase, Abstract!Holds, Map
  <2> QED
    BY <2>2 DEF Abstract!Next
<1>4. ASSUME NEW k \in Key, NEW v \in Value, Emplace(k, v)
      PROVE  Abstract!Next
  <2>1. /\ Map' = [Map EXCEPT ![k] = v]
        /\ due' = due /\ answer' = ~(Map[k] # NoValue)
    BY <1>1, <1>4, WriteImplements DEF Emplace, Has
  <2>2. Abstract!Emplace(k, v)
    BY <2>1 DEF Abstract!Emplace, Abstract!Holds, Map
  <2> QED
    BY <2>2 DEF Abstract!Next
<1>5. ASSUME NEW k \in Key, NEW v \in Value, Assign(k, v)
      PROVE  Abstract!Next
  <2>1. /\ Map' = [Map EXCEPT ![k] = v]
        /\ due' = due
        /\ answer' = IF Map[k] # NoValue THEN Map[k] ELSE Default
    BY <1>1, <1>5, WriteImplements DEF Assign, Has
  <2>2. Abstract!Assign(k, v)
    BY <2>1 DEF Abstract!Assign, Abstract!Holds, Map
  <2> QED
    BY <2>2 DEF Abstract!Next
<1>6. CASE Clear \/ MoveAway
  <2>1. /\ capacity' \in Nat /\ buckets' = Empty(capacity') /\ size' = 0
        /\ answer' = NoValue /\ due' = due
    BY <1>1, <1>6, IterIs DEF Clear, MoveAway, history
  <2>2. \A k \in Key : ValueOf(k)' = NoValue
    BY <2>1, EmptiedNext
  <2>3. Map' = [k \in Key |-> NoValue]
    <3>1. Map' = [k \in Key |-> ValueOf(k)']
      BY DEF Map
    <3> QED
      BY <2>2, <3>1
  <2>4. Abstract!Clear
    BY <2>1, <2>3 DEF Abstract!Clear, Map
  <2> QED
    BY <2>4 DEF Abstract!Next
<1>7. CASE CopyBack
  <2>1. \A k \in Key : ValueOf(k)' = ValueOf(k)
    BY <1>1, <1>7, CopyBackIs
  <2>2. Map' = Map /\ answer' = answer /\ due' = due
    BY <1>7, <2>1, MapNext DEF CopyBack, history
  <2> QED
    BY <2>2, AbstractStutters
<1>8. CASE Begin
  <2>1. /\ Map' = Map /\ answer' = answer
        /\ due' = {k \in Key : Map[k] # NoValue}
    BY <1>1, <1>8, TableStutters DEF Begin, table
  <2>2. Abstract!Begin
    BY <2>1 DEF Abstract!Begin, Abstract!Holds, Map
  <2> QED
    BY <2>2 DEF Abstract!Next
<1>9. CASE Show
  <2> DEFINE n == iter.node
  <2>1. n \in Present /\ n \in Key
    BY <1>1, <1>9, IterIs, PresentIs DEF Show, HInv, Position, Looping
  <2>2. /\ Map' = Map /\ answer' = ValueOf(n) /\ due' = due \ {n}
    BY <1>9, TableStutters DEF Show, table
  <2>3. Map[n] # NoValue /\ answer' = Map[n]
    BY <1>1, <2>1, <2>2, ValueIs
  <2>4. Abstract!Show(n)
    BY <2>2, <2>3 DEF Abstract!Show, Abstract!Holds, Map
  <2> QED
    BY <2>1, <2>4 DEF Abstract!Next
<1>10. CASE End
  <2>1. /\ Map' = Map /\ answer' = NoValue /\ due' = due /\ due = {}
    BY <1>10, TableStutters, EndIs DEF End, AtEnd, table, history
  <2>2. Abstract!End
    BY <2>1 DEF Abstract!End, Map
  <2> QED
    BY <2>2 DEF Abstract!Next
<1>11. CASE Advance \/ Lose \/ Lost \/ UNCHANGED vars
  <2>1. UNCHANGED table /\ answer' = answer /\ due' = due
    BY <1>11 DEF Advance, Lose, Lost, vars, table, history
  <2>2. Map' = Map
    BY <2>1, TableStutters
  <2> QED
    BY <2>1, <2>2, AbstractStutters
<1> QED
  BY <1>2, <1>3, <1>4, <1>5, <1>6, <1>7, <1>8, <1>9, <1>10, <1>11 DEF Next

\* The table is a finite map whatever its hash function, capacity and history,
\* and a loop over it that ends has shown every key that was there when it began
\* and was not erased meanwhile: HashMap refines AbstractMap.
THEOREM ImplementsMapTheorem == Spec => ImplementsMap
<1>1. Init => Abstract!Init
  <2> SUFFICES ASSUME Init PROVE Abstract!Init
    OBVIOUS
  <2>1. capacity \in Nat /\ buckets = Empty(capacity) /\ answer = NoValue /\ due = {}
    BY MapAssumption DEF Init, AtLeastFour
  <2>2. \A k \in Key : ValueIn(buckets, capacity, k) = NoValue
    BY <2>1, EmptiedIs
  <2>3. \A k \in Key : ValueOf(k) = NoValue
    BY <2>2 DEF ValueOf, ValueIn
  <2> QED
    BY <2>1, <2>3 DEF Abstract!Init
<1>2. HInv /\ [Next]_vars => [Abstract!Next]_(Abstract!vars)
  BY StepsImplement
<1> QED
  BY <1>1, <1>2, TableInvariance, PTL DEF Spec, ImplementsMap, Abstract!Spec

=============================================================================
