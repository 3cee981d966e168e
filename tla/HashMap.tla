------------------------------ MODULE HashMap ------------------------------
(***************************************************************************)
(* The chained hash table of misc/map.h, its growth, and a range-based for *)
(* loop over it whose body looks up, inserts and erases, which is how      *)
(* semactx_resolve goes through pending_workers while the checks it        *)
(* resumes park workers and drop entries.                                  *)
(*                                                                         *)
(* A node is known by its key.  Memory is not modelled, with one           *)
(* exception: the loop may erase the node it stands on, and ++ then reads  *)
(* the `next` of a freed node (the bulk allocator leaves it in place).     *)
(***************************************************************************)
EXTENDS Integers, FiniteSets, SequencesExt

CONSTANTS Key, Value, Default,
          NoValue,           \* the null pointer of find
          Null,              \* the null node of an iterator
          Hash,              \* HashFunc
          InitialCapacity    \* what the constructor is given

ASSUME MapAssumption ==
    /\ IsFiniteSet(Key)
    /\ Default \in Value
    /\ NoValue \notin Value \cup BOOLEAN
    /\ Null \notin Key
    /\ Hash \in [Key -> Nat]
    /\ InitialCapacity \in Nat

VARIABLES
    buckets,    \* chains of nodes, by bucket; capacity = 0 is the null array
    capacity,
    size,
    iter,       \* the iterator of the loop
    answer,     \* what the last call returned
    due,        \* history: keys there since Begin and not shown yet
    shown,      \* history: keys shown since Begin and there since
    grew,       \* history: has the table grown since Begin?
    twice       \* history: has a key been shown again, though never erased?

table == <<buckets, capacity, size>>
history == <<due, shown, grew, twice>>
vars == <<buckets, capacity, size, iter, answer, due, shown, grew, twice>>

Node == [key : Key, value : Value]

\* test: at the loop's condition; body: in its body; lost: a null node was
\* dereferenced.  `node` is gone once it is erased, and `after` its old next.
Iterator == [at : {"off", "test", "body", "lost"}, bucket : Nat,
             node : Key \cup {Null}, stop : Nat, gone : BOOLEAN,
             after : Key \cup {Null}]

Off == [at |-> "off", bucket |-> 0, node |-> Null, stop |-> 0, gone |-> FALSE,
        after |-> Null]

TypeOK ==
    /\ capacity \in Nat
    /\ buckets \in [0 .. capacity - 1 -> Seq(Node)]
    /\ size \in 0 .. Cardinality(Key)
    /\ iter \in Iterator
    /\ answer \in Value \cup {NoValue} \cup BOOLEAN
    /\ due \in SUBSET Key
    /\ shown \in SUBSET Key
    /\ {grew, twice} \subseteq BOOLEAN

AtLeastFour(n) == IF n < 4 THEN 4 ELSE n

Empty(c) == [b \in 0 .. c - 1 |-> <<>>]

Init ==
    /\ capacity = AtLeastFour(InitialCapacity)
    /\ buckets = Empty(capacity)
    /\ size = 0
    /\ iter = Off
    /\ answer = NoValue
    /\ due = {}
    /\ shown = {}
    /\ grew = FALSE
    /\ twice = FALSE

-----------------------------------------------------------------------------
(* Looking up.                                                              *)

BucketOf(k, c) == Hash[k] % c

\* The position of k's node in a chain, 0 for none.
Place(k, chain) == SelectInSeq(chain, LAMBDA node : node.key = k)

\* find: the value in k's node, if there is one.
ValueOf(k) ==
    LET chain == IF capacity = 0 THEN <<>> ELSE buckets[BucketOf(k, capacity)]
        p == Place(k, chain)
    IN IF p = 0 THEN NoValue ELSE chain[p].value

Has(k) == ValueOf(k) # NoValue

-----------------------------------------------------------------------------
(* Growing.                                                                 *)

\* Every node, in the order of the buckets.
Nodes == FlattenSeq([n \in 1 .. capacity |-> buckets[n - 1]])

\* Fault: the nodes stay in the bucket they had.
RehashedInPlace(c) ==
    [b \in 0 .. c - 1 |-> IF b < capacity THEN Reverse(buckets[b]) ELSE <<>>]

\* rehash moves the nodes, one after the other, to the front of their new chains.
Rehashed(c) ==
    LET nodes == Nodes
        moved[n \in 0 .. Len(nodes)] ==
            IF n = 0 THEN Empty(c)
            ELSE [moved[n - 1] EXCEPT ![BucketOf(nodes[n].key, c)] =
                     Cons(nodes[n], @)]
    IN moved[Len(nodes)]

\* check_and_rehash: one more node may fill the table to three quarters.
Grown ==
    IF capacity = 0 THEN 16
    ELSE IF 4 * (size + 1) > 3 * capacity THEN 2 * capacity ELSE capacity

GrownBuckets == IF Grown = capacity THEN buckets ELSE Rehashed(Grown)

-----------------------------------------------------------------------------
(* The operations.  A loop's body may call the first four, until it erases  *)
(* the node it stands on.                                                   *)

Callable == iter.at \in {"off", "body"} /\ ~iter.gone
Alone == iter.at = "off"

Find(k) ==
    /\ Callable
    /\ answer' = ValueOf(k)
    /\ UNCHANGED <<table, iter, history>>

\* Put v under k: into the node of k, or into a new node in front of its chain.
\* The table grows first, whether k is there or not.
Put(k, v) ==
    LET b == BucketOf(k, Grown)
        chain == GrownBuckets[b]
        p == Place(k, chain)
    IN /\ buckets' = [GrownBuckets EXCEPT ![b] =
                         IF p # 0 THEN [chain EXCEPT ![p].value = v]
                         ELSE Cons([key |-> k, value |-> v], chain)]
       /\ size' = IF p # 0 THEN size ELSE size + 1
       /\ capacity' = Grown
       /\ grew' = (grew \/ (~Alone /\ Grown # capacity))
       /\ UNCHANGED <<iter, due, shown, twice>>

Emplace(k, v) ==
    /\ Callable
    /\ answer' = ~Has(k)
    /\ Put(k, v)

\* m[k] = v through operator[], which makes a node with Value() if need be.
Assign(k, v) ==
    /\ Callable
    /\ answer' = IF Has(k) THEN ValueOf(k) ELSE Default
    /\ Put(k, v)

\* Where the iterator goes from k's node, in the chain it is in.
Successor(k) ==
    LET chain == buckets[BucketOf(k, capacity)]
        p == Place(k, chain)
    IN IF p = Len(chain) THEN Null ELSE chain[p + 1].key

\* Fault: the node is unlinked and still counted.
EraseUncounted(k) ==
    /\ Callable
    /\ answer' = Has(k)
    /\ buckets' = IF Has(k)
                  THEN [buckets EXCEPT ![BucketOf(k, capacity)] =
                           RemoveAt(@, Place(k, @))]
                  ELSE buckets
    /\ iter' = IF iter.at = "body" /\ iter.node = k
               THEN [iter EXCEPT !.gone = TRUE, !.after = Successor(k)] ELSE iter
    /\ due' = due \ {k}
    /\ shown' = shown \ {k}
    /\ UNCHANGED <<capacity, size, grew, twice>>

Erase(k) ==
    /\ Callable
    /\ answer' = Has(k)
    /\ due' = due \ {k}
    /\ shown' = shown \ {k}
    /\ \/ /\ ~Has(k)
          /\ UNCHANGED <<buckets, size, iter>>
       \/ /\ Has(k)
          /\ buckets' = [buckets EXCEPT ![BucketOf(k, capacity)] =
                            RemoveAt(@, Place(k, @))]
          /\ size' = size - 1
          /\ iter' = IF iter.at = "body" /\ iter.node = k
                     THEN [iter EXCEPT !.gone = TRUE, !.after = Successor(k)]
                     ELSE iter
    /\ UNCHANGED <<capacity, grew, twice>>

Clear ==
    /\ Alone
    /\ buckets' = Empty(capacity)
    /\ size' = 0
    /\ answer' = NoValue
    /\ UNCHANGED <<capacity, iter, history>>

\* Moving the table away leaves the null array behind.
MoveAway ==
    /\ Alone
    /\ buckets' = Empty(0)
    /\ capacity' = 0
    /\ size' = 0
    /\ answer' = NoValue
    /\ UNCHANGED <<iter, history>>

\* Assigning a copy of the table to itself through another one: every node is
\* inserted anew.
CopyBack ==
    /\ Alone
    /\ capacity' = AtLeastFour(capacity)
    /\ buckets' = Rehashed(AtLeastFour(capacity))
    /\ UNCHANGED <<size, iter, answer, history>>

-----------------------------------------------------------------------------
(* for (auto entry : map) ...                                               *)

\* Fault: the search for the next node starts in the bucket it has left.
AdvancedFromHere(b) ==
    LET later == {c \in 0 .. capacity - 1 : c >= b /\ buckets[c] # <<>>}
    IN IF later = {} THEN [bucket |-> capacity, node |-> Null]
       ELSE [bucket |-> Min(later), node |-> Head(buckets[Min(later)]).key]

\* Fault: the search stays in its bucket when it finds nothing.
AdvancedStaying(b) ==
    LET later == {c \in b + 1 .. capacity - 1 : buckets[c] # <<>>}
    IN IF later = {} THEN [bucket |-> b, node |-> Null]
       ELSE [bucket |-> Min(later), node |-> Head(buckets[Min(later)]).key]

\* The first node behind bucket b.
Advanced(b) ==
    LET later == {c \in b + 1 .. capacity - 1 : buckets[c] # <<>>}
    IN IF later = {} THEN [bucket |-> capacity, node |-> Null]
       ELSE [bucket |-> Min(later), node |-> Head(buckets[Min(later)]).key]

At(position) ==
    [iter EXCEPT !.at = "test", !.bucket = position.bucket,
                 !.node = position.node, !.gone = FALSE, !.after = Null]

\* end() is evaluated once, before the loop.
Begin ==
    /\ Alone
    /\ iter' = [At(Advanced(-1)) EXCEPT !.stop = capacity]
    /\ due' = {k \in Key : Has(k)}
    /\ shown' = {}
    /\ grew' = FALSE
    /\ twice' = FALSE
    /\ UNCHANGED <<table, answer>>

AtEnd == iter.node = Null /\ iter.bucket = iter.stop

Show ==
    /\ iter.at = "test"
    /\ iter.node # Null
    /\ iter' = [iter EXCEPT !.at = "body"]
    /\ answer' = ValueOf(iter.node)
    /\ due' = due \ {iter.node}
    /\ shown' = shown \cup {iter.node}
    /\ twice' = (twice \/ iter.node \in shown)
    /\ UNCHANGED <<table, grew>>

Advance ==
    /\ iter.at = "body"
    /\ LET after == IF iter.gone THEN iter.after ELSE Successor(iter.node)
       IN iter' = IF after = Null THEN At(Advanced(iter.bucket))
                  ELSE At([bucket |-> iter.bucket, node |-> after])
    /\ UNCHANGED <<table, answer, history>>

End ==
    /\ iter.at = "test"
    /\ AtEnd
    /\ iter' = Off
    /\ answer' = NoValue
    /\ UNCHANGED <<table, history>>

\* Neither a node nor the end that was taken before the loop.
Lose ==
    /\ iter.at = "test"
    /\ iter.node = Null
    /\ ~AtEnd
    /\ iter' = [iter EXCEPT !.at = "lost"]
    /\ UNCHANGED <<table, answer, history>>

Lost == iter.at = "lost" /\ UNCHANGED vars

Next ==
    \/ \E k \in Key : Find(k) \/ Erase(k)
    \/ \E k \in Key, v \in Value : Emplace(k, v) \/ Assign(k, v)
    \/ Clear \/ MoveAway \/ CopyBack
    \/ Begin \/ Show \/ Advance \/ End \/ Lose \/ Lost

Spec == Init /\ [][Next]_vars

-----------------------------------------------------------------------------
(* Properties                                                               *)

\* Growing, copying, moving and erasing keep a table: every node is in the
\* bucket of its key under the present capacity, no key has two, the count is
\* right, and three quarters of the capacity are never exceeded (a chain is
\* found by hashing again, so that a node in another bucket is lost).
ChainsAreATable ==
    /\ \A b \in DOMAIN buckets : \A n \in DOMAIN buckets[b] :
           BucketOf(buckets[b][n].key, capacity) = b
    /\ \A b \in DOMAIN buckets : \A m, n \in DOMAIN buckets[b] :
           buckets[b][m].key = buckets[b][n].key => m = n
    /\ size = Len(Nodes)
    /\ 4 * size <= 3 * capacity

\* A loop whose body looks up, inserts and erases, its own entry included, shows
\* no key again that it has shown, as long as the table keeps its capacity.
NothingShownTwice == ~grew => ~twice

\* Such a loop finds the end that was taken before it began, and never runs off
\* the table; only a body that makes the table grow can break it (the bucket it
\* then ends on is not the capacity end() was made with).
OnlyGrowthBreaksLoops == iter.at = "lost" => grew

Abstract == INSTANCE AbstractMap WITH
    map <- [k \in Key |-> ValueOf(k)],
    toShow <- due

\* Every call answers as a finite map does, and a loop that ends has shown every
\* key that was there when it began and was not erased meanwhile.
ImplementsMap == Abstract!Spec
=============================================================================
