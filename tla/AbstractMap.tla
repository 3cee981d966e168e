---------------------------- MODULE AbstractMap ----------------------------
(***************************************************************************)
(* What HashMap promises its users: a finite map, whatever its buckets and *)
(* capacity do, and a loop over it that shows what it holds.               *)
(***************************************************************************)
CONSTANTS Key, Value, NoValue, Default

VARIABLES
    map,       \* the value of every key, NoValue for none
    answer,    \* what the last operation returned
    toShow     \* during a loop: the keys it must still show

vars == <<map, answer, toShow>>

Holds(k) == map[k] # NoValue

Init ==
    /\ map = [k \in Key |-> NoValue]
    /\ answer = NoValue
    /\ toShow = {}

Find(k) ==
    /\ answer' = map[k]
    /\ UNCHANGED <<toShow, map>>

\* A key that a loop has still to show may be changed or erased meanwhile; one
\* that joins meanwhile may be shown or not.
Emplace(k, v) ==
    /\ answer' = ~Holds(k)
    /\ UNCHANGED toShow
    /\ map' = [map EXCEPT ![k] = v]

\* m[k] = v: the reference to a value that was there, or to a new one.
Assign(k, v) ==
    /\ answer' = IF Holds(k) THEN map[k] ELSE Default
    /\ UNCHANGED toShow
    /\ map' = [map EXCEPT ![k] = v]

Erase(k) ==
    /\ answer' = Holds(k)
    /\ toShow' = toShow \ {k}
    /\ map' = [map EXCEPT ![k] = NoValue]

Clear ==
    /\ answer' = NoValue
    /\ UNCHANGED toShow
    /\ map' = [k \in Key |-> NoValue]

Begin ==
    /\ UNCHANGED answer
    /\ toShow' = {k \in Key : Holds(k)}
    /\ UNCHANGED map

\* The value of a key that is there, and maybe of one that was shown before.
Show(k) ==
    /\ Holds(k)
    /\ answer' = map[k]
    /\ toShow' = toShow \ {k}
    /\ UNCHANGED map

\* A loop ends when it has shown everything.
End ==
    /\ toShow = {}
    /\ answer' = NoValue
    /\ UNCHANGED <<toShow, map>>

Next ==
    \/ \E k \in Key : Find(k) \/ Erase(k) \/ Show(k)
    \/ \E k \in Key, v \in Value : Emplace(k, v) \/ Assign(k, v)
    \/ Clear \/ Begin \/ End

Spec == Init /\ [][Next]_vars
=============================================================================
