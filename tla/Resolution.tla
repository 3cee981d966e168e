----------------------------- MODULE Resolution -----------------------------
(***************************************************************************)
(* What the semantic checker promises, without its workers, its wake-ups   *)
(* or its call stack: every declaration is open until it is resolved or    *)
(* has failed, in an order that respects what it needs, and the checker    *)
(* concludes without an error only when everything is resolved.            *)
(***************************************************************************)
CONSTANT Decl

VARIABLES
    needs,     \* what each declaration needs; a need that is no declaration
               \* is never met
    status,    \* of each declaration
    error,     \* has an error been reported?
    outcome    \* of the whole program

vars == <<needs, status, error, outcome>>

Init ==
    /\ status = [d \in Decl |-> "open"]
    /\ error = FALSE
    /\ outcome = "none"

Settled == {d \in Decl : status[d] # "open"}

\* A declaration is resolved once, after everything it needs was settled: a
\* failed declaration can still serve those that only ask for its type.
Resolve(d) ==
    /\ outcome = "none"
    /\ status[d] = "open"
    /\ needs[d] \subseteq Settled
    /\ status' = [status EXCEPT ![d] = "resolved"]
    /\ UNCHANGED <<needs, error, outcome>>

\* A resolved declaration may fail later (a function, by its body), a failed one
\* is never tried again, and nothing fails in silence.
Fail(d) ==
    /\ outcome = "none"
    /\ status[d] \in {"open", "resolved"}
    /\ status' = [status EXCEPT ![d] = "failed"]
    /\ error' = TRUE
    /\ UNCHANGED <<needs, outcome>>

Report ==
    /\ outcome = "none"
    /\ error' = TRUE
    /\ UNCHANGED <<needs, status, outcome>>

Succeed ==
    /\ outcome = "none"
    /\ ~error
    /\ \A d \in Decl : status[d] = "resolved"
    /\ outcome' = "success"
    /\ UNCHANGED <<needs, status, error>>

Reject ==
    /\ outcome = "none"
    /\ error' = TRUE
    /\ outcome' = "errors"
    /\ UNCHANGED <<needs, status>>

\* An assertion of the compiler fails.
Abort ==
    /\ outcome = "none"
    /\ outcome' = "aborted"
    /\ UNCHANGED <<needs, status, error>>

Next ==
    \/ \E d \in Decl : Resolve(d) \/ Fail(d)
    \/ Report \/ Succeed \/ Reject \/ Abort

Spec == Init /\ [][Next]_vars
=============================================================================
