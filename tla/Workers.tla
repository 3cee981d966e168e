------------------------------ MODULE Workers ------------------------------
(***************************************************************************)
(* The semantic checker's cooperative scheduler: semactx_resolve, the      *)
(* workers it parks in Semantic_Context::pending_workers, wake_up_workers, *)
(* and the checks of the declarations (variables, structs and functions)   *)
(* that park, wake and resume them.                                        *)
(*                                                                         *)
(* The program is single threaded, but a check may be suspended on a       *)
(* symbol that is not resolved yet, and resolving a symbol resumes other   *)
(* checks from inside the running one.  The C++ call stack is therefore    *)
(* explicit here: `stack` holds the activations (top first) and `ret` the  *)
(* Worker_Status just returned to the activation on top.                   *)
(*                                                                         *)
(* A declaration is a number, its position in the file.  Its `head` lists  *)
(* the names met, in evaluation order, before the symbol is resolved (the  *)
(* initialiser of a variable, the field types of a struct, the prototype   *)
(* of a function); its `body` lists the statements of a function, each of  *)
(* which names one declaration and may declare a local variable.           *)
(***************************************************************************)
EXTENDS Integers, Sequences, FiniteSets, SequencesExt

CONSTANTS N,           \* the number of top-level declarations
          Programs,    \* the programs a run ranges over
          KeepsScope   \* does Worker_Status::working_scope survive the returns?

Decl == 1 .. N
Undeclared == 0
Ref == Decl \cup {Undeclared}

Kind == {"var", "typed", "const", "func", "struct"}
Stmt == [local : BOOLEAN, ref : Ref]

\* bad: the initialiser does not coerce to the type that is written, which is
\* known once its names are resolved.
\* clash: an earlier declaration has the same name.
\* Only functions have bodies.
Declaration ==
    {e \in [kind : Kind, head : Seq(Ref), body : Seq(Stmt),
            bad : BOOLEAN, clash : BOOLEAN] :
        /\ e.body # <<>> => e.kind = "func"
        /\ e.bad => e.kind = "typed"}
Program == [Decl -> Declaration]

ASSUME ConstantsAssumption ==
    /\ N \in Nat
    /\ \A p \in Programs : p \in Program
    /\ KeepsScope \subseteq BOOLEAN

VARIABLES
    prog,      \* the program being checked
    phase,     \* how far semactx_resolve is
    next,      \* the next top-level statement of its second loop
    state,     \* Symbol_State of each declaration's symbol
    linked,    \* declarations whose locus is linked to a type
    pending,   \* pending_workers: symbol -> workers; <<>> is "no entry"
    stack,     \* activations, the running one first
    ret,       \* the Worker_Status on its way to the activation on top
    save,      \* block_save_points of the function bodies, 0 for none
    home,      \* the scope holding the local declared by the statement there
    reported,  \* has an Error diagnostic been reported?
    checked,   \* history: functions whose body was checked to its end
    cycles     \* history: <<d, r>>, d was told that r depends on itself

vars == <<prog, phase, next, state, linked, pending, stack, ret, save, home,
          reported, checked, cycles>>

(***************************************************************************)
(* Scopes, relative to the declaration a worker or an activation is for.   *)
(* For a declaration: "outer" is the scope it is declared in, "inner" the  *)
(* Function scope its interrupted prototype check has left.  For a body:   *)
(* "outer" is the Function scope and "inner" the scope of the Block.       *)
(***************************************************************************)
Scope == {"outer", "inner"}
Worker == [task : {"decl", "body"}, of : Decl, scope : Scope]

\* head: check_variable up to the symbol's resolution, at the at-th name;
\* body: check_block at the at-th statement; `own` when it is called by
\*       check_function_definition and not by a worker;
\* wake and drain: the loops over the workers of symbol `of`, at index at.
Frame == [op : {"head", "wake", "body", "drain"}, of : Decl, at : Nat \ {0},
          resumed : BOOLEAN, scope : Scope, own : BOOLEAN]

SymbolState == {"Unresolved", "Resolving", "Resolved", "Failed"}
Crash == {"assert_symbol", "assert_type", "unreachable_eval"}
Phase == {"discover", "check", "drain", "done"} \cup Crash

Status == [kind : {"Done", "Pending", "Failed"}, wait : Ref]
Running == [kind |-> "none", wait |-> Undeclared]   \* nothing returned yet

Done == [kind |-> "Done", wait |-> Undeclared]
Failed == [kind |-> "Failed", wait |-> Undeclared]
PendingOn(d) == [kind |-> "Pending", wait |-> d]

TypeOK ==
    /\ prog \in Program
    /\ phase \in Phase
    /\ next \in 1 .. N + 1
    /\ state \in [Decl -> SymbolState]
    /\ linked \in SUBSET Decl
    /\ pending \in [Decl -> Seq(Worker)]
    /\ stack \in Seq(Frame)
    /\ ret \in Status \cup {Running}
    /\ save \in [Decl -> Nat]
    /\ home \in [Decl -> Scope \cup {"none"}]
    /\ reported \in BOOLEAN
    /\ checked \in SUBSET Decl
    /\ cycles \in SUBSET (Decl \X Decl)

Init ==
    /\ prog \in Programs
    /\ phase = "discover"
    /\ next = 1
    /\ state = [d \in Decl |-> "Unresolved"]
    /\ linked = {}
    /\ pending = [d \in Decl |-> <<>>]
    /\ stack = <<>>
    /\ ret = Running
    /\ save = [d \in Decl |-> 0]
    /\ home = [d \in Decl |-> "none"]
    /\ reported = FALSE
    /\ checked = {}
    /\ cycles = {}

-----------------------------------------------------------------------------
(* The activation on top, and the ways it can leave the stack.              *)

Top == Head(stack)

\* Back in semactx_resolve, with nothing to look at.
Idle == stack = <<>> /\ ret = Running

TopIs(op) ==
    /\ phase \in {"check", "drain"}
    /\ stack # <<>>
    /\ Top.op = op

Return(status) ==
    /\ stack' = Tail(stack)
    /\ ret' = status

Goto(at) ==
    /\ stack' = Cons([Top EXCEPT !.at = at, !.resumed = FALSE], Tail(stack))
    /\ ret' = Running

\* A failed MINI_ASSERT or a MINI_UNREACHABLE: the compiler stops.
Abort(why) ==
    /\ phase' = why
    /\ UNCHANGED <<prog, next, state, linked, pending, stack, ret, save, home,
                   reported, checked, cycles>>

-----------------------------------------------------------------------------
(* Parking and resuming workers.                                            *)

\* Fault: no current scope to fall back on.
SavedScopeUnset(inner) ==
    {IF kept THEN inner ELSE "none" : kept \in KeepsScope}

\* Worker_Status's copies and moves drop working_scope, its elided returns do
\* not; a registration falls back on the current scope when it is gone.
SavedScope(inner) ==
    {IF kept THEN inner ELSE "outer" : kept \in KeepsScope}

\* Fault: registering replaces the entry.
RegisteredAlone(id, worker) == [pending EXCEPT ![id] = <<worker>>]

\* register_worker: create the entry or append to it.
Registered(id, worker) == [pending EXCEPT ![id] = Append(@, worker)]

HeadFrame(d, resumed) ==
    [op |-> "head", of |-> d, at |-> 1, resumed |-> resumed, scope |-> "outer",
     own |-> TRUE]

\* Fault: no early return for a declaration that is resolved already.
EnterDeclAgain(d, resumed) ==
    /\ stack' = Cons(HeadFrame(d, resumed), stack)
    /\ state' = [state EXCEPT ![d] = "Resolving"]
    /\ UNCHANGED <<prog, phase, linked, pending, ret, save, home, reported,
                   checked, cycles>>

\* check_variable once it has found its symbol: a resolved declaration is done,
\* any other is Resolving from here on; an explicit type is linked at once.
EnterDecl(d, resumed) ==
    /\ \/ /\ state[d] = "Resolved"
          /\ ret' = Done
          /\ UNCHANGED <<state, linked, stack>>
       \/ /\ state[d] # "Resolved"
          /\ stack' = Cons(HeadFrame(d, resumed), stack)
          /\ state' = [state EXCEPT ![d] = "Resolving"]
          /\ linked' = IF prog[d].kind = "typed" THEN linked \cup {d} ELSE linked
          /\ UNCHANGED ret
    /\ UNCHANGED <<prog, phase, pending, save, home, reported, checked, cycles>>

\* check_block begins at the save point when the block has one.
BodyFrame(d, resumed, scope, own) ==
    [op |-> "body", of |-> d, at |-> IF save[d] = 0 THEN 1 ELSE save[d],
     resumed |-> resumed, scope |-> scope, own |-> own]

\* Worker::resume, in the scope the worker was parked with: check_variable does
\* not find its symbol in a Function scope that was left.
Resume(w) ==
    \/ /\ w.task = "decl"
       /\ w.scope = "inner"
       /\ Abort("assert_symbol")
    \/ /\ w.task = "decl"
       /\ w.scope = "outer"
       /\ EnterDecl(w.of, TRUE)
       /\ UNCHANGED next
    \/ /\ w.task = "body"
       /\ stack' = Cons(BodyFrame(w.of, TRUE, w.scope, FALSE), stack)
       /\ UNCHANGED <<prog, phase, next, state, linked, pending, ret, save, home,
                      reported, checked, cycles>>

-----------------------------------------------------------------------------
(* semactx_resolve                                                          *)

\* discover_variable refuses a name that its scope has at another place.
Redeclared == \E d \in Decl : prog[d].clash

Discover ==
    /\ phase = "discover"
    /\ reported' = Redeclared
    /\ phase' = IF reported' THEN "done" ELSE "check"
    /\ UNCHANGED <<prog, next, state, linked, pending, stack, ret, save, home,
                   checked, cycles>>

CheckNext ==
    /\ phase = "check"
    /\ Idle
    /\ next \in Decl
    /\ next' = next + 1
    /\ EnterDecl(next, FALSE)

\* The status of a top-level statement: one that is Pending is parked on every
\* symbol it waits for (a suspended body waits for none), others are dropped.
TopLevelStatus ==
    /\ phase = "check"
    /\ stack = <<>>
    /\ ret # Running
    /\ ret' = Running
    /\ IF ret.kind = "Pending" /\ ret.wait # Undeclared
       THEN \E scope \in SavedScope(IF prog[next - 1].kind = "func"
                                    THEN "inner" ELSE "outer") :
              pending' = Registered(ret.wait,
                           [task |-> "decl", of |-> next - 1, scope |-> scope])
       ELSE UNCHANGED pending
    /\ UNCHANGED <<prog, phase, next, state, linked, stack, save, home, reported,
                   checked, cycles>>

BeginDrain ==
    /\ phase = "check"
    /\ Idle
    /\ next = N + 1
    /\ phase' = "drain"
    /\ UNCHANGED <<prog, next, state, linked, pending, stack, ret, save, home,
                   reported, checked, cycles>>

\* One entry of pending_workers met by the draining loop, in any order (it
\* iterates over a hash table).  Nothing happens while the symbol is open.
DrainEntry(d) ==
    /\ phase = "drain"
    /\ Idle
    /\ pending[d] # <<>>
    /\ \/ /\ state[d] = "Resolved"
          /\ stack' = <<[op |-> "drain", of |-> d, at |-> 1, resumed |-> FALSE,
                         scope |-> "outer", own |-> FALSE]>>
          /\ UNCHANGED pending
       \/ /\ state[d] = "Failed"
          /\ pending' = [pending EXCEPT ![d] = <<>>]
          /\ UNCHANGED stack
       \/ /\ state[d] \in {"Unresolved", "Resolving"}
          /\ UNCHANGED <<pending, stack>>
    /\ UNCHANGED <<prog, phase, next, state, linked, ret, save, home, reported,
                   checked, cycles>>

Finish ==
    /\ phase = "drain"
    /\ Idle
    /\ \A d \in Decl : pending[d] = <<>>
    /\ phase' = "done"
    /\ UNCHANGED <<prog, next, state, linked, pending, stack, ret, save, home,
                   reported, checked, cycles>>

-----------------------------------------------------------------------------
(* wake_up_workers and the same loop in semactx_resolve                     *)

Looping == TopIs("wake") \/ TopIs("drain")

ResumeNext ==
    /\ Looping
    /\ ret = Running
    /\ Top.at <= Len(pending[Top.of])
    /\ Resume(pending[Top.of][Top.at])

\* Fault: a worker that is Pending again leaves the list as well.
EndsWhenPending(status) == status.kind \in {"Done", "Pending", "Failed"}

\* A worker that ended leaves the list, and the index moves on all the same:
\* the worker that takes its place is skipped.
Ends(status) == status.kind \in {"Done", "Failed"}

\* Fault: a worker that is Pending again is parked a second time.
ResumedReparks ==
    /\ Looping
    /\ ret # Running
    /\ pending' = IF Ends(ret)
                  THEN [pending EXCEPT ![Top.of] = RemoveAt(@, Top.at)]
                  ELSE IF ret.wait # Undeclared
                  THEN Registered(ret.wait, pending[Top.of][Top.at])
                  ELSE pending
    /\ stack' = Cons([Top EXCEPT !.at = @ + 1], Tail(stack))
    /\ ret' = Running
    /\ UNCHANGED <<prog, phase, next, state, linked, save, home, reported,
                   checked, cycles>>

Resumed ==
    /\ Looping
    /\ ret # Running
    /\ pending' = IF Ends(ret)
                  THEN [pending EXCEPT ![Top.of] = RemoveAt(@, Top.at)]
                  ELSE pending
    /\ stack' = Cons([Top EXCEPT !.at = @ + 1], Tail(stack))
    /\ ret' = Running
    /\ UNCHANGED <<prog, phase, next, state, linked, save, home, reported,
                   checked, cycles>>

\* The loop is over.  After wake_up_workers a function's body is checked, and
\* any other declaration is done.
LoopEnds ==
    /\ Looping
    /\ ret = Running
    /\ Top.at > Len(pending[Top.of])
    /\ LET d == Top.of IN
       \/ /\ Top.op = "drain"
          /\ stack' = Tail(stack)
          /\ UNCHANGED ret
       \/ /\ Top.op = "wake"
          /\ prog[d].kind = "func" /\ prog[d].body # <<>>
          /\ stack' = Cons(BodyFrame(d, Top.resumed,
                                  IF Top.resumed THEN "outer" ELSE "inner", TRUE),
                             Tail(stack))
          /\ UNCHANGED ret
       \/ /\ Top.op = "wake"
          /\ ~(prog[d].kind = "func" /\ prog[d].body # <<>>)
          /\ Return(Done)
    /\ UNCHANGED <<prog, phase, next, state, linked, pending, save, home,
                   reported, checked, cycles>>

-----------------------------------------------------------------------------
(* check_identifier: what a name yields.  A reference to a failed symbol    *)
(* succeeds when a type was linked to it and trips an assertion otherwise.  *)

\* Fault: an unresolved symbol is taken for a resolved one.
YieldsEagerly(r) ==
    IF r = Undeclared THEN "error"
    ELSE IF state[r] = "Resolving" THEN "cycle" ELSE "type"

Yields(r) ==
    IF r = Undeclared THEN "error"
    ELSE CASE state[r] = "Resolving"             -> "cycle"
           [] state[r] = "Unresolved"            -> "wait"
           [] state[r] \in {"Resolved", "Failed"} ->
                IF r \in linked THEN "type" ELSE "crash"

-----------------------------------------------------------------------------
(* check_variable, check_struct_decl and check_function_definition, up to   *)
(* the resolution of the symbol.                                            *)

InHead == TopIs("head") /\ ret = Running
HeadName == prog[Top.of].head[Top.at]
NamesLeft == Top.at <= Len(prog[Top.of].head)

\* Faults: every suspended declaration stays in Resolving, or fails; every broken
\* one stays in Resolving.
SuspendedResolving(kind) == "Resolving"
SuspendedFailed(kind) == "Failed"
BrokenResolving(kind) == "Resolving"

\* check_struct_decl returns without touching the state; the others reset it.
Suspended(kind) == IF kind = "struct" THEN "Resolving" ELSE "Unresolved"
Broken(kind)    == IF kind = "struct" THEN "Resolving" ELSE "Failed"

FailHead ==
    /\ state' = [state EXCEPT ![Top.of] = Broken(prog[Top.of].kind)]
    /\ reported' = TRUE
    /\ Return(Failed)

HeadStep ==
    /\ InHead
    /\ NamesLeft
    /\ Yields(HeadName) = "type"
    /\ stack' = Cons([Top EXCEPT !.at = @ + 1], Tail(stack))
    /\ UNCHANGED <<prog, phase, next, state, linked, pending, ret, save, home,
                   reported, checked, cycles>>

HeadWaits ==
    /\ InHead
    /\ NamesLeft
    /\ Yields(HeadName) = "wait"
    /\ state' = [state EXCEPT ![Top.of] = Suspended(prog[Top.of].kind)]
    /\ Return(PendingOn(HeadName))
    /\ UNCHANGED <<prog, phase, next, linked, pending, save, home, reported,
                   checked, cycles>>

HeadFails ==
    /\ InHead
    /\ NamesLeft
    /\ Yields(HeadName) \in {"error", "cycle"}
    /\ cycles' = IF Yields(HeadName) = "cycle"
                 THEN cycles \cup {<<Top.of, HeadName>>} ELSE cycles
    /\ FailHead
    /\ UNCHANGED <<prog, phase, next, linked, pending, save, home, checked>>

\* coerce_type_into refuses the initialiser.  (A struct has no check of its own:
\* that of duplicate fields looks into a table that is never filled.)
OwnCheckFails ==
    /\ InHead
    /\ ~NamesLeft
    /\ prog[Top.of].bad
    /\ FailHead
    /\ UNCHANGED <<prog, phase, next, linked, pending, save, home, checked,
                   cycles>>

\* set_state(Resolved), then wake_up_workers.
HeadResolves ==
    /\ InHead
    /\ ~NamesLeft
    /\ ~prog[Top.of].bad
    /\ prog[Top.of].kind # "const"
    /\ state' = [state EXCEPT ![Top.of] = "Resolved"]
    /\ linked' = linked \cup {Top.of}
    /\ stack' = Cons([Top EXCEPT !.op = "wake", !.at = 1], Tail(stack))
    /\ UNCHANGED <<prog, phase, next, pending, ret, save, home, reported,
                   checked, cycles>>

HeadCrashes ==
    /\ InHead
    /\ \/ /\ NamesLeft
          /\ Yields(HeadName) = "crash"
          /\ Abort("assert_type")
       \/ /\ ~NamesLeft
          /\ prog[Top.of].kind = "const"
          /\ Abort("unreachable_eval")

-----------------------------------------------------------------------------
(* check_block over a function's body                                       *)

InBody == TopIs("body") /\ ret = Running
StmtsLeft == Top.at <= Len(prog[Top.of].body)
BodyStmt == prog[Top.of].body[Top.at]

\* A resumed local declaration is looked up in the current scope only.
Reachable == BodyStmt.local /\ Top.resumed => home[Top.of] = Top.scope

\* A local declaration met for the first time is registered there.
HomeAfter ==
    IF BodyStmt.local /\ ~Top.resumed
    THEN [home EXCEPT ![Top.of] = Top.scope] ELSE home

BodyStep ==
    /\ InBody
    /\ StmtsLeft
    /\ Reachable
    /\ Yields(BodyStmt.ref) = "type"
    /\ home' = HomeAfter
    /\ Goto(Top.at + 1)
    /\ UNCHANGED <<prog, phase, next, state, linked, pending, save, reported,
                   checked, cycles>>

\* The save point stays at the statement; a function's own body is parked by
\* check_function_definition, which returns Pending and waits for nothing; a
\* worker's status goes back to the loop that resumed it.
BodyWaits ==
    /\ InBody
    /\ StmtsLeft
    /\ Reachable
    /\ Yields(BodyStmt.ref) = "wait"
    /\ home' = HomeAfter
    /\ save' = [save EXCEPT ![Top.of] = Top.at]
    /\ \/ /\ Top.own
          /\ \E scope \in SavedScope(Top.scope) :
               pending' = Registered(BodyStmt.ref,
                            [task |-> "body", of |-> Top.of, scope |-> scope])
          /\ Return(PendingOn(Undeclared))
       \/ /\ ~Top.own
          /\ UNCHANGED pending
          /\ Return(PendingOn(BodyStmt.ref))
    /\ UNCHANGED <<prog, phase, next, state, linked, reported, checked, cycles>>

BodyFails ==
    /\ InBody
    /\ StmtsLeft
    /\ Reachable
    /\ Yields(BodyStmt.ref) \in {"error", "cycle"}
    /\ home' = HomeAfter
    /\ save' = [save EXCEPT ![Top.of] = Top.at]
    /\ state' = IF Top.own THEN [state EXCEPT ![Top.of] = "Failed"] ELSE state
    /\ cycles' = IF Yields(BodyStmt.ref) = "cycle"
                 THEN cycles \cup {<<Top.of, BodyStmt.ref>>} ELSE cycles
    /\ reported' = TRUE
    /\ Return(Failed)
    /\ UNCHANGED <<prog, phase, next, linked, pending, checked>>

\* Fault: a function whose body is done wakes those who waited for it again.
BodyEndsWaking ==
    /\ InBody
    /\ ~StmtsLeft
    /\ checked' = checked \cup {Top.of}
    /\ stack' = Cons([Top EXCEPT !.op = "wake", !.at = 1], Tail(stack))
    /\ UNCHANGED <<prog, phase, next, state, linked, pending, ret, save, home,
                   reported, cycles>>

BodyEnds ==
    /\ InBody
    /\ ~StmtsLeft
    /\ checked' = checked \cup {Top.of}
    /\ Return(Done)
    /\ UNCHANGED <<prog, phase, next, state, linked, pending, save, home,
                   reported, cycles>>

BodyCrashes ==
    /\ InBody
    /\ StmtsLeft
    /\ \/ ~Reachable /\ Abort("assert_symbol")
       \/ /\ Reachable
          /\ Yields(BodyStmt.ref) = "crash"
          /\ Abort("assert_type")

-----------------------------------------------------------------------------
Stopped == phase \in Crash \cup {"done"} /\ UNCHANGED vars

Resolve == Discover \/ CheckNext \/ TopLevelStatus \/ BeginDrain \/ Finish
Loops == ResumeNext \/ Resumed \/ LoopEnds
Heads == HeadStep \/ HeadWaits \/ HeadFails \/ OwnCheckFails \/ HeadResolves
         \/ HeadCrashes
Bodies == BodyStep \/ BodyWaits \/ BodyFails \/ BodyEnds \/ BodyCrashes

Next ==
    \/ Resolve
    \/ \E d \in Decl : DrainEntry(d)
    \/ Loops
    \/ Heads
    \/ Bodies
    \/ Stopped

\* The compiler runs on, and every pass of the draining loop meets every entry.
Fairness ==
    /\ WF_vars(Resolve \/ Loops \/ Heads \/ Bodies)
    /\ \A d \in Decl : SF_vars(DrainEntry(d))

Spec == Init /\ [][Next]_vars
FairSpec == Spec /\ Fairness

-----------------------------------------------------------------------------
(* Safety                                                                   *)

Success == phase = "done" /\ ~reported

\* A compilation that ends without an error has resolved every declaration and
\* checked every function body to its end, whatever was suspended and resumed
\* on the way (main.cc lowers the program on the strength of that).
SuccessIsComplete ==
    Success => \A d \in Decl :
        /\ state[d] = "Resolved"
        /\ prog[d].body # <<>> => d \in checked

\* Where a worker for a task is parked.
Parked(task, d) ==
    {p \in UNION {{<<id, n>> : n \in DOMAIN pending[id]} : id \in Decl} :
        pending[p[1]][p[2]].task = task /\ pending[p[1]][p[2]].of = d}

Active(ops, d) == \E n \in DOMAIN stack : stack[n].op \in ops /\ stack[n].of = d

\* Returned by the statement just checked, not yet looked at by the caller.
InFlight(d) == phase = "check" /\ stack = <<>> /\ ret # Running /\ next = d + 1

\* Until an error is reported no suspended check is forgotten: a declaration
\* met by the second loop is resolved, being checked, about to be parked or
\* parked, and so is the body of a resolved function.  Nobody else remembers
\* it: wake_up_workers and the draining loop edit the lists while the checks
\* they resume add to them.
NothingForgotten ==
    ~reported => \A d \in Decl : d < next =>
        /\ \/ state[d] = "Resolved"
           \/ Active({"head"}, d)
           \/ InFlight(d)
           \/ Parked("decl", d) # {}
        /\ state[d] = "Resolved" /\ prog[d].body # <<>> =>
           \/ d \in checked
           \/ Active({"wake", "body"}, d)
           \/ Parked("body", d) # {}

\* A suspended check is parked in one place at most, so that it is never
\* resumed by two symbols (its function would get a second call schema, which
\* set_call_schema asserts against).
ParkedOnce ==
    \A d \in Decl : /\ Cardinality(Parked("decl", d)) <= 1
                    /\ Cardinality(Parked("body", d)) <= 1

\* A resolved symbol has a type, and so had every name its declaration uses
\* when it was resolved: types flow along the dependencies, in whatever order
\* the declarations were written and the workers resumed.
TypesKnown ==
    \A d \in Decl : state[d] = "Resolved" =>
        /\ d \in linked
        /\ \A n \in DOMAIN prog[d].head : prog[d].head[n] \in linked

\* The Resolving mark of a variable or a function is on only while its own
\* check is the running activation: it is never seen by a check resumed in
\* between, however deep the wake-ups nest.
ResolvingIsRunning ==
    \A d \in Decl : state[d] = "Resolving" /\ prog[d].kind # "struct" =>
        stack # <<>> /\ Top.op = "head" /\ Top.of = d

\* The loops over pending_workers hold an index across the checks they resume,
\* and those add workers to the lists and run such loops themselves: the index
\* stays within its list, and no list is under two loops at once.
Loop(n) == stack[n].op \in {"wake", "drain"}

LoopsKeepTheirPlace ==
    /\ \A n \in DOMAIN stack : Loop(n) /\ (n > 1 \/ ret # Running) =>
           stack[n].at \in DOMAIN pending[stack[n].of]
    /\ \A m, n \in DOMAIN stack :
           Loop(m) /\ Loop(n) /\ stack[m].of = stack[n].of => m = n

\* Hence a "cyclic dependency" reported against a variable or a function is
\* reported in that very declaration (longer cycles go unnoticed).
OnlySelfCycles ==
    \A c \in cycles : prog[c[2]].kind # "struct" => c[1] = c[2]

Depends(d) == {prog[d].head[n] : n \in DOMAIN prog[d].head}

\* A symbol is resolved once, and a failed one is not tried again: the only
\* change a settled symbol knows is a resolved function whose body fails.
SettledStaysSettled ==
    [][\A d \in Decl :
         /\ state[d] = "Failed" => state'[d] = "Failed"
         /\ state[d] = "Resolved" => \/ state'[d] = "Resolved"
                                     \/ state'[d] = "Failed" /\ reported']_vars

-----------------------------------------------------------------------------
(* The abstract specification, and the mapping to it.                       *)

Outcome ==
    CASE phase \in {"discover", "check", "drain"} -> "none"
      [] phase = "done" -> IF reported THEN "errors" ELSE "success"
      [] phase \in Crash -> "aborted"

Settlement(d) ==
    CASE state[d] \in {"Unresolved", "Resolving"} -> "open"
      [] state[d] = "Resolved" -> "resolved"
      [] state[d] = "Failed" -> "failed"

Contract == INSTANCE Resolution WITH
    needs   <- [d \in Decl |-> Depends(d)],
    status  <- [d \in Decl |-> Settlement(d)],
    error   <- reported,
    outcome <- Outcome

\* However checks are suspended and resumed, they settle the declarations as if
\* they had been written in an order of their dependencies: one at a time, once,
\* none before what it needs, and a run that succeeds has settled them all.
MeetsContract == Contract!Spec

-----------------------------------------------------------------------------
(* Liveness                                                                 *)

\* Nothing is wrong with the program, its types are declared before they are
\* used, and no chain of initialisers comes back to itself.
WellFormed(p) ==
    /\ \A d \in Decl : /\ ~p[d].clash
                       /\ ~p[d].bad
                       /\ p[d].kind # "const"
                       /\ \A n \in DOMAIN p[d].head : p[d].head[n] # Undeclared
                       /\ \A n \in DOMAIN p[d].body : p[d].body[n].ref # Undeclared
                       /\ p[d].kind \in {"struct", "func"} =>
                            \A n \in DOMAIN p[d].head : p[d].head[n] < d
    /\ \E rank \in [Decl -> Decl] :
         \A d \in Decl : \A n \in DOMAIN p[d].head : rank[p[d].head[n]] < rank[d]

\* When every program is well formed, the compiler gets through it, without an
\* error and without tripping an assertion, whatever the order of the
\* declarations and of the hash table.
Completes == <>Success

-----------------------------------------------------------------------------
(* What the repository says and the program does not do.                    *)

\* "a symbol can only cycle on ITSELF [...] we are actually in a dependency
\* cycle on this specific symbol": when someone is told of a cycle through r,
\* every set that holds what r depends on, and what that depends on, holds r.
CycleIsReal ==
    \A c \in cycles : \A S \in SUBSET Ref :
        Depends(c[2]) \subseteq S /\ (\A d \in S \cap Decl : Depends(d) \subseteq S)
            => c[2] \in S

\* check_variable asserts that it finds the symbol of the declaration it checks.
SymbolIsFound == phase # "assert_symbol"

\* get_type_at_locus asserts that the type it is asked for is known.
TypeIsFound == phase # "assert_type"
=============================================================================
