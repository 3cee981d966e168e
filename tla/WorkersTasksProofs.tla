------------------------ MODULE WorkersTasksProofs ------------------------
(***************************************************************************)
(* No suspended check is forgotten, none is parked twice, a success is     *)
(* complete and the scheduler implements Resolution, for every number of   *)
(* declarations and every set of programs.                                 *)
(***************************************************************************)
EXTENDS WorkersProofs

-----------------------------------------------------------------------------
(* What the call stack says of the workers in the lists.                    *)

\* An activation of a declaration's own check.
Checks(n) == Own(n) /\ stack[n].op # "drain"
UnderCheck(d) == \E n \in 1 .. Len(stack) : Checks(n) /\ stack[n].of = d

\* A loop waits for the worker it has resumed; under the running activation
\* there are only loops, each waiting for the activation right above it.
Resuming(n) == Loop(n) /\ (n > 1 \/ ret # Running)
ResumedWorker(n) == pending[stack[n].of][stack[n].at]
Held(id, k) ==
    \E n \in 1 .. Len(stack) : Resuming(n) /\ stack[n].of = id /\ stack[n].at = k

Resumes(n, w) ==
    /\ stack[n].of = w.of
    /\ w.task = "decl" => Checks(n)
    /\ w.task = "body" => stack[n].op = "body" /\ ~stack[n].own

LoopsBelow == \A n \in 2 .. Len(stack) : Loop(n)
ResumedAbove == \A n \in 2 .. Len(stack) : Resumes(n - 1, ResumedWorker(n))

\* The first activation is the check of the last statement met, or a drain.
Bottom ==
    stack # <<>> =>
        /\ phase = "check" => /\ Checks(Len(stack))
                              /\ stack[Len(stack)].of = next - 1
        /\ phase = "drain" => stack[Len(stack)].op = "drain"

Stacked == LoopsBelow /\ ResumedAbove /\ Bottom

\* What a status says of the check that returned it.
CheckReturned(d) ==
    /\ ret.kind = "Done" => state[d] = "Resolved"
    /\ ret.kind = "Failed" => reported
    /\ ret.kind = "Pending" => /\ ~UnderCheck(d)
                               /\ state[d] # "Failed"
                               /\ ret.wait = Undeclared => state[d] = "Resolved"

BodyReturned(d) ==
    /\ ret.kind = "Done" => d \in checked
    /\ ret.kind = "Failed" => reported

WorkerReturned(w) ==
    /\ w.task = "decl" => CheckReturned(w.of)
    /\ w.task = "body" => BodyReturned(w.of)

Returned ==
    ret # Running =>
        /\ stack = <<>> => phase = "check" /\ CheckReturned(next - 1)
        /\ stack # <<>> => Loop(1) /\ WorkerReturned(ResumedWorker(1))

\* A worker has one place.  A declaration's that is not being resumed has no
\* other activation and has not failed; a body's belongs to a resolved function
\* whose own check is over.
OnePlace ==
    \A i, j \in Decl :
        \A k \in 1 .. Len(pending[i]), l \in 1 .. Len(pending[j]) :
            /\ pending[i][k].task = pending[j][l].task
            /\ pending[i][k].of = pending[j][l].of
            => i = j /\ k = l

Rests(id, k) ==
    /\ pending[id][k].task = "decl" =>
         \/ Held(id, k)
         \/ /\ ~UnderCheck(pending[id][k].of)
            /\ state[pending[id][k].of] # "Failed"
    /\ pending[id][k].task = "body" =>
         /\ state[pending[id][k].of] = "Resolved"
         /\ ~UnderCheck(pending[id][k].of)

AllRest == \A id \in Decl : \A k \in 1 .. Len(pending[id]) : Rests(id, k)

\* The declarations the second loop has not met, and the one it is at.
Unmet == IF phase = "check" /\ ~Idle THEN next - 1 ELSE next

Ahead ==
    /\ \A d \in Decl : d >= next => state[d] = "Unresolved"
    /\ \A id \in Decl : \A k \in 1 .. Len(pending[id]) :
           pending[id][k].task = "decl" => pending[id][k].of < Unmet
    /\ phase = "drain" => next = N + 1
    /\ phase = "discover" => next = 1 /\ ~reported

FailuresReported == \A d \in Decl : state[d] = "Failed" => reported

\* The names already met by the running check are settled.
NamesSettled ==
    stack # <<>> /\ stack[1].op = "head" =>
        \A n \in DOMAIN prog[stack[1].of].head : n < stack[1].at =>
            /\ prog[stack[1].of].head[n] \in Decl
            /\ state[prog[stack[1].of].head[n]] \in {"Resolved", "Failed"}

\* NothingForgotten in the terms of this module.
ParkedFor(task, d) ==
    \E id \in Decl : \E k \in 1 .. Len(pending[id]) :
        pending[id][k].task = task /\ pending[id][k].of = d

OnStack(ops, d) ==
    \E n \in 1 .. Len(stack) : stack[n].op \in ops /\ stack[n].of = d

DeclRemembered(d) ==
    \/ state[d] = "Resolved"
    \/ OnStack({"head"}, d)
    \/ InFlight(d)
    \/ ParkedFor("decl", d)

BodyRemembered(d) ==
    state[d] = "Resolved" /\ prog[d].body # <<>> =>
        \/ d \in checked
        \/ OnStack({"wake", "body"}, d)
        \/ ParkedFor("body", d)

Remembered ==
    ~reported => \A d \in Decl : d < next => DeclRemembered(d) /\ BodyRemembered(d)

Tasks ==
    /\ Stacked
    /\ Returned
    /\ OnePlace
    /\ AllRest
    /\ Ahead
    /\ FailuresReported
    /\ NamesSettled
    /\ Remembered

TInv == IInv /\ Tasks

-----------------------------------------------------------------------------
(* Frames, places and activations.                                          *)

LEMMA StackFacts ==
    ASSUME NEW s \in Seq(Frame)
    PROVE  /\ Len(s) \in Nat
           /\ s # <<>> <=> Len(s) >= 1
           /\ \A n \in 1 .. Len(s) : /\ s[n] \in Frame
                                     /\ s[n].of \in Decl
                                     /\ s[n].op \in {"head", "wake", "body", "drain"}
                                     /\ s[n].own \in BOOLEAN
<1>1. Len(s) \in Nat /\ \A n \in 1 .. Len(s) : s[n] \in Frame
  OBVIOUS
<1>2. s # <<>> <=> Len(s) >= 1
  BY <1>1, EmptySeq
<1> QED
  BY <1>1, <1>2 DEF Frame

LEMMA PlaceFacts ==
    ASSUME NEW p \in [Decl -> Seq(Worker)], NEW id \in Decl
    PROVE  /\ p[id] \in Seq(Worker)
           /\ Len(p[id]) \in Nat
           /\ \A k \in 1 .. Len(p[id]) : /\ p[id][k] \in Worker
                                         /\ p[id][k].task \in {"decl", "body"}
                                         /\ p[id][k].of \in Decl
<1>1. p[id] \in Seq(Worker) /\ Len(p[id]) \in Nat
  OBVIOUS
<1>2. \A k \in 1 .. Len(p[id]) : p[id][k] \in Worker
  BY <1>1
<1> QED
  BY <1>1, <1>2 DEF Worker

LEMMA ResumingFacts ==
    ASSUME IInv, NEW n \in 1 .. Len(stack), Resuming(n)
    PROVE  /\ stack[n].of \in Decl
           /\ stack[n].at \in 1 .. Len(pending[stack[n].of])
           /\ ResumedWorker(n).task \in {"decl", "body"}
           /\ ResumedWorker(n).of \in Decl
<1>1. stack \in Seq(Frame) /\ pending \in [Decl -> Seq(Worker)]
  BY DEF IInv, TypeOK
<1>2. stack[n].of \in Decl
  BY <1>1, StackFacts
<1>3. stack[n].at \in 1 .. Len(pending[stack[n].of])
  BY DEF IInv, Control, PlacesValid, Resuming
<1> QED
  BY <1>1, <1>2, <1>3, PlaceFacts DEF ResumedWorker

LEMMA CheckedState ==
    ASSUME IInv, NEW n \in 1 .. Len(stack), Own(n)
    PROVE  state[stack[n].of] \in {"Resolving", "Resolved"}
  BY DEF IInv, Control, ActivationState

LEMMA OneCheck ==
    ASSUME IInv, NEW m \in 1 .. Len(stack), NEW n \in 1 .. Len(stack),
           Own(m), Own(n), stack[m].of = stack[n].of
    PROVE  m = n
  BY DEF IInv, Control, OneActivation

-----------------------------------------------------------------------------
(* An activation starts.                                                    *)

Starts(f) ==
    \/ /\ stack = <<>> /\ phase = "drain" /\ f.op = "drain"
       /\ next' = next /\ state' = state
    \/ /\ stack # <<>> /\ Loop(1)
       /\ stack[1].at \in 1 .. Len(pending[stack[1].of])
       /\ f.of = ResumedWorker(1).of
       /\ next' = next
       /\ \/ /\ ResumedWorker(1).task = "body"
             /\ f.op = "body" /\ ~f.own
             /\ state' = state
          \/ /\ ResumedWorker(1).task = "decl"
             /\ f.op = "head" /\ f.at = 1
             /\ state[f.of] # "Resolved"
             /\ state' = [state EXCEPT ![f.of] = "Resolving"]
    \/ /\ stack = <<>> /\ phase = "check" /\ f.op = "head" /\ f.at = 1
       /\ f.of = next /\ next \in Decl
       /\ next' = next + 1
       /\ state' = [state EXCEPT ![f.of] = "Resolving"]

LEMMA PushShape ==
    ASSUME IInv, NEW f \in Frame, stack' = Cons(f, stack)
    PROVE  /\ Len(stack) \in Nat
           /\ Len(stack') = Len(stack) + 1
           /\ stack' # <<>>
           /\ stack'[1] = f
           /\ \A n \in 1 .. Len(stack) : stack'[n + 1] = stack[n]
           /\ \A n \in 2 .. Len(stack') : n - 1 \in 1 .. Len(stack) /\ stack'[n] = stack[n - 1]
<1>1. stack \in Seq(Frame) /\ TypeOK
  BY DEF IInv, TypeOK
<1>2. Len(stack) \in Nat
  BY <1>1
<1>3. /\ stack' # <<>>
      /\ Len(stack') = Len(stack) + 1
      /\ stack'[1] = f
      /\ \A n \in 2 .. Len(stack) + 1 : stack'[n] = stack[n - 1]
  BY <1>1, PushedStack
<1> QED
  BY <1>2, <1>3

LEMMA PushStacked ==
    ASSUME IInv, Stacked, NEW f \in Frame, stack' = Cons(f, stack), Starts(f),
           ret = Running, phase' = phase, UNCHANGED pending
    PROVE  Stacked'
<1>1. /\ Len(stack) \in Nat
      /\ Len(stack') = Len(stack) + 1
      /\ stack' # <<>>
      /\ stack'[1] = f
      /\ \A n \in 2 .. Len(stack') : n - 1 \in 1 .. Len(stack) /\ stack'[n] = stack[n - 1]
  BY PushShape
<1>2. stack # <<>> <=> Len(stack) >= 1
  BY StackFacts DEF IInv, TypeOK
<1>3. LoopsBelow'
  <2> SUFFICES ASSUME NEW n \in 2 .. Len(stack') PROVE Loop(n)'
    BY DEF LoopsBelow
  <2>1. n - 1 \in 1 .. Len(stack) /\ stack'[n] = stack[n - 1]
    BY <1>1
  <2>2. Loop(n - 1)
    BY <1>1, <1>2, <2>1 DEF Starts, Stacked, LoopsBelow
  <2> QED
    BY <2>1, <2>2 DEF Loop
<1>4. ResumedAbove'
  <2> SUFFICES ASSUME NEW n \in 2 .. Len(stack')
               PROVE  Resumes(n - 1, ResumedWorker(n))'
    BY DEF ResumedAbove
  <2>1. n - 1 \in 1 .. Len(stack) /\ stack'[n] = stack[n - 1]
    BY <1>1
  <2>2. ResumedWorker(n)' = ResumedWorker(n - 1)
    BY <2>1 DEF ResumedWorker
  <2>3. CASE n = 2
    <3>1. stack # <<>>
      BY <1>1, <1>2, <2>1, <2>3
    <3> QED
      BY <1>1, <2>2, <2>3, <3>1 DEF Starts, Resumes, Checks, Own
  <2>4. CASE n # 2
    <3>1. n - 1 \in 2 .. Len(stack) /\ n - 1 \in 2 .. Len(stack')
      BY <1>1, <2>1, <2>4
    <3>2. Resumes(n - 1 - 1, ResumedWorker(n - 1))
      BY <3>1 DEF Stacked, ResumedAbove
    <3>3. stack'[n - 1] = stack[n - 1 - 1]
      BY <1>1, <3>1
    <3> QED
      BY <2>2, <3>2, <3>3 DEF Resumes, Checks, Own
  <2> QED
    BY <2>3, <2>4
<1>5. Bottom'
  <2>1. CASE stack = <<>>
    <3>1. Len(stack') = 1 /\ stack'[Len(stack')] = f
      BY <1>1, <1>2, <2>1
    <3>2. \/ phase = "drain" /\ f.op = "drain"
          \/ phase = "check" /\ f.op = "head" /\ f.of = next' - 1
      BY <2>1 DEF Starts, Decl
    <3> QED
      BY <3>1, <3>2 DEF Bottom, Checks, Own
  <2>2. CASE stack # <<>>
    <3>1. stack'[Len(stack')] = stack[Len(stack)] /\ next' = next
      BY <1>1, <1>2, <2>2 DEF Starts
    <3> QED
      BY <2>2, <3>1 DEF Stacked, Bottom, Checks, Own
  <2> QED
    BY <2>1, <2>2
<1> QED
  BY <1>3, <1>4, <1>5 DEF Stacked

\* The places stay, and so do the resumptions in them.
LEMMA PushHeld ==
    ASSUME IInv, NEW f \in Frame, stack' = Cons(f, stack), ret = Running,
           NEW id, NEW k, Held(id, k)
    PROVE  Held(id, k)'
<1>1. PICK n \in 1 .. Len(stack) : Resuming(n) /\ stack[n].of = id /\ stack[n].at = k
  BY DEF Held
<1>2. /\ Len(stack) \in Nat
      /\ Len(stack') = Len(stack) + 1
      /\ stack'[n + 1] = stack[n]
  BY PushShape
<1>3. n + 1 \in 1 .. Len(stack') /\ n + 1 > 1
  BY <1>2
<1>4. Resuming(n + 1)'
  BY <1>1, <1>2, <1>3 DEF Resuming, Loop
<1> QED
  BY <1>1, <1>2, <1>3, <1>4 DEF Held

LEMMA PushUnderCheck ==
    ASSUME IInv, NEW f \in Frame, stack' = Cons(f, stack), NEW d
    PROVE  UnderCheck(d)' <=>
             UnderCheck(d) \/ ((f.op = "body" => f.own) /\ f.op # "drain" /\ f.of = d)
<1>1. /\ Len(stack) \in Nat
      /\ Len(stack') = Len(stack) + 1
      /\ stack'[1] = f
      /\ \A n \in 1 .. Len(stack) : stack'[n + 1] = stack[n]
      /\ \A n \in 2 .. Len(stack') : n - 1 \in 1 .. Len(stack) /\ stack'[n] = stack[n - 1]
  BY PushShape
<1>2. ASSUME UnderCheck(d)
      PROVE  UnderCheck(d)'
  <2>1. PICK n \in 1 .. Len(stack) : Checks(n) /\ stack[n].of = d
    BY <1>2 DEF UnderCheck
  <2>2. n + 1 \in 1 .. Len(stack') /\ Checks(n + 1)' /\ stack'[n + 1].of = d
    BY <1>1, <2>1 DEF Checks, Own
  <2> QED
    BY <2>2 DEF UnderCheck
<1>3. ASSUME (f.op = "body" => f.own) /\ f.op # "drain" /\ f.of = d
      PROVE  UnderCheck(d)'
  <2>1. 1 \in 1 .. Len(stack') /\ Checks(1)' /\ stack'[1].of = d
    BY <1>1, <1>3 DEF Checks, Own
  <2> QED
    BY <2>1 DEF UnderCheck
<1>4. ASSUME UnderCheck(d)', ~((f.op = "body" => f.own) /\ f.op # "drain" /\ f.of = d)
      PROVE  UnderCheck(d)
  <2>1. PICK n \in 1 .. Len(stack') : Checks(n)' /\ stack'[n].of = d
    BY <1>4 DEF UnderCheck
  <2>2. n # 1
    BY <1>1, <1>4, <2>1 DEF Checks, Own
  <2>3. n - 1 \in 1 .. Len(stack) /\ stack'[n] = stack[n - 1]
    BY <1>1, <2>1, <2>2
  <2>4. Checks(n - 1) /\ stack[n - 1].of = d
    BY <2>1, <2>3 DEF Checks, Own
  <2> QED
    BY <2>3, <2>4 DEF UnderCheck
<1> QED
  BY <1>2, <1>3, <1>4

LEMMA PushRest ==
    ASSUME IInv, Tasks, NEW f \in Frame, stack' = Cons(f, stack), Starts(f),
           ret = Running, phase' = phase, UNCHANGED pending
    PROVE  AllRest'
<1> SUFFICES ASSUME NEW id \in Decl, NEW k \in 1 .. Len(pending[id])
             PROVE  Rests(id, k)'
  BY DEF AllRest
<1> DEFINE w == pending[id][k]
<1>1. w.of \in Decl /\ w.task \in {"decl", "body"}
  BY PlaceFacts DEF IInv, TypeOK
<1>2. Rests(id, k)
  BY DEF Tasks, AllRest
<1>3. UnderCheck(w.of)' <=>
        UnderCheck(w.of) \/ ((f.op = "body" => f.own) /\ f.op # "drain" /\ f.of = w.of)
  BY PushUnderCheck
<1>4. state \in [Decl -> SymbolState]
  BY DEF IInv, TypeOK
<1>5. CASE w.task = "body"
  <2>1. state[w.of] = "Resolved" /\ ~UnderCheck(w.of)
    BY <1>2, <1>5 DEF Rests
  <2>2. f.op = "head" => state[f.of] # "Resolved"
    <3>1. next \in Decl => next >= next
      BY DEF Decl
    <3>2. next \in Decl => state[next] = "Unresolved"
      BY <3>1 DEF Tasks, Ahead
    <3> QED
      BY <3>2 DEF Starts
  <2>3. ~UnderCheck(w.of)'
    BY <1>3, <2>1, <2>2 DEF Starts
  <2>4. state'[w.of] = "Resolved"
    BY <1>1, <1>4, <2>1, <2>2 DEF Starts
  <2> QED
    BY <1>5, <2>3, <2>4 DEF Rests
<1>6. CASE w.task = "decl" /\ Held(id, k)
  BY <1>6, PushHeld DEF Rests
<1>7. CASE w.task = "decl" /\ ~Held(id, k) /\ f.op = "head" /\ f.of = w.of
  <2>1. CASE stack = <<>>
    <3>1. phase = "check" /\ w.of = next /\ ret = Running
      BY <1>7, <2>1 DEF Starts
    <3>2. w.of < Unmet
      BY <1>7 DEF Tasks, Ahead
    <3>3. Unmet = next
      BY <2>1, <3>1 DEF Unmet, Idle
    <3> QED
      BY <1>1, <3>1, <3>2, <3>3 DEF Decl
  <2>2. CASE stack # <<>>
    <3>1. /\ Loop(1) /\ stack[1].at \in 1 .. Len(pending[stack[1].of])
          /\ ResumedWorker(1).task = "decl" /\ ResumedWorker(1).of = w.of
      BY <1>7, <2>2 DEF Starts
    <3>2. 1 \in 1 .. Len(stack) /\ stack[1].of \in Decl /\ Len(stack) \in Nat
      BY <2>2, StackFacts DEF IInv, TypeOK
    <3>3. stack[1].of = id /\ stack[1].at = k
      BY <1>7, <3>1, <3>2 DEF Tasks, OnePlace, ResumedWorker
    <3>4. stack'[2] = stack[1] /\ 2 \in 1 .. Len(stack')
      BY <3>2, PushShape
    <3>5. Resuming(2)'
      BY <3>1, <3>4 DEF Resuming, Loop
    <3>6. Held(id, k)'
      BY <3>3, <3>4, <3>5 DEF Held
    <3> QED
      BY <1>7, <3>6 DEF Rests
  <2> QED
    BY <2>1, <2>2
<1>8. CASE w.task = "decl" /\ ~Held(id, k) /\ ~(f.op = "head" /\ f.of = w.of)
  <2>1. ~UnderCheck(w.of) /\ state[w.of] # "Failed"
    BY <1>2, <1>8 DEF Rests
  <2>2. ~UnderCheck(w.of)'
    BY <1>3, <1>8, <2>1 DEF Starts
  <2>3. state'[w.of] = state[w.of]
    BY <1>1, <1>4, <1>8 DEF Starts
  <2> QED
    BY <1>8, <2>1, <2>2, <2>3 DEF Rests
<1> QED
  BY <1>1, <1>5, <1>6, <1>7, <1>8

LEMMA PushOnStack ==
    ASSUME IInv, NEW f \in Frame, stack' = Cons(f, stack), NEW ops, NEW d,
           OnStack(ops, d)
    PROVE  OnStack(ops, d)'
<1>1. PICK n \in 1 .. Len(stack) : stack[n].op \in ops /\ stack[n].of = d
  BY DEF OnStack
<1>2. /\ Len(stack) \in Nat
      /\ Len(stack') = Len(stack) + 1
      /\ stack'[n + 1] = stack[n]
  BY PushShape
<1>3. n + 1 \in 1 .. Len(stack')
  BY <1>2
<1> QED
  BY <1>1, <1>2, <1>3 DEF OnStack

LEMMA PushTasks ==
    ASSUME IInv, Tasks, NEW f \in Frame, stack' = Cons(f, stack), Starts(f),
           ret = Running, UNCHANGED <<prog, phase, pending, ret, reported, checked>>
    PROVE  Tasks'
<1>1. /\ next \in 1 .. N + 1 /\ N \in Nat
      /\ state \in [Decl -> SymbolState]
      /\ stack \in Seq(Frame)
      /\ pending \in [Decl -> Seq(Worker)]
  BY ConstantsAssumption DEF IInv, TypeOK
<1>2. Stacked'
  BY PushStacked DEF Tasks
<1>3. Returned'
  BY DEF Returned
<1>4. OnePlace'
  BY DEF Tasks, OnePlace
<1>5. AllRest'
  BY PushRest
<1>6. /\ stack' # <<>>
      /\ stack'[1] = f
      /\ 1 \in 1 .. Len(stack')
  <2>1. /\ Len(stack) \in Nat /\ Len(stack') = Len(stack) + 1
        /\ stack' # <<>> /\ stack'[1] = f
    BY PushShape
  <2> QED
    BY <2>1
<1>7. f.op = "head" => f.of \in Decl /\ f.of < next' /\ state[f.of] # "Resolved"
  <2>1. CASE stack = <<>>
    <3>1. f.op = "head" => next \in Decl /\ next' = next + 1 /\ f.of = next
      BY <2>1 DEF Starts
    <3>2. next \in Decl => state[next] = "Unresolved"
      <4>1. next >= next
        BY <1>1
      <4> QED
        BY <4>1 DEF Tasks, Ahead
    <3>3. next < next + 1
      BY <1>1
    <3> QED
      BY <3>1, <3>2, <3>3
  <2>2. CASE stack # <<>> /\ f.op = "head"
    <3>1. /\ Loop(1) /\ stack[1].at \in 1 .. Len(pending[stack[1].of])
          /\ ResumedWorker(1).task = "decl" /\ f.of = ResumedWorker(1).of
          /\ next' = next /\ state[f.of] # "Resolved"
      BY <2>2 DEF Starts
    <3>2. stack[1].of \in Decl
      <4>1. 1 \in 1 .. Len(stack)
        BY <1>1, <2>2, StackFacts
      <4> QED
        BY <1>1, <4>1, StackFacts
    <3>3. f.of < Unmet /\ f.of \in Decl
      BY <1>1, <3>1, <3>2, PlaceFacts DEF Tasks, Ahead, ResumedWorker
    <3>4. Unmet \in {next, next - 1}
      BY DEF Unmet
    <3>5. f.of < next
      BY <1>1, <3>3, <3>4 DEF Decl
    <3> QED
      BY <3>1, <3>3, <3>5
  <2> QED
    BY <2>1, <2>2
<1>8. \A d \in Decl : f.op # "head" \/ f.of # d => state'[d] = state[d]
  BY <1>1 DEF Starts
<1>9. f.op = "head" => state'[f.of] = "Resolving"
  BY <1>1, <1>7 DEF Starts
<1>10. Ahead'
  <2>1. ASSUME NEW d \in Decl, d >= next'
        PROVE  state'[d] = "Unresolved"
    <3>1. next' >= next /\ next' \in Int
      BY <1>1 DEF Starts
    <3>2. d >= next /\ ~(f.op = "head" /\ f.of = d)
      BY <1>1, <1>7, <2>1, <3>1 DEF Decl
    <3> QED
      BY <1>8, <3>2 DEF Tasks, Ahead
  <2>2. Unmet' = Unmet
    <3>1. CASE stack # <<>>
      BY <1>6, <3>1 DEF Unmet, Idle, Starts
    <3>2. CASE stack = <<>>
      BY <1>1, <1>6, <3>2 DEF Unmet, Idle, Starts
    <3> QED
      BY <3>1, <3>2
  <2>3. \A id \in Decl : \A k \in 1 .. Len(pending'[id]) :
           pending'[id][k].task = "decl" => pending'[id][k].of < Unmet'
    BY <2>2 DEF Tasks, Ahead
  <2>4. phase' = "drain" => next' = N + 1
    BY DEF Starts, Tasks, Ahead
  <2>5. phase' # "discover"
    BY DEF IInv, Started, Idle, Starts
  <2> QED
    BY <2>1, <2>3, <2>4, <2>5 DEF Ahead
<1>11. FailuresReported'
  BY <1>8, <1>9 DEF Tasks, FailuresReported
<1>12. NamesSettled'
  <2> SUFFICES ASSUME f.op = "head", NEW n \in DOMAIN prog[f.of].head, n < f.at
               PROVE  FALSE
    BY <1>6 DEF NamesSettled
  <2>1. prog[f.of].head \in Seq(Ref) /\ f.at = 1
    BY <1>7 DEF IInv, TypeOK, Program, Declaration, Starts
  <2>2. n \in 1 .. Len(prog[f.of].head)
    BY <2>1
  <2> QED
    BY <2>1, <2>2
<1>13. Remembered'
  <2> SUFFICES ASSUME ~reported, NEW d \in Decl, d < next'
               PROVE  DeclRemembered(d)' /\ BodyRemembered(d)'
    BY DEF Remembered
  <2>1. CASE f.op = "head" /\ f.of = d
    BY <1>6, <1>9, <2>1 DEF DeclRemembered, BodyRemembered, OnStack
  <2>2. CASE ~(f.op = "head" /\ f.of = d)
    <3>1. d < next
      <4>1. next' = next \/ (next' = next + 1 /\ d # next)
        BY <2>2 DEF Starts
      <4> QED
        BY <1>1, <4>1 DEF Decl
    <3>2. DeclRemembered(d) /\ BodyRemembered(d)
      BY <3>1 DEF Tasks, Remembered
    <3>3. state'[d] = state[d]
      BY <1>8, <2>2
    <3>4. ~InFlight(d)
      BY DEF InFlight
    <3>5. \A task : ParkedFor(task, d) => ParkedFor(task, d)'
      BY DEF ParkedFor
    <3>6. DeclRemembered(d)'
      BY <3>2, <3>3, <3>4, <3>5, PushOnStack DEF DeclRemembered
    <3>7. BodyRemembered(d)'
      BY <3>2, <3>3, <3>5, PushOnStack DEF BodyRemembered
    <3> QED
      BY <3>6, <3>7
  <2> QED
    BY <2>1, <2>2
<1> QED
  BY <1>2, <1>3, <1>4, <1>5, <1>10, <1>11, <1>12, <1>13 DEF Tasks

-----------------------------------------------------------------------------
(* The running activation moves on, or turns into the next one of its check. *)

\* The activation stays one of the same check.
Same(f) ==
    /\ f.of = Top.of
    /\ (f.op = "body" => f.own) <=> (Top.op = "body" => Top.own)
    /\ f.op = "drain" <=> Top.op = "drain"

LEMMA ReplaceShape ==
    ASSUME IInv, stack # <<>>, NEW f \in Frame, stack' = Cons(f, Tail(stack))
    PROVE  /\ Len(stack) \in Nat \ {0}
           /\ Len(stack') = Len(stack)
           /\ stack' # <<>>
           /\ stack[1] = Top /\ Top.of \in Decl
           /\ stack'[1] = f
           /\ \A n \in 2 .. Len(stack) : stack'[n] = stack[n]
<1>1. TypeOK /\ stack \in Seq(Frame)
  BY DEF IInv, TypeOK
<1>2. stack[1] = Top /\ Top.of \in Decl /\ Len(stack) \in Nat \ {0}
  BY <1>1, TopType
<1> QED
  BY <1>1, <1>2, ReplaceProperties

LEMMA ReplaceChecks ==
    ASSUME IInv, stack # <<>>, NEW f \in Frame, stack' = Cons(f, Tail(stack)), Same(f),
           NEW n \in 1 .. Len(stack)
    PROVE  /\ stack'[n].of = stack[n].of
           /\ Checks(n)' <=> Checks(n)
           /\ stack'[n].op = "drain" <=> stack[n].op = "drain"
<1>1. /\ stack[1] = Top
      /\ stack'[1] = f
      /\ \A m \in 2 .. Len(stack) : stack'[m] = stack[m]
  BY ReplaceShape
<1>2. n = 1 \/ n \in 2 .. Len(stack)
  OBVIOUS
<1> QED
  BY <1>1, <1>2 DEF Same, Checks, Own

LEMMA ReplaceUnderCheck ==
    ASSUME IInv, stack # <<>>, NEW f \in Frame, stack' = Cons(f, Tail(stack)), Same(f),
           NEW d
    PROVE  UnderCheck(d)' <=> UnderCheck(d)
<1>1. Len(stack') = Len(stack)
  BY ReplaceShape
<1> QED
  BY <1>1, ReplaceChecks DEF UnderCheck

LEMMA ReplaceStacked ==
    ASSUME IInv, Stacked, stack # <<>>, NEW f \in Frame, stack' = Cons(f, Tail(stack)),
           Same(f), UNCHANGED <<phase, next>>,
           \A n \in 2 .. Len(stack) : ResumedWorker(n)' = ResumedWorker(n)
    PROVE  Stacked'
<1>1. /\ Len(stack) \in Nat \ {0}
      /\ Len(stack') = Len(stack)
      /\ stack' # <<>>
      /\ stack[1] = Top
      /\ stack'[1] = f
      /\ \A n \in 2 .. Len(stack) : stack'[n] = stack[n]
  BY ReplaceShape
<1>2. LoopsBelow'
  BY <1>1 DEF Stacked, LoopsBelow, Loop
<1>3. ResumedAbove'
  <2> SUFFICES ASSUME NEW n \in 2 .. Len(stack)
               PROVE  Resumes(n - 1, ResumedWorker(n))'
    BY <1>1 DEF ResumedAbove
  <2>1. Resumes(n - 1, ResumedWorker(n)) /\ ResumedWorker(n)' = ResumedWorker(n)
    BY DEF Stacked, ResumedAbove
  <2>2. n - 1 \in 1 .. Len(stack)
    BY <1>1
  <2>3. /\ stack'[n - 1].of = stack[n - 1].of
        /\ Checks(n - 1)' <=> Checks(n - 1)
    BY <2>2, ReplaceChecks
  <2>4. stack[n - 1].op = "body" /\ ~stack[n - 1].own =>
          stack'[n - 1].op = "body" /\ ~stack'[n - 1].own
    <3>1. n - 1 = 1 \/ n - 1 \in 2 .. Len(stack)
      BY <2>2
    <3> QED
      BY <1>1, <3>1 DEF Same
  <2> QED
    BY <2>1, <2>3, <2>4 DEF Resumes
<1>4. Bottom'
  <2>1. Len(stack) \in 1 .. Len(stack)
    BY <1>1
  <2> QED
    BY <1>1, <2>1, ReplaceChecks DEF Stacked, Bottom
<1> QED
  BY <1>2, <1>3, <1>4 DEF Stacked

LEMMA ReplaceTasks ==
    ASSUME IInv, Tasks, stack # <<>>, NEW f \in Frame, stack' = Cons(f, Tail(stack)),
           Same(f), f.op # "drain", ret = Running, ret' = Running,
           UNCHANGED <<prog, phase, next, pending, reported, checked>>,
           phase # "discover",
           \/ state' = state /\ (f.op = "head" <=> Top.op = "head")
           \/ /\ f.op = "wake" /\ Top.op = "head"
              /\ state' = [state EXCEPT ![Top.of] = "Resolved"],
           f.op = "head" => \A n \in DOMAIN prog[f.of].head : n < f.at =>
              /\ prog[f.of].head[n] \in Decl
              /\ state[prog[f.of].head[n]] \in {"Resolved", "Failed"}
    PROVE  Tasks'
<1>1. /\ next \in 1 .. N + 1 /\ N \in Nat
      /\ state \in [Decl -> SymbolState]
      /\ stack \in Seq(Frame)
      /\ pending \in [Decl -> Seq(Worker)]
  BY ConstantsAssumption DEF IInv, TypeOK
<1>2. /\ Len(stack) \in Nat \ {0}
      /\ Len(stack') = Len(stack)
      /\ stack' # <<>>
      /\ stack[1] = Top /\ Top.of \in Decl
      /\ stack'[1] = f
      /\ \A n \in 2 .. Len(stack) : stack'[n] = stack[n]
      /\ 1 \in 1 .. Len(stack)
  <2>1. /\ Len(stack) \in Nat \ {0}
        /\ Len(stack') = Len(stack)
        /\ stack' # <<>>
        /\ stack[1] = Top /\ Top.of \in Decl
        /\ stack'[1] = f
        /\ \A n \in 2 .. Len(stack) : stack'[n] = stack[n]
    BY ReplaceShape
  <2> QED
    BY <2>1
<1>3. Top.op = "head" => state[Top.of] = "Resolving"
  BY <1>2 DEF IInv, Control, ActivationState, Own
<1>4. \A d \in Decl : \/ state'[d] = state[d]
                      \/ d = Top.of /\ state[d] = "Resolving" /\ state'[d] = "Resolved"
  BY <1>1, <1>2, <1>3
<1>5. Stacked'
  <2>1. \A n \in 2 .. Len(stack) : ResumedWorker(n)' = ResumedWorker(n)
    BY <1>2 DEF ResumedWorker
  <2> QED
    BY <2>1, ReplaceStacked DEF Tasks, Same
<1>6. Returned' /\ OnePlace'
  BY DEF Returned, Tasks, OnePlace
<1>7. AllRest'
  <2> SUFFICES ASSUME NEW id \in Decl, NEW k \in 1 .. Len(pending[id])
               PROVE  Rests(id, k)'
    BY DEF AllRest
  <2>1. pending[id][k].of \in Decl
    BY <1>1, PlaceFacts
  <2>2. Rests(id, k)
    BY DEF Tasks, AllRest
  <2>3. Held(id, k) => Held(id, k)'
    <3> SUFFICES ASSUME NEW n \in 1 .. Len(stack), Resuming(n), stack[n].of = id,
                        stack[n].at = k
                 PROVE  Held(id, k)'
      BY DEF Held
    <3>1. n \in 2 .. Len(stack)
      BY DEF Resuming
    <3>2. Resuming(n)' /\ stack'[n].of = id /\ stack'[n].at = k
      BY <1>2, <3>1 DEF Resuming, Loop
    <3> QED
      BY <1>2, <3>2 DEF Held
  <2>4. UnderCheck(pending[id][k].of)' <=> UnderCheck(pending[id][k].of)
    BY ReplaceUnderCheck
  <2> QED
    BY <1>4, <2>1, <2>2, <2>3, <2>4 DEF Rests
<1>8. Ahead'
  <2>1. Unmet' = Unmet
    BY <1>2 DEF Unmet, Idle
  <2> QED
    BY <1>4, <2>1 DEF Tasks, Ahead
<1>9. FailuresReported'
  BY <1>4 DEF Tasks, FailuresReported
<1>10. NamesSettled'
  BY <1>2 DEF NamesSettled
<1>11. Remembered'
  <2> SUFFICES ASSUME ~reported, NEW d \in Decl, d < next
               PROVE  DeclRemembered(d)' /\ BodyRemembered(d)'
    BY DEF Remembered
  <2>1. DeclRemembered(d) /\ BodyRemembered(d)
    BY DEF Tasks, Remembered
  <2>2. \A task : ParkedFor(task, d)' <=> ParkedFor(task, d)
    BY DEF ParkedFor
  <2>3. ~InFlight(d)
    BY DEF InFlight
  <2>4. OnStack({"head"}, d) => OnStack({"head"}, d)' \/ state'[d] = "Resolved"
    <3> SUFFICES ASSUME NEW n \in 1 .. Len(stack), stack[n].op = "head", stack[n].of = d
                 PROVE  OnStack({"head"}, d)' \/ state'[d] = "Resolved"
      BY DEF OnStack
    <3>1. n = 1
      BY DEF IInv, Control, HeadOnTop
    <3> QED
      BY <1>1, <1>2, <3>1 DEF OnStack, Same
  <2>5. OnStack({"wake", "body"}, d) => OnStack({"wake", "body"}, d)'
    <3> SUFFICES ASSUME NEW n \in 1 .. Len(stack), stack[n].op \in {"wake", "body"},
                        stack[n].of = d
                 PROVE  OnStack({"wake", "body"}, d)'
      BY DEF OnStack
    <3>1. f.op \in {"wake", "body", "head"}
      BY DEF Frame
    <3>2. stack'[n].op \in {"wake", "body"} /\ stack'[n].of = d
      BY <1>2, <3>1 DEF Same
    <3> QED
      BY <1>2, <3>2 DEF OnStack
  <2>6. CASE state'[d] = state[d]
    BY <2>1, <2>2, <2>3, <2>4, <2>5, <2>6 DEF DeclRemembered, BodyRemembered
  <2>7. CASE d = Top.of /\ state'[d] # state[d]
    <3>1. f.op = "wake" /\ f.of = d /\ state'[d] = "Resolved"
      BY <1>4, <2>7 DEF Same
    <3>2. OnStack({"wake", "body"}, d)'
      BY <1>2, <3>1 DEF OnStack
    <3> QED
      BY <3>1, <3>2 DEF DeclRemembered, BodyRemembered
  <2> QED
    BY <1>4, <2>6, <2>7
<1> QED
  BY <1>5, <1>6, <1>7, <1>8, <1>9, <1>10, <1>11 DEF Tasks

-----------------------------------------------------------------------------
(* The running activation returns.                                          *)

\* The lists keep their workers; a body's own check may have parked it.
Kept ==
    /\ pending' \in [Decl -> Seq(Worker)]
    /\ \A id \in Decl : \A k \in 1 .. Len(pending[id]) :
          k \in 1 .. Len(pending'[id]) /\ pending'[id][k] = pending[id][k]

NewBodies ==
    \A id \in Decl : \A k \in 1 .. Len(pending'[id]) : k > Len(pending[id]) =>
        /\ pending'[id][k].task = "body"
        /\ pending'[id][k].of = Top.of
        /\ Top.op = "body" /\ Top.own
        /\ state' = state

LEMMA PopShape ==
    ASSUME IInv, stack # <<>>, stack' = Tail(stack)
    PROVE  /\ Len(stack) \in Nat \ {0}
           /\ Len(stack') = Len(stack) - 1
           /\ stack' = <<>> <=> Len(stack) = 1
           /\ stack[1] = Top /\ Top.of \in Decl
           /\ 1 \in 1 .. Len(stack)
           /\ \A n \in 1 .. Len(stack') : n + 1 \in 2 .. Len(stack)
                                          /\ stack'[n] = stack[n + 1]
           /\ \A n \in 2 .. Len(stack) : n - 1 \in 1 .. Len(stack')
                                         /\ stack'[n - 1] = stack[n]
<1>1. stack \in Seq(Frame) /\ TypeOK
  BY DEF IInv, TypeOK
<1>2. /\ Len(stack) \in Nat \ {0}
      /\ stack' \in Seq(Frame)
      /\ Len(stack') = Len(stack) - 1
      /\ \A n \in 1 .. Len(stack) - 1 : stack'[n] = stack[n + 1]
  BY <1>1, PopProperties
<1>3. stack' = <<>> <=> Len(stack) = 1
  <2>1. stack' = <<>> <=> Len(stack') = 0
    BY <1>2, EmptySeq
  <2> QED
    BY <1>2, <2>1
<1>4. stack[1] = Top /\ Top.of \in Decl
  BY <1>1, TopType
<1>5. \A n \in 2 .. Len(stack) : n - 1 \in 1 .. Len(stack') /\ stack'[n - 1] = stack[n]
  <2> SUFFICES ASSUME NEW n \in 2 .. Len(stack)
               PROVE  n - 1 \in 1 .. Len(stack') /\ stack'[n - 1] = stack[n]
    OBVIOUS
  <2>1. n - 1 \in 1 .. Len(stack) - 1 /\ (n - 1) + 1 = n
    BY <1>2
  <2> QED
    BY <1>2, <2>1
<1>6. 1 \in 1 .. Len(stack) /\ \A n \in 1 .. Len(stack') : n + 1 \in 2 .. Len(stack)
  BY <1>2
<1> QED
  BY <1>2, <1>3, <1>4, <1>5, <1>6

LEMMA PopUnderCheck ==
    ASSUME IInv, stack # <<>>, stack' = Tail(stack), NEW d
    PROVE  /\ UnderCheck(d)' => UnderCheck(d)
           /\ Checks(1) /\ d = Top.of => ~UnderCheck(d)'
<1>1. /\ stack[1] = Top
      /\ 1 \in 1 .. Len(stack)
      /\ \A n \in 1 .. Len(stack') : n + 1 \in 2 .. Len(stack)
                                     /\ stack'[n] = stack[n + 1]
  BY PopShape
<1>2. \A n \in 1 .. Len(stack') : Checks(n)' => Checks(n + 1)
  BY <1>1 DEF Checks, Own
<1>3. UnderCheck(d)' => UnderCheck(d)
  <2> SUFFICES ASSUME NEW n \in 1 .. Len(stack'), Checks(n)', stack'[n].of = d
               PROVE  UnderCheck(d)
    BY DEF UnderCheck
  <2>1. n + 1 \in 1 .. Len(stack) /\ Checks(n + 1) /\ stack[n + 1].of = d
    BY <1>1, <1>2
  <2> QED
    BY <2>1 DEF UnderCheck
<1>4. Checks(1) /\ d = Top.of => ~UnderCheck(d)'
  <2> SUFFICES ASSUME Checks(1), NEW n \in 1 .. Len(stack'), Checks(n)', stack'[n].of = Top.of
               PROVE  FALSE
    BY DEF UnderCheck
  <2>1. /\ n + 1 \in 1 .. Len(stack) /\ n + 1 # 1
        /\ Own(n + 1) /\ Own(1) /\ stack[n + 1].of = stack[1].of
    BY <1>1, <1>2 DEF Checks
  <2> QED
    BY <1>1, <2>1, OneCheck
<1> QED
  BY <1>3, <1>4

\* Below, a loop holds the worker that the running activation was resumed for.
LEMMA BelowTop ==
    ASSUME IInv, Tasks, stack # <<>>, Len(stack) >= 2
    PROVE  /\ 2 \in 1 .. Len(stack)
           /\ Loop(2) /\ Resuming(2)
           /\ Resumes(1, ResumedWorker(2))
           /\ stack[2].of \in Decl
           /\ stack[2].at \in 1 .. Len(pending[stack[2].of])
           /\ ResumedWorker(2).task \in {"decl", "body"}
           /\ ResumedWorker(2).task = "decl" <=> Checks(1)
<1>1. Len(stack) \in Nat
  BY StackFacts DEF IInv, TypeOK
<1>2. 2 \in 2 .. Len(stack) /\ 2 \in 1 .. Len(stack) /\ 2 - 1 = 1
  BY <1>1
<1>3. Loop(2) /\ Resumes(1, ResumedWorker(2))
  BY <1>2 DEF Tasks, Stacked, LoopsBelow, ResumedAbove
<1>4. Resuming(2)
  BY <1>3 DEF Resuming
<1>5. /\ stack[2].of \in Decl
      /\ stack[2].at \in 1 .. Len(pending[stack[2].of])
      /\ ResumedWorker(2).task \in {"decl", "body"}
  BY <1>2, <1>4, ResumingFacts
<1> QED
  BY <1>2, <1>3, <1>4, <1>5 DEF Resumes, Checks, Own

\* The activation at the bottom is a check or a drain.
LEMMA BottomTop ==
    ASSUME IInv, Tasks, stack # <<>>, phase \in {"check", "drain"}, Top.op # "drain",
           Len(stack) < 2
    PROVE  phase = "check" /\ Checks(1) /\ Top.of = next - 1
<1>1. Len(stack) = 1 /\ stack[1] = Top
  <2>1. Len(stack) \in Nat \ {0} /\ stack[1] = Top
    BY TopType DEF IInv
  <2>2. \A n \in Nat \ {0} : n < 2 => n = 1
    OBVIOUS
  <2>3. Len(stack) = 1
    BY <2>1, <2>2
  <2> QED
    BY <2>1, <2>3
<1> QED
  BY <1>1 DEF Tasks, Stacked, Bottom

\* What the return of the running activation says.
Answers ==
    /\ Checks(1) => \A d \in Decl : d = Top.of => CheckReturned(d)'
    /\ ~Checks(1) => \A d \in Decl : d = Top.of => BodyReturned(d)'

PopHypothesis ==
    /\ IInv /\ Tasks
    /\ stack # <<>> /\ stack' = Tail(stack)
    /\ Top.op # "drain" /\ phase \in {"check", "drain"}
    /\ ret = Running /\ ret' # Running
    /\ UNCHANGED <<prog, phase, next>>
    /\ Kept
    /\ \/ state' = state
       \/ /\ Checks(1)
          /\ \E v \in SymbolState \ {"Resolved"} : state' = [state EXCEPT ![Top.of] = v]

LEMMA PopStacked ==
    ASSUME PopHypothesis
    PROVE  Stacked'
<1>1. /\ Len(stack) \in Nat \ {0}
      /\ Len(stack') = Len(stack) - 1
      /\ stack' = <<>> <=> Len(stack) = 1
      /\ \A n \in 1 .. Len(stack') : n + 1 \in 2 .. Len(stack)
                                     /\ stack'[n] = stack[n + 1]
  BY PopShape DEF PopHypothesis
<1>2. IInv /\ Stacked
  BY DEF PopHypothesis, Tasks
<1>3. LoopsBelow'
  <2> SUFFICES ASSUME NEW n \in 2 .. Len(stack') PROVE Loop(n)'
    BY DEF LoopsBelow
  <2>1. n \in 1 .. Len(stack')
    BY <1>1
  <2> QED
    BY <1>1, <1>2, <2>1 DEF Stacked, LoopsBelow, Loop
<1>4. ResumedAbove'
  <2> SUFFICES ASSUME NEW n \in 2 .. Len(stack')
               PROVE  Resumes(n - 1, ResumedWorker(n))'
    BY DEF ResumedAbove
  <2>1. /\ n \in 1 .. Len(stack') /\ n - 1 \in 1 .. Len(stack')
        /\ n + 1 \in 2 .. Len(stack) /\ (n + 1) - 1 = n /\ (n - 1) + 1 = n
        /\ n + 1 \in 1 .. Len(stack) /\ n + 1 > 1
    BY <1>1
  <2>2. Resumes(n, ResumedWorker(n + 1)) /\ Loop(n + 1)
    BY <1>2, <2>1 DEF Stacked, LoopsBelow, ResumedAbove
  <2>3. /\ stack[n + 1].of \in Decl
        /\ stack[n + 1].at \in 1 .. Len(pending[stack[n + 1].of])
    BY <1>2, <2>1, <2>2, ResumingFacts DEF Resuming
  <2>4. ResumedWorker(n)' = ResumedWorker(n + 1)
    BY <1>1, <2>1, <2>3 DEF ResumedWorker, PopHypothesis, Kept
  <2>5. stack'[n - 1] = stack[n]
    BY <1>1, <2>1
  <2> QED
    BY <2>2, <2>4, <2>5 DEF Resumes, Checks, Own
<1>5. Bottom'
  <2> SUFFICES ASSUME stack' # <<>>
               PROVE  stack'[Len(stack')] = stack[Len(stack)] /\ stack # <<>>
    BY <1>2 DEF Stacked, Bottom, Checks, Own, PopHypothesis
  <2>1. Len(stack') \in 1 .. Len(stack') /\ Len(stack') + 1 = Len(stack)
    BY <1>1
  <2> QED
    BY <1>1, <2>1 DEF PopHypothesis
<1> QED
  BY <1>3, <1>4, <1>5 DEF Stacked

LEMMA PopReturned ==
    ASSUME PopHypothesis, Answers
    PROVE  Returned'
<1>1. /\ Len(stack) \in Nat \ {0}
      /\ Len(stack') = Len(stack) - 1
      /\ stack' = <<>> <=> Len(stack) = 1
      /\ stack[1] = Top /\ Top.of \in Decl
      /\ \A n \in 1 .. Len(stack') : stack'[n] = stack[n + 1]
  BY PopShape DEF PopHypothesis
<1>2. CASE stack' = <<>>
  <2>1. phase = "check" /\ Checks(1) /\ Top.of = next - 1
    BY <1>1, <1>2, BottomTop DEF PopHypothesis
  <2>2. CheckReturned(next - 1)'
    BY <1>1, <2>1 DEF Answers, PopHypothesis, CheckReturned, UnderCheck, Checks, Own
  <2> QED
    BY <1>2, <2>1, <2>2 DEF Returned, PopHypothesis
<1>3. CASE stack' # <<>>
  <2>1. Len(stack) >= 2
    BY <1>1, <1>3
  <2>2. /\ Loop(2)
        /\ Resumes(1, ResumedWorker(2))
        /\ stack[2].of \in Decl
        /\ stack[2].at \in 1 .. Len(pending[stack[2].of])
        /\ ResumedWorker(2).task \in {"decl", "body"}
        /\ ResumedWorker(2).task = "decl" <=> Checks(1)
    BY <2>1, BelowTop DEF PopHypothesis
  <2>3. 1 \in 1 .. Len(stack') /\ 1 + 1 = 2
    BY <1>1, <2>1
  <2>4. stack'[1] = stack[2]
    BY <1>1, <2>3
  <2>5. Loop(1)' /\ ResumedWorker(1)' = ResumedWorker(2)
    BY <2>2, <2>4 DEF Loop, ResumedWorker, PopHypothesis, Kept
  <2>6. ResumedWorker(2).of = Top.of
    BY <1>1, <2>2 DEF Resumes
  <2> DEFINE w == ResumedWorker(2)
  <2> HIDE DEF w
  <2>7. w.of = Top.of /\ (w.task = "decl" <=> Checks(1)) /\ w.task \in {"decl", "body"}
        /\ ResumedWorker(1)' = w
    BY <2>2, <2>5, <2>6 DEF w
  <2>8. w.task = "decl" => \A d \in Decl : d = w.of => CheckReturned(d)'
    BY <2>7 DEF Answers
  <2>9. w.task = "body" => \A d \in Decl : d = w.of => BodyReturned(d)'
    BY <2>7 DEF Answers
  <2>10. w.of \in Decl
    BY <1>1, <2>7
  <2>11. WorkerReturned(ResumedWorker(1))'
    BY <2>7, <2>8, <2>9, <2>10
       DEF WorkerReturned, CheckReturned, BodyReturned, UnderCheck, Checks, Own
  <2> QED
    BY <1>3, <2>5, <2>11 DEF Returned
<1> QED
  BY <1>2, <1>3

LEMMA PopStates ==
    ASSUME PopHypothesis
    PROVE  /\ state \in [Decl -> SymbolState]
           /\ Checks(1) => state[Top.of] \in {"Resolving", "Resolved"}
           /\ \A d \in Decl :
                \/ state'[d] = state[d]
                \/ Checks(1) /\ d = Top.of /\ state'[d] \in SymbolState \ {"Resolved"}
<1>1. state \in [Decl -> SymbolState]
  BY DEF PopHypothesis, IInv, TypeOK
<1>2. stack[1] = Top /\ Top.of \in Decl /\ 1 \in 1 .. Len(stack)
  BY PopShape DEF PopHypothesis
<1>3. Checks(1) => state[Top.of] \in {"Resolving", "Resolved"}
  BY <1>2, CheckedState DEF PopHypothesis, Checks
<1> QED
  BY <1>1, <1>2, <1>3 DEF PopHypothesis

LEMMA PopRest ==
    ASSUME PopHypothesis, NewBodies
    PROVE  AllRest'
<1> SUFFICES ASSUME NEW id \in Decl, NEW k \in 1 .. Len(pending'[id])
             PROVE  Rests(id, k)'
  BY DEF AllRest
<1>1. /\ IInv /\ stack # <<>> /\ stack' = Tail(stack)
      /\ pending \in [Decl -> Seq(Worker)]
      /\ pending' \in [Decl -> Seq(Worker)]
  BY DEF PopHypothesis, IInv, TypeOK, Kept
<1>2. PICK d \in Decl, task \in {"decl", "body"} :
        d = pending'[id][k].of /\ task = pending'[id][k].task
  BY <1>1, PlaceFacts
<1>r. /\ ~UnderCheck(d)' /\ state'[d] = "Resolved" => Rests(id, k)'
      /\ task = "decl" /\ ~UnderCheck(d)' /\ state'[d] # "Failed" => Rests(id, k)'
      /\ task = "decl" /\ Held(id, k)' => Rests(id, k)'
  <2>1. ~UnderCheck(d)' => ~UnderCheck(pending[id][k].of)'
    BY <1>2 DEF UnderCheck, Checks, Own
  <2> QED
    BY <1>2, <2>1 DEF Rests
<1>3. /\ Len(stack) \in Nat \ {0}
      /\ stack[1] = Top /\ Top.of \in Decl /\ 1 \in 1 .. Len(stack)
      /\ \A n \in 2 .. Len(stack) : n - 1 \in 1 .. Len(stack')
                                    /\ stack'[n - 1] = stack[n]
  BY <1>1, PopShape
<1>4. /\ UnderCheck(d)' => UnderCheck(d)
      /\ Checks(1) /\ d = Top.of => ~UnderCheck(d)'
  BY <1>1, PopUnderCheck
<1>5. CASE k \in 1 .. Len(pending[id])
  <2>1. pending[id][k].of = d /\ pending[id][k].task = task
    BY <1>2, <1>5 DEF PopHypothesis, Kept
  <2>2. /\ task = "decl" => Held(id, k) \/ (~UnderCheck(d) /\ state[d] # "Failed")
        /\ task = "body" => ~UnderCheck(d) /\ state[d] = "Resolved"
    BY <1>5, <2>1 DEF PopHypothesis, Tasks, AllRest, Rests
  <2>3. Checks(1) /\ d = Top.of => UnderCheck(d)
    BY <1>3 DEF UnderCheck
  <2>4. ~UnderCheck(d) => state'[d] = state[d]
    BY <2>3, PopStates
  <2>5. CASE task = "body"
    BY <1>r, <1>4, <2>2, <2>4, <2>5
  <2>6. CASE task = "decl" /\ Held(id, k)
    <3>1. PICK n \in 1 .. Len(stack) : Resuming(n) /\ stack[n].of = id /\ stack[n].at = k
      BY <2>6 DEF Held
    <3>2. n \in 2 .. Len(stack)
      BY <3>1 DEF Resuming, PopHypothesis
    <3>3. n - 1 \in 1 .. Len(stack') /\ stack'[n - 1] = stack[n]
      BY <1>3, <3>2
    <3>4. Resuming(n - 1)'
      BY <3>1, <3>3 DEF Resuming, Loop, PopHypothesis
    <3> QED
      BY <1>r, <2>6, <3>1, <3>3, <3>4 DEF Held
  <2>7. CASE task = "decl" /\ ~Held(id, k)
    BY <1>r, <1>4, <2>2, <2>4, <2>7
  <2> QED
    BY <1>2, <2>5, <2>6, <2>7
<1>6. CASE k \notin 1 .. Len(pending[id])
  <2>1. Len(pending[id]) \in Nat /\ k \in Nat /\ k > Len(pending[id])
    BY <1>1, <1>6, PlaceFacts
  <2>2. d = Top.of /\ Top.op = "body" /\ Top.own /\ state' = state
    BY <1>2, <2>1 DEF NewBodies
  <2>3. Checks(1)
    BY <1>3, <2>2 DEF Checks, Own
  <2>4. state[Top.of] = "Resolved"
    BY <1>1, <1>3, <2>2, <2>3 DEF IInv, Control, ActivationState, Checks
  <2> QED
    BY <1>r, <1>4, <2>2, <2>3, <2>4
<1> QED
  BY <1>5, <1>6

LEMMA PopRemembered ==
    ASSUME PopHypothesis, Answers, reported => reported', checked \subseteq checked',
           \A d \in Decl : state'[d] = "Failed" => reported',
           Checks(1) /\ Top.op # "head" =>
               \A d \in Decl : d = Top.of =>
                   \/ d \in checked' \/ reported' \/ prog[d].body = <<>>
                   \/ ParkedFor("body", d)'
    PROVE  Remembered'
<1> SUFFICES ASSUME ~reported', NEW d \in Decl, d < next
             PROVE  DeclRemembered(d)' /\ BodyRemembered(d)'
  BY DEF Remembered, PopHypothesis
<1>1. IInv /\ stack # <<>> /\ stack' = Tail(stack)
  BY DEF PopHypothesis
<1>2. /\ Len(stack) \in Nat \ {0}
      /\ Len(stack') = Len(stack) - 1
      /\ stack' = <<>> <=> Len(stack) = 1
      /\ stack[1] = Top
      /\ \A n \in 2 .. Len(stack) : n - 1 \in 1 .. Len(stack')
                                    /\ stack'[n - 1] = stack[n]
  BY <1>1, PopShape
<1>3. DeclRemembered(d) /\ BodyRemembered(d)
  BY DEF PopHypothesis, Tasks, Remembered
<1>4. ~InFlight(d)
  BY <1>1 DEF InFlight
<1>5. \A task : ParkedFor(task, d) => ParkedFor(task, d)'
  <2> SUFFICES ASSUME NEW task, NEW id \in Decl, NEW k \in 1 .. Len(pending[id]),
                      pending[id][k].task = task, pending[id][k].of = d
               PROVE  ParkedFor(task, d)'
    BY DEF ParkedFor
  <2>1. k \in 1 .. Len(pending'[id]) /\ pending'[id][k] = pending[id][k]
    BY DEF PopHypothesis, Kept
  <2> QED
    BY <2>1 DEF ParkedFor
<1>6. ASSUME Len(stack) >= 2, Top.of = d
      PROVE  /\ Checks(1) => ParkedFor("decl", d)
             /\ ~Checks(1) => ParkedFor("body", d)
  <2>1. /\ Resumes(1, ResumedWorker(2))
        /\ stack[2].of \in Decl
        /\ stack[2].at \in 1 .. Len(pending[stack[2].of])
        /\ ResumedWorker(2).task \in {"decl", "body"}
        /\ ResumedWorker(2).task = "decl" <=> Checks(1)
    BY <1>1, <1>6, BelowTop DEF PopHypothesis
  <2>2. ResumedWorker(2).of = d
    BY <1>2, <1>6, <2>1 DEF Resumes
  <2> QED
    BY <2>1, <2>2 DEF ParkedFor, ResumedWorker
<1>7. DeclRemembered(d)'
  <2>1. CASE Checks(1) /\ Top.of = d
    <3>1. CASE Len(stack) >= 2
      BY <1>5, <1>6, <2>1, <3>1 DEF DeclRemembered
    <3>2. CASE ~(Len(stack) >= 2)
      <4>1. Len(stack) < 2 /\ Len(stack) = 1
        BY <1>2, <3>2
      <4>2. phase = "check" /\ Top.of = next - 1
        BY <4>1, BottomTop DEF PopHypothesis
      <4>3. next = d + 1
        BY <2>1, <4>2, ConstantsAssumption DEF PopHypothesis, IInv, TypeOK, Decl
      <4> QED
        BY <1>2, <4>1, <4>2, <4>3 DEF DeclRemembered, InFlight, PopHypothesis
    <3> QED
      BY <3>1, <3>2
  <2>2. CASE ~(Checks(1) /\ Top.of = d)
    <3>1. state'[d] = state[d]
      BY <2>2, PopStates
    <3>2. ~OnStack({"head"}, d)
      <4> SUFFICES ASSUME NEW n \in 1 .. Len(stack), stack[n].op = "head", stack[n].of = d
                   PROVE  FALSE
        BY DEF OnStack
      <4>1. n = 1
        BY <1>1 DEF IInv, Control, HeadOnTop
      <4> QED
        BY <1>2, <2>2, <4>1 DEF Checks, Own
    <3> QED
      BY <1>3, <1>4, <1>5, <3>1, <3>2 DEF DeclRemembered
  <2> QED
    BY <2>1, <2>2
<1>8. BodyRemembered(d)'
  <2> SUFFICES ASSUME state'[d] = "Resolved", prog[d].body # <<>>
               PROVE  d \in checked' \/ OnStack({"wake", "body"}, d)' \/ ParkedFor("body", d)'
    BY DEF BodyRemembered, PopHypothesis
  <2>1. state[d] = "Resolved"
    BY PopStates
  <2>2. d \in checked \/ OnStack({"wake", "body"}, d) \/ ParkedFor("body", d)
    BY <1>3, <2>1 DEF BodyRemembered
  <2>3. ASSUME NEW n \in 1 .. Len(stack), stack[n].op \in {"wake", "body"}, stack[n].of = d
        PROVE  d \in checked' \/ OnStack({"wake", "body"}, d)' \/ ParkedFor("body", d)'
    <3>1. CASE n \in 2 .. Len(stack)
      <4>1. n - 1 \in 1 .. Len(stack') /\ stack'[n - 1] = stack[n]
        BY <1>2, <3>1
      <4> QED
        BY <2>3, <4>1 DEF OnStack
    <3>2. CASE n = 1 /\ Checks(1)
      BY <1>2, <2>3, <3>2
    <3>3. CASE n = 1 /\ ~Checks(1)
      <4>1. Len(stack) >= 2
        <5>1. ~(Len(stack) < 2)
          BY <3>3, BottomTop DEF PopHypothesis
        <5> QED
          BY <1>2, <5>1
      <4> QED
        BY <1>2, <1>5, <1>6, <2>3, <3>3, <4>1
    <3> QED
      BY <3>1, <3>2, <3>3
  <2> QED
    BY <1>5, <2>2, <2>3 DEF OnStack
<1> QED
  BY <1>7, <1>8

LEMMA PopTasks ==
    ASSUME PopHypothesis, Answers, NewBodies, OnePlace',
           reported => reported', checked \subseteq checked',
           \A d \in Decl : state'[d] = "Failed" => reported',
           Checks(1) /\ Top.op # "head" =>
               \A d \in Decl : d = Top.of =>
                   \/ d \in checked' \/ reported' \/ prog[d].body = <<>>
                   \/ ParkedFor("body", d)'
    PROVE  Tasks'
<1>1. Stacked' /\ Returned' /\ AllRest' /\ Remembered'
  BY PopStacked, PopReturned, PopRest, PopRemembered
<1>2. FailuresReported'
  BY DEF FailuresReported
<1>3. NamesSettled'
  <2> SUFFICES ASSUME stack' # <<>> PROVE stack'[1].op # "head"
    BY DEF NamesSettled
  <2>1. /\ Len(stack) \in Nat \ {0} /\ Len(stack') = Len(stack) - 1
        /\ stack' = <<>> <=> Len(stack) = 1
        /\ \A n \in 1 .. Len(stack') : n + 1 \in 2 .. Len(stack)
                                       /\ stack'[n] = stack[n + 1]
    BY PopShape DEF PopHypothesis
  <2>2. 1 \in 1 .. Len(stack')
    BY <2>1
  <2> QED
    BY <2>1, <2>2 DEF PopHypothesis, IInv, Control, HeadOnTop
<1>4. Ahead'
  <2>1. Unmet' = Unmet
    BY DEF Unmet, Idle, PopHypothesis
  <2>2. ASSUME NEW d \in Decl, d >= next
        PROVE  state'[d] = "Unresolved"
    <3>1. state[d] = "Unresolved"
      BY <2>2 DEF PopHypothesis, Tasks, Ahead
    <3> QED
      BY <3>1, PopStates
  <2>3. ASSUME NEW id \in Decl, NEW k \in 1 .. Len(pending'[id]), pending'[id][k].task = "decl"
        PROVE  pending'[id][k].of < Unmet'
    <3>1. Len(pending[id]) \in Nat /\ k \in Nat
      BY <2>3, PlaceFacts DEF PopHypothesis, IInv, TypeOK, Kept
    <3>2. k \in 1 .. Len(pending[id])
      BY <2>3, <3>1 DEF NewBodies
    <3>3. pending'[id][k] = pending[id][k]
      BY <3>2 DEF PopHypothesis, Kept
    <3> QED
      BY <2>1, <2>3, <3>2, <3>3 DEF PopHypothesis, Tasks, Ahead
  <2> QED
    BY <2>2, <2>3 DEF Ahead, PopHypothesis, Tasks
<1> QED
  BY <1>1, <1>2, <1>3, <1>4 DEF Tasks

-----------------------------------------------------------------------------
(* Steps that leave the stack or the lists alone.                           *)

LEMMA QuietTasks ==
    ASSUME IInv, Tasks,
           UNCHANGED <<prog, next, state, pending, stack, ret, checked>>,
           \/ UNCHANGED <<phase, reported>>
           \/ Idle /\ phase = "discover" /\ phase' \in {"check", "done"}
           \/ /\ Idle /\ phase = "check" /\ next = N + 1 /\ phase' = "drain"
              /\ reported' = reported
           \/ Idle /\ phase = "drain" /\ phase' = "done" /\ reported' = reported
           \/ stack # <<>> /\ ret = Running /\ phase' \in Crash /\ reported' = reported
    PROVE  Tasks'
<1>1. next \in 1 .. N + 1 /\ N \in Nat
  BY ConstantsAssumption DEF IInv, TypeOK
<1>2. Stacked'
  <2>1. LoopsBelow' /\ ResumedAbove'
    BY DEF Tasks, Stacked, LoopsBelow, ResumedAbove, Loop, Resumes, ResumedWorker, Checks, Own
  <2>2. Bottom'
    BY DEF Tasks, Stacked, Bottom, Checks, Own, Idle, Crash
  <2> QED
    BY <2>1, <2>2 DEF Stacked
<1>3. Returned'
  <2>1. ret # Running => UNCHANGED <<phase, reported>>
    BY DEF Idle
  <2> QED
    BY <2>1 DEF Tasks, Returned, WorkerReturned, CheckReturned, BodyReturned, ResumedWorker,
                Loop, UnderCheck, Checks, Own
<1>4. OnePlace'
  BY DEF Tasks, OnePlace
<1>5. AllRest'
  BY DEF Tasks, AllRest, Rests, Held, Resuming, Loop, UnderCheck, Checks, Own
<1>6. phase = "discover" => next = 1 /\ \A d \in Decl : state[d] = "Unresolved"
  BY <1>1 DEF Tasks, Ahead, Decl
<1>7. Ahead'
  <2>1. Unmet' = Unmet \/ (Unmet' = next /\ Unmet = next - 1)
    BY DEF Unmet, Idle, Crash
  <2>2. \A id \in Decl : \A k \in 1 .. Len(pending[id]) :
           pending[id][k].task = "decl" => pending[id][k].of < Unmet'
    <3> SUFFICES ASSUME NEW id \in Decl, NEW k \in 1 .. Len(pending[id]),
                        pending[id][k].task = "decl"
                 PROVE  pending[id][k].of < Unmet'
      OBVIOUS
    <3>1. pending[id][k].of < Unmet
      BY DEF Tasks, Ahead
    <3>2. pending[id][k].of \in Decl
      BY PlaceFacts DEF IInv, TypeOK
    <3> QED
      BY <1>1, <2>1, <3>1, <3>2 DEF Decl
  <2> QED
    BY <2>2 DEF Tasks, Ahead, Crash
<1>8. FailuresReported'
  BY <1>6 DEF Tasks, FailuresReported
<1>9. NamesSettled'
  BY DEF Tasks, NamesSettled
<1>10. Remembered'
  <2>1. CASE phase = "discover"
    <3>1. \A d \in Decl : ~(d < next')
      BY <1>1, <1>6, <2>1 DEF Decl
    <3> QED
      BY <3>1 DEF Remembered
  <2>2. CASE phase # "discover"
    <3>1. reported' = reported
      BY <2>2
    <3>2. \A d : InFlight(d) => InFlight(d)'
      BY DEF InFlight, Idle
    <3> QED
      BY <3>1, <3>2
         DEF Tasks, Remembered, DeclRemembered, BodyRemembered, OnStack, ParkedFor
  <2> QED
    BY <2>1, <2>2
<1> QED
  BY <1>2, <1>3, <1>4, <1>5, <1>7, <1>8, <1>9, <1>10 DEF Tasks

\* A resumed declaration turns out to be resolved already.
LEMMA EarlyTasks ==
    ASSUME IInv, Tasks, stack # <<>>, Loop(1), ret = Running, ret' = Done,
           ResumedWorker(1).task = "decl", state[ResumedWorker(1).of] = "Resolved",
           UNCHANGED <<prog, phase, next, state, pending, stack, reported, checked>>
    PROVE  Tasks'
<1>1. Done # Running /\ Done.kind = "Done"
  BY DEF Done, Running
<1>2. Stacked'
  BY DEF Tasks, Stacked, LoopsBelow, ResumedAbove, Bottom, Loop, Resumes, ResumedWorker,
         Checks, Own
<1>3. Returned'
  BY <1>1 DEF Returned, WorkerReturned, CheckReturned, ResumedWorker, Loop
<1>4. OnePlace'
  BY DEF Tasks, OnePlace
<1>5. AllRest'
  <2> SUFFICES ASSUME NEW id \in Decl, NEW k \in 1 .. Len(pending[id])
               PROVE  Rests(id, k)'
    BY DEF AllRest
  <2>1. Held(id, k) => Held(id, k)'
    BY <1>1 DEF Held, Resuming, Loop
  <2>2. Rests(id, k)
    BY DEF Tasks, AllRest
  <2> QED
    BY <2>1, <2>2 DEF Rests, UnderCheck, Checks, Own
<1>6. Ahead'
  BY DEF Tasks, Ahead, Unmet, Idle
<1>7. FailuresReported' /\ NamesSettled'
  BY DEF Tasks, FailuresReported, NamesSettled
<1>8. Remembered'
  BY DEF Tasks, Remembered, DeclRemembered, BodyRemembered, OnStack, ParkedFor, InFlight
<1> QED
  BY <1>2, <1>3, <1>4, <1>5, <1>6, <1>7, <1>8 DEF Tasks

\* The draining loop over one symbol ends.
LEMMA DrainedTasks ==
    ASSUME IInv, Tasks, stack # <<>>, Top.op = "drain", stack' = Tail(stack),
           ret = Running, ret' = Running,
           UNCHANGED <<prog, phase, next, state, pending, reported, checked>>,
           phase \in {"check", "drain"}
    PROVE  Tasks'
<1>1. /\ Len(stack) \in Nat \ {0}
      /\ stack' = <<>> <=> Len(stack) = 1
      /\ stack[1] = Top
      /\ 1 \in 1 .. Len(stack)
  BY PopShape
<1>2. Len(stack) = 1
  <2>1. ASSUME Len(stack) >= 2 PROVE FALSE
    <3>1. /\ Resumes(1, ResumedWorker(2))
          /\ ResumedWorker(2).task \in {"decl", "body"}
      BY <2>1, BelowTop
    <3> QED
      BY <1>1, <3>1 DEF Resumes, Checks
  <2>2. \A n \in Nat \ {0} : ~(n >= 2) => n = 1
    OBVIOUS
  <2> QED
    BY <1>1, <2>1, <2>2
<1>3. stack' = <<>> /\ Len(stack') = 0
  BY <1>1, <1>2
<1>4. phase = "drain"
  BY <1>1, <1>2 DEF Tasks, Stacked, Bottom, Checks
<1>5. Stacked' /\ Returned' /\ NamesSettled'
  BY <1>3 DEF Stacked, LoopsBelow, ResumedAbove, Bottom, Returned, NamesSettled
<1>6. OnePlace' /\ FailuresReported'
  BY DEF Tasks, OnePlace, FailuresReported
<1>7. AllRest'
  <2> SUFFICES ASSUME NEW id \in Decl, NEW k \in 1 .. Len(pending[id])
               PROVE  Rests(id, k)'
    BY DEF AllRest
  <2>1. ~Held(id, k)
    BY <1>1, <1>2 DEF Held, Resuming
  <2>2. Rests(id, k)
    BY DEF Tasks, AllRest
  <2>3. \A n \in 1 .. Len(stack') : FALSE
    <3>1. \A n \in 1 .. 0 : FALSE
      OBVIOUS
    <3>2. Len(stack') = 0
      BY <1>3
    <3> QED
      BY <3>1, <3>2, Zenon
  <2>4. ~UnderCheck(pending[id][k].of)'
    BY <2>3, Zenon DEF UnderCheck
  <2> QED
    BY <2>1, <2>2, <2>4 DEF Rests
<1>8. Ahead'
  BY <1>4 DEF Tasks, Ahead, Unmet, Idle
<1>9. Remembered'
  <2>1. \A d : ~OnStack({"head"}, d) /\ ~OnStack({"wake", "body"}, d)
    BY <1>1, <1>2 DEF OnStack
  <2>2. \A d : ~InFlight(d)
    BY DEF InFlight
  <2> QED
    BY <2>1, <2>2 DEF Tasks, Remembered, DeclRemembered, BodyRemembered, ParkedFor
<1> QED
  BY <1>5, <1>6, <1>7, <1>8, <1>9 DEF Tasks

-----------------------------------------------------------------------------
(* The worker resumed last has returned to its loop.                        *)

\* The place a worker had before the one that ended left the list.
Left == Ends(ret)
Old(id, k) == IF Left /\ id = Top.of /\ k >= Top.at THEN k + 1 ELSE k

ResumedHypothesis ==
    /\ IInv /\ Tasks /\ Resumed

LEMMA ResumedFacts ==
    ASSUME ResumedHypothesis
    PROVE  /\ stack # <<>> /\ ret # Running /\ ret \in Status
           /\ phase \in {"check", "drain"}
           /\ 1 \in 1 .. Len(stack) /\ stack[1] = Top
           /\ Top.of \in Decl
           /\ Top.at \in 1 .. Len(pending[Top.of])
           /\ Loop(1) /\ Resuming(1) /\ Own(1)
           /\ \A n \in 2 .. Len(stack) : stack[n].of # Top.of
<1>1. /\ stack # <<>> /\ ret # Running
      /\ Top.op \in {"wake", "drain"} /\ phase \in {"check", "drain"}
  BY DEF ResumedHypothesis, Resumed, Looping, TopIs
<1>2. stack[1] = Top /\ Len(stack) \in Nat \ {0}
  BY <1>1, TopType DEF ResumedHypothesis, IInv
<1>3. 1 \in 1 .. Len(stack) /\ ret \in Status
  BY <1>1, <1>2 DEF ResumedHypothesis, IInv, TypeOK
<1>4. Loop(1) /\ Resuming(1) /\ Own(1)
  BY <1>1, <1>2 DEF Loop, Resuming, Own
<1>5. Top.of \in Decl /\ Top.at \in 1 .. Len(pending[Top.of])
  BY <1>2, <1>3, <1>4, ResumingFacts DEF ResumedHypothesis
<1>6. ASSUME NEW n \in 2 .. Len(stack)
      PROVE  stack[n].of # Top.of
  <2>1. n \in 1 .. Len(stack) /\ n # 1
    BY <1>2
  <2>2. Own(n)
    BY DEF ResumedHypothesis, Tasks, Stacked, LoopsBelow, Loop, Own
  <2> QED
    BY <1>2, <1>3, <1>4, <2>1, <2>2, OneCheck DEF ResumedHypothesis
<1> QED
  BY <1>1, <1>2, <1>3, <1>4, <1>5, <1>6

LEMMA ResumedLists ==
    ASSUME ResumedHypothesis, NEW id \in Decl
    PROVE  /\ pending[id] \in Seq(Worker)
           /\ ~(Left /\ id = Top.of) => pending'[id] = pending[id]
           /\ Left /\ id = Top.of => pending'[id] = RemoveAt(pending[id], Top.at)
<1>1. pending \in [Decl -> Seq(Worker)]
  BY DEF ResumedHypothesis, IInv, TypeOK
<1>2. Top.of \in Decl
  BY ResumedFacts
<1>3. pending' = IF Left THEN [pending EXCEPT ![Top.of] = RemoveAt(@, Top.at)] ELSE pending
  BY DEF ResumedHypothesis, Resumed, Left
<1> QED
  BY <1>1, <1>2, <1>3

LEMMA OldPlace ==
    ASSUME ResumedHypothesis, NEW id \in Decl, NEW k \in 1 .. Len(pending'[id])
    PROVE  /\ Old(id, k) \in 1 .. Len(pending[id])
           /\ pending'[id][k] = pending[id][Old(id, k)]
           /\ Left => ~(id = Top.of /\ Old(id, k) = Top.at)
<1>1. pending[id] \in Seq(Worker)
  BY ResumedLists
<1>2. CASE Left /\ id = Top.of
  <2>1. pending'[id] = RemoveAt(pending[id], Top.at)
    BY <1>2, ResumedLists
  <2>2. Top.at \in 1 .. Len(pending[id]) /\ Len(pending[id]) \in Nat
    BY <1>1, <1>2, ResumedFacts
  <2> DEFINE s == pending[id]
             r == RemoveAt(pending[id], Top.at)
             a == Top.at
  <2>3. /\ Len(r) = Len(s) - 1
        /\ \A i \in 1 .. Len(s) - 1 : r[i] = IF i < a THEN s[i] ELSE s[i + 1]
    BY <1>1, <2>2, RemoveAtProperties
  <2>4. k \in 1 .. Len(r) /\ pending'[id][k] = r[k]
    BY <2>1
  <2>5. Old(id, k) = IF k >= a THEN k + 1 ELSE k
    BY <1>2 DEF Old
  <2>6. a \in 1 .. Len(s) /\ Len(s) \in Nat
    BY <2>2
  <2> HIDE DEF s, r, a
  <2>7. /\ Old(id, k) \in 1 .. Len(s) /\ r[k] = s[Old(id, k)]
        /\ Old(id, k) # a
    BY <2>3, <2>4, <2>5, <2>6
  <2> QED
    BY <2>4, <2>7 DEF s, r, a
<1>3. CASE ~(Left /\ id = Top.of)
  BY <1>3, ResumedLists DEF Old
<1> QED
  BY <1>2, <1>3

LEMMA StaysListed ==
    ASSUME ResumedHypothesis, NEW id \in Decl, NEW j \in 1 .. Len(pending[id]),
           ~(Left /\ id = Top.of /\ j = Top.at)
    PROVE  \E k \in 1 .. Len(pending'[id]) : pending'[id][k] = pending[id][j]
<1>1. pending[id] \in Seq(Worker)
  BY ResumedLists
<1>2. CASE Left /\ id = Top.of
  <2>1. pending'[id] = RemoveAt(pending[id], Top.at)
    BY <1>2, ResumedLists
  <2>2. Top.at \in 1 .. Len(pending[id]) /\ Len(pending[id]) \in Nat
    BY <1>1, <1>2, ResumedFacts
  <2> DEFINE s == pending[id]
             r == RemoveAt(pending[id], Top.at)
             a == Top.at
             k == IF j < a THEN j ELSE j - 1
  <2>3. /\ Len(r) = Len(s) - 1
        /\ \A i \in 1 .. Len(s) - 1 : r[i] = IF i < a THEN s[i] ELSE s[i + 1]
    BY <1>1, <2>2, RemoveAtProperties
  <2>4. a \in 1 .. Len(s) /\ Len(s) \in Nat /\ j \in 1 .. Len(s) /\ j # a
    BY <1>2, <2>2
  <2>5. pending'[id] = r
    BY <2>1
  <2> HIDE DEF s, r, a
  <2>6. k \in 1 .. Len(r) /\ r[k] = s[j]
    BY <2>3, <2>4
  <2> QED
    BY <2>5, <2>6 DEF s
<1>3. CASE ~(Left /\ id = Top.of)
  BY <1>3, ResumedLists
<1> QED
  BY <1>2, <1>3

LEMMA ResumedFrame ==
    ASSUME ResumedHypothesis
    PROVE  \E f \in Frame : /\ stack' = Cons(f, Tail(stack))
                            /\ f.of = Top.of /\ f.op = Top.op /\ f.own = Top.own
<1> DEFINE f == [Top EXCEPT !.at = @ + 1]
<1>1. Top \in Frame
  BY ResumedFacts, TopType DEF ResumedHypothesis, IInv
<1>2. f \in Frame /\ f.of = Top.of /\ f.op = Top.op /\ f.own = Top.own
  BY <1>1 DEF Frame
<1>3. stack' = Cons(f, Tail(stack))
  BY DEF ResumedHypothesis, Resumed
<1> QED
  BY <1>2, <1>3

LEMMA ResumedRest ==
    ASSUME ResumedHypothesis
    PROVE  OnePlace' /\ AllRest'
<1>1. ASSUME NEW i \in Decl, NEW j \in Decl,
             NEW k \in 1 .. Len(pending'[i]), NEW l \in 1 .. Len(pending'[j]),
             pending'[i][k].task = pending'[j][l].task,
             pending'[i][k].of = pending'[j][l].of
      PROVE  i = j /\ k = l
  <2>1. /\ Old(i, k) \in 1 .. Len(pending[i])
        /\ pending'[i][k] = pending[i][Old(i, k)]
        /\ Old(j, l) \in 1 .. Len(pending[j])
        /\ pending'[j][l] = pending[j][Old(j, l)]
    BY OldPlace
  <2>2. i = j /\ Old(i, k) = Old(j, l)
    <3>1. PICK p \in 1 .. Len(pending[i]), q \in 1 .. Len(pending[j]) :
            /\ p = Old(i, k) /\ q = Old(j, l)
            /\ pending'[i][k] = pending[i][p] /\ pending'[j][l] = pending[j][q]
      BY <2>1
    <3>2. /\ pending[i][p].task = pending[j][q].task
          /\ pending[i][p].of = pending[j][q].of
      BY <1>1, <3>1
    <3>3. OnePlace
      BY DEF ResumedHypothesis, Tasks
    <3>4. i = j /\ p = q
      BY <3>2, <3>3 DEF OnePlace
    <3> QED
      BY <3>1, <3>4
  <2>3. Len(pending[Top.of]) \in Nat /\ Top.at \in 1 .. Len(pending[Top.of])
    <3>1. Top.of \in Decl /\ Top.at \in 1 .. Len(pending[Top.of])
      BY ResumedFacts
    <3>2. pending[Top.of] \in Seq(Worker)
      BY <3>1, ResumedLists
    <3> QED
      BY <3>1, <3>2
  <2> DEFINE a == Top.at
             c == Left /\ i = Top.of
  <2>4. a \in Int /\ k \in Int /\ l \in Int
    BY <2>3
  <2>5. (IF c /\ k >= a THEN k + 1 ELSE k) = (IF c /\ l >= a THEN l + 1 ELSE l)
    <3>1. Old(i, k) = IF Left /\ i = Top.of /\ k >= Top.at THEN k + 1 ELSE k
      BY DEF Old
    <3>2. Old(i, l) = IF Left /\ i = Top.of /\ l >= Top.at THEN l + 1 ELSE l
      BY DEF Old
    <3> QED
      BY <2>2, <3>1, <3>2
  <2> HIDE DEF a, c
  <2>6. k = l
    BY <2>4, <2>5
  <2> QED
    BY <2>2, <2>6
<1>2. OnePlace'
  BY <1>1 DEF OnePlace
<1>3. PICK f \in Frame : /\ stack' = Cons(f, Tail(stack))
                         /\ f.of = Top.of /\ f.op = Top.op /\ f.own = Top.own
  BY ResumedFrame
<1>4. IInv /\ stack # <<>> /\ Same(f)
  BY <1>3, ResumedFacts DEF ResumedHypothesis, Same
<1>5. /\ Len(stack') = Len(stack)
      /\ \A n \in 2 .. Len(stack) : stack'[n] = stack[n]
  BY <1>3, <1>4, ReplaceShape
<1>6. ASSUME NEW id \in Decl, NEW k \in 1 .. Len(pending'[id])
      PROVE  Rests(id, k)'
  <2> DEFINE j == Old(id, k)
  <2>1. /\ j \in 1 .. Len(pending[id])
        /\ pending'[id][k] = pending[id][j]
        /\ Left => ~(id = Top.of /\ j = Top.at)
    BY <1>6, OldPlace
  <2>2. PICK d \in Decl, task \in {"decl", "body"} :
          d = pending[id][j].of /\ task = pending[id][j].task
    BY <2>1, PlaceFacts DEF ResumedHypothesis, IInv, TypeOK
  <2>3. Rests(id, j)
    BY <2>1 DEF ResumedHypothesis, Tasks, AllRest
  <2>4. /\ task = "decl" => Held(id, j) \/ (~UnderCheck(d) /\ state[d] # "Failed")
        /\ task = "body" => ~UnderCheck(d) /\ state[d] = "Resolved"
    BY <2>2, <2>3 DEF Rests
  <2>5. UnderCheck(d)' <=> UnderCheck(d)
    BY <1>3, <1>4, ReplaceUnderCheck
  <2>6. state' = state
    BY DEF ResumedHypothesis, Resumed
  <2>7. /\ task = "body" /\ ~UnderCheck(d) /\ state[d] = "Resolved" => Rests(id, k)'
        /\ task = "decl" /\ ~UnderCheck(d) /\ state[d] # "Failed" => Rests(id, k)'
        /\ task = "decl" /\ Held(id, k)' => Rests(id, k)'
    <3>1. ~UnderCheck(d)' => ~UnderCheck(pending[id][k].of)'
      BY <2>1, <2>2 DEF UnderCheck, Checks, Own
    <3> QED
      BY <2>1, <2>2, <2>5, <2>6, <3>1 DEF Rests
  <2>8. ASSUME task = "decl", NEW n \in 1 .. Len(stack), Resuming(n), stack[n].of = id,
               stack[n].at = j
        PROVE  Rests(id, k)'
    <3>1. CASE n \in 2 .. Len(stack)
      <4>1. stack'[n] = stack[n] /\ n \in 1 .. Len(stack')
        BY <1>5, <3>1
      <4>2. id # Top.of
        BY <2>8, <3>1, ResumedFacts
      <4>3. j = k
        BY <4>2 DEF Old
      <4>4. Resuming(n)'
        BY <2>8, <3>1, <4>1 DEF Resuming, Loop
      <4>5. Held(id, k)'
        BY <2>8, <4>1, <4>3, <4>4 DEF Held
      <4> QED
        BY <2>7, <2>8, <4>5
    <3>2. CASE n = 1
      <4>1. id = Top.of /\ j = Top.at
        BY <2>8, <3>2, ResumedFacts
      <4>2. ~Left /\ ret \in Status /\ ret # Running /\ stack # <<>>
        BY <2>1, <4>1, ResumedFacts
      <4>3. ret.kind = "Pending"
        BY <4>2 DEF Left, Ends, Status
      <4>4. ResumedWorker(1) = pending[id][j]
        BY <2>8, <3>2 DEF ResumedWorker
      <4>5. CheckReturned(d)
        BY <2>2, <2>8, <4>2, <4>4 DEF ResumedHypothesis, Tasks, Returned, WorkerReturned
      <4> QED
        BY <2>7, <2>8, <4>3, <4>5 DEF CheckReturned
    <3>3. n = 1 \/ n \in 2 .. Len(stack)
      OBVIOUS
    <3> QED
      BY <3>1, <3>2, <3>3
  <2> QED
    BY <2>2, <2>4, <2>7, <2>8 DEF Held
<1>7. AllRest'
  BY <1>6 DEF AllRest
<1> QED
  BY <1>2, <1>7

LEMMA ResumedTasks ==
    ASSUME ResumedHypothesis
    PROVE  Tasks'
<1>1. /\ IInv /\ Tasks
      /\ ret' = Running
      /\ UNCHANGED <<prog, phase, next, state, reported, checked>>
  BY DEF ResumedHypothesis, Resumed
<1>2. /\ stack # <<>> /\ stack[1] = Top /\ Top.of \in Decl
      /\ \A n \in 2 .. Len(stack) : stack[n].of # Top.of
  BY ResumedFacts
<1>3. PICK f \in Frame : /\ stack' = Cons(f, Tail(stack))
                         /\ f.of = Top.of /\ f.op = Top.op /\ f.own = Top.own
  BY ResumedFrame
<1>4. Same(f)
  BY <1>3 DEF Same
<1>5. /\ Len(stack) \in Nat \ {0} /\ Len(stack') = Len(stack)
      /\ stack' # <<>> /\ stack'[1] = f
      /\ \A n \in 2 .. Len(stack) : stack'[n] = stack[n]
  BY <1>1, <1>2, <1>3, ReplaceShape
<1>6. Stacked'
  <2>1. ASSUME NEW n \in 2 .. Len(stack)
        PROVE  ResumedWorker(n)' = ResumedWorker(n)
    <3>1. n \in 1 .. Len(stack) /\ n > 1
      BY <1>5
    <3>2. Loop(n)
      BY <1>1 DEF Tasks, Stacked, LoopsBelow
    <3>3. stack[n].of \in Decl
      BY <1>1, <3>1, <3>2, ResumingFacts DEF Resuming
    <3>4. pending'[stack[n].of] = pending[stack[n].of]
      BY <1>2, <3>3, ResumedLists
    <3> QED
      BY <1>5, <3>4 DEF ResumedWorker
  <2> QED
    BY <1>1, <1>2, <1>3, <1>4, <2>1, ReplaceStacked DEF Tasks
<1>7. Returned'
  BY <1>1 DEF Returned
<1>8. OnePlace' /\ AllRest'
  BY ResumedRest
<1>9. Ahead'
  <2>1. Unmet' = Unmet
    BY <1>1, <1>2, <1>5 DEF Unmet, Idle
  <2>2. ASSUME NEW id \in Decl, NEW k \in 1 .. Len(pending'[id]), pending'[id][k].task = "decl"
        PROVE  pending'[id][k].of < Unmet'
    <3>1. Old(id, k) \in 1 .. Len(pending[id]) /\ pending'[id][k] = pending[id][Old(id, k)]
      BY OldPlace
    <3> QED
      BY <1>1, <2>1, <2>2, <3>1 DEF Tasks, Ahead
  <2> QED
    BY <1>1, <2>2 DEF Tasks, Ahead
<1>10. FailuresReported'
  BY <1>1 DEF Tasks, FailuresReported
<1>11. NamesSettled'
  <2>1. Top.op # "head"
    BY DEF ResumedHypothesis, Resumed, Looping, TopIs
  <2> QED
    BY <1>3, <1>5, <2>1 DEF NamesSettled
<1>12. Remembered'
  <2> SUFFICES ASSUME ~reported, NEW d \in Decl, d < next
               PROVE  DeclRemembered(d)' /\ BodyRemembered(d)'
    BY <1>1 DEF Remembered
  <2>1. DeclRemembered(d) /\ BodyRemembered(d)
    BY <1>1 DEF Tasks, Remembered
  <2>2. \A ops : OnStack(ops, d) => OnStack(ops, d)'
    <3> SUFFICES ASSUME NEW ops, NEW n \in 1 .. Len(stack), stack[n].op \in ops,
                        stack[n].of = d
                 PROVE  OnStack(ops, d)'
      BY DEF OnStack
    <3>1. n = 1 \/ n \in 2 .. Len(stack)
      OBVIOUS
    <3>2. stack'[n].op \in ops /\ stack'[n].of = d /\ n \in 1 .. Len(stack')
      BY <1>2, <1>3, <1>5, <3>1
    <3> QED
      BY <3>2 DEF OnStack
  <2>3. ~InFlight(d)
    BY <1>2 DEF InFlight
  <2>4. ASSUME NEW task \in {"decl", "body"}, ParkedFor(task, d)
        PROVE  \/ ParkedFor(task, d)'
               \/ task = "decl" /\ state[d] = "Resolved"
               \/ task = "body" /\ d \in checked
    <3>1. PICK id \in Decl : \E j \in 1 .. Len(pending[id]) :
             pending[id][j].task = task /\ pending[id][j].of = d
      BY <2>4 DEF ParkedFor
    <3>2. PICK j \in 1 .. Len(pending[id]) :
             pending[id][j].task = task /\ pending[id][j].of = d
      BY <3>1
    <3>3. CASE Left /\ id = Top.of /\ j = Top.at
      <4>1. ResumedWorker(1) = pending[id][j]
        BY <1>2, <3>3 DEF ResumedWorker
      <4>2. WorkerReturned(pending[id][j]) /\ ret.kind \in {"Done", "Failed"}
        BY <1>1, <3>3, <4>1, ResumedFacts DEF Tasks, Returned, Left, Ends
      <4> QED
        BY <3>2, <4>2 DEF WorkerReturned, CheckReturned, BodyReturned
    <3>4. CASE ~(Left /\ id = Top.of /\ j = Top.at)
      <4>1. \E k \in 1 .. Len(pending'[id]) : pending'[id][k] = pending[id][j]
        BY <3>4, StaysListed
      <4> QED
        BY <3>2, <4>1 DEF ParkedFor
    <3> QED
      BY <3>3, <3>4
  <2>5. DeclRemembered(d)'
    BY <1>1, <2>1, <2>2, <2>3, <2>4 DEF DeclRemembered
  <2>6. BodyRemembered(d)'
    BY <1>1, <2>1, <2>2, <2>4 DEF BodyRemembered
  <2> QED
    BY <2>5, <2>6
<1> QED
  BY <1>6, <1>7, <1>8, <1>9, <1>10, <1>11, <1>12 DEF Tasks

-----------------------------------------------------------------------------
(* A worker is parked.                                                      *)

LEMMA RegisterPlaces ==
    ASSUME NEW p \in [Decl -> Seq(Worker)], NEW r \in Decl, NEW w \in Worker,
           NEW q, q = [p EXCEPT ![r] = Append(@, w)]
    PROVE  /\ q \in [Decl -> Seq(Worker)]
           /\ \A id \in Decl : \A k \in 1 .. Len(p[id]) :
                 k \in 1 .. Len(q[id]) /\ q[id][k] = p[id][k]
           /\ \A id \in Decl : \A k \in 1 .. Len(q[id]) :
                 k \in 1 .. Len(p[id]) \/ (id = r /\ k = Len(p[r]) + 1 /\ q[id][k] = w)
           /\ \E k \in 1 .. Len(q[r]) : q[r][k] = w
<1>1. q \in [Decl -> Seq(Worker)] /\ q[r] = Append(p[r], w)
      /\ \A id \in Decl : id # r => q[id] = p[id]
  OBVIOUS
<1>2. /\ p[r] \in Seq(Worker) /\ Len(p[r]) \in Nat
      /\ Len(q[r]) = Len(p[r]) + 1
      /\ \A k \in 1 .. Len(p[r]) : q[r][k] = p[r][k]
      /\ q[r][Len(p[r]) + 1] = w
  BY <1>1
<1>3. ASSUME NEW id \in Decl, NEW k \in 1 .. Len(p[id])
      PROVE  k \in 1 .. Len(q[id]) /\ q[id][k] = p[id][k]
  BY <1>1, <1>2
<1>4. ASSUME NEW id \in Decl, NEW k \in 1 .. Len(q[id])
      PROVE  k \in 1 .. Len(p[id]) \/ (id = r /\ k = Len(p[r]) + 1 /\ q[id][k] = w)
  BY <1>1, <1>2
<1>5. Len(p[r]) + 1 \in 1 .. Len(q[r])
  BY <1>2
<1> QED
  BY <1>1, <1>2, <1>3, <1>4, <1>5

LEMMA RegisterOnce ==
    ASSUME IInv, OnePlace, NEW r \in Decl, NEW w \in Worker,
           pending' = [pending EXCEPT ![r] = Append(@, w)],
           ~ParkedFor(w.task, w.of)
    PROVE  OnePlace'
<1>1. pending \in [Decl -> Seq(Worker)]
  BY DEF IInv, TypeOK
<1>2. /\ \A id \in Decl : \A k \in 1 .. Len(pending[id]) :
            k \in 1 .. Len(pending'[id]) /\ pending'[id][k] = pending[id][k]
      /\ \A id \in Decl : \A k \in 1 .. Len(pending'[id]) :
            \/ k \in 1 .. Len(pending[id])
            \/ id = r /\ k = Len(pending[r]) + 1 /\ pending'[id][k] = w
  <2> DEFINE q == pending'
  <2>1. q = [pending EXCEPT ![r] = Append(@, w)]
    OBVIOUS
  <2> HIDE DEF q
  <2>2. /\ \A id \in Decl : \A k \in 1 .. Len(pending[id]) :
              k \in 1 .. Len(q[id]) /\ q[id][k] = pending[id][k]
        /\ \A id \in Decl : \A k \in 1 .. Len(q[id]) :
              k \in 1 .. Len(pending[id])
              \/ (id = r /\ k = Len(pending[r]) + 1 /\ q[id][k] = w)
    BY <1>1, <2>1, RegisterPlaces
  <2> QED
    BY <2>2 DEF q
<1> SUFFICES ASSUME NEW i \in Decl, NEW j \in Decl,
                    NEW k \in 1 .. Len(pending'[i]), NEW l \in 1 .. Len(pending'[j]),
                    pending'[i][k].task = pending'[j][l].task,
                    pending'[i][k].of = pending'[j][l].of
             PROVE  i = j /\ k = l
  BY DEF OnePlace
<1>3. ASSUME NEW id \in Decl, NEW m \in 1 .. Len(pending[id]),
             pending[id][m].task = w.task, pending[id][m].of = w.of
      PROVE  FALSE
  BY <1>3 DEF ParkedFor
<1>4. CASE k \in 1 .. Len(pending[i]) /\ l \in 1 .. Len(pending[j])
  <2>1. pending[i][k].task = pending[j][l].task /\ pending[i][k].of = pending[j][l].of
    BY <1>2, <1>4
  <2> QED
    BY <1>4, <2>1 DEF OnePlace
<1>5. CASE k \in 1 .. Len(pending[i]) /\ l \notin 1 .. Len(pending[j])
  <2>1. pending'[j][l] = w /\ pending'[i][k] = pending[i][k]
    BY <1>2, <1>5
  <2> QED
    BY <1>3, <1>5, <2>1
<1>6. CASE k \notin 1 .. Len(pending[i]) /\ l \in 1 .. Len(pending[j])
  <2>1. pending'[i][k] = w /\ pending'[j][l] = pending[j][l]
    BY <1>2, <1>6
  <2> QED
    BY <1>3, <1>6, <2>1
<1>7. CASE k \notin 1 .. Len(pending[i]) /\ l \notin 1 .. Len(pending[j])
  BY <1>2, <1>7
<1> QED
  BY <1>4, <1>5, <1>6, <1>7

LEMMA TopLevelTasks ==
    ASSUME IInv, Tasks, TopLevelStatus
    PROVE  Tasks'
<1>1. /\ phase = "check" /\ stack = <<>> /\ stack' = <<>> /\ ret # Running /\ ret' = Running
      /\ UNCHANGED <<prog, phase, next, state, reported, checked>>
  BY DEF TopLevelStatus
<1>2. Len(stack) = 0 /\ Len(stack') = 0
  <2>1. Len(<<>>) = 0
    OBVIOUS
  <2> QED
    BY <1>1, <2>1, Zenon
<1>3. /\ next \in 1 .. N + 1 /\ N \in Nat
      /\ pending \in [Decl -> Seq(Worker)]
      /\ ret \in Status
  BY <1>1, ConstantsAssumption DEF IInv, TypeOK
<1>4. next - 1 \in Decl
  <2>1. next # 1
    BY <1>1 DEF IInv, Started, Idle
  <2> QED
    BY <1>3, <2>1 DEF Decl
<1>5. CheckReturned(next - 1)
  BY <1>1 DEF Tasks, Returned
<1>6. \A n \in 1 .. Len(stack) : FALSE
  <2>1. \A n \in 1 .. 0 : FALSE
    OBVIOUS
  <2> QED
    BY <1>2, <2>1, Zenon
<1>7. \A n \in 1 .. Len(stack') : FALSE
  BY <1>1, <1>6, Zenon
<1>8. Stacked' /\ Returned' /\ NamesSettled'
  BY <1>1, <1>2 DEF Stacked, LoopsBelow, ResumedAbove, Bottom, Returned, NamesSettled
<1>9. FailuresReported'
  BY <1>1 DEF Tasks, FailuresReported
<1>10. Unmet = next - 1 /\ Unmet' = next
  BY <1>1 DEF Unmet, Idle
<1>11. \A id \in Decl : \A k \in 1 .. Len(pending[id]) :
         pending[id][k].task = "decl" =>
            /\ pending[id][k].of < next - 1
            /\ state[pending[id][k].of] # "Failed"
  <2> SUFFICES ASSUME NEW id \in Decl, NEW k \in 1 .. Len(pending[id]),
                      pending[id][k].task = "decl"
               PROVE  /\ pending[id][k].of < next - 1
                      /\ state[pending[id][k].of] # "Failed"
    OBVIOUS
  <2>1. ~Held(id, k)
    BY <1>6, Zenon DEF Held
  <2> QED
    BY <1>10, <2>1 DEF Tasks, AllRest, Rests, Ahead
<1>12. \A id \in Decl : \A k \in 1 .. Len(pending[id]) :
         pending[id][k].task = "body" => state[pending[id][k].of] = "Resolved"
  BY DEF Tasks, AllRest, Rests
<1>13. ASSUME NEW id \in Decl, NEW k \in 1 .. Len(pending'[id]),
              pending'[id][k].task = "decl" => state[pending'[id][k].of] # "Failed",
              pending'[id][k].task = "body" => state[pending'[id][k].of] = "Resolved"
       PROVE  Rests(id, k)'
  <2>1. ~UnderCheck(pending[id][k].of)'
    BY <1>7, Zenon DEF UnderCheck
  <2>2. /\ (pending[id][k].task = "decl")' => (state[pending[id][k].of] # "Failed")'
        /\ (pending[id][k].task = "body")' => (state[pending[id][k].of] = "Resolved")'
    BY <1>1, <1>13
  <2> QED
    BY <2>1, <2>2 DEF Rests
<1>14. CASE ret.kind = "Pending" /\ ret.wait # Undeclared
  <2> DEFINE r == ret.wait
  <2>1. r \in Decl
    BY <1>3, <1>14 DEF Status, Ref
  <2>2. PICK scope \in SavedScope(IF prog[next - 1].kind = "func" THEN "inner" ELSE "outer") :
          pending' = [pending EXCEPT ![r] =
             Append(@, [task |-> "decl", of |-> next - 1, scope |-> scope])]
    BY <1>14 DEF TopLevelStatus, Registered
  <2> DEFINE w == [task |-> "decl", of |-> next - 1, scope |-> scope]
  <2>3. w \in Worker /\ w.task = "decl" /\ w.of = next - 1
    BY <1>4, <2>2 DEF Worker, SavedScope, Scope
  <2> HIDE DEF w, r
  <2>4. pending' = [pending EXCEPT ![r] = Append(@, w)]
    BY <2>2 DEF w
  <2>5. /\ \A id \in Decl : \A k \in 1 .. Len(pending[id]) :
              k \in 1 .. Len(pending'[id]) /\ pending'[id][k] = pending[id][k]
        /\ \A id \in Decl : \A k \in 1 .. Len(pending'[id]) :
              k \in 1 .. Len(pending[id]) \/ pending'[id][k] = w
        /\ \E k \in 1 .. Len(pending'[r]) : pending'[r][k] = w
    BY <1>3, <2>1, <2>3, <2>4, RegisterPlaces
  <2>6. ~ParkedFor("decl", next - 1)
    <3>1. ASSUME NEW id \in Decl, NEW k \in 1 .. Len(pending[id]),
                 pending[id][k].task = "decl", pending[id][k].of = next - 1
          PROVE  FALSE
      <4>1. next - 1 < next - 1
        BY <1>11, <3>1
      <4> QED
        BY <1>3, <4>1
    <3> QED
      BY <3>1 DEF ParkedFor
  <2>7. OnePlace'
    BY <2>1, <2>3, <2>4, <2>6, RegisterOnce DEF Tasks
  <2>8. AllRest'
    <3> SUFFICES ASSUME NEW id \in Decl, NEW k \in 1 .. Len(pending'[id])
                 PROVE  Rests(id, k)'
      BY DEF AllRest
    <3>1. CASE k \in 1 .. Len(pending[id])
      BY <1>11, <1>12, <1>13, <2>5, <3>1
    <3>2. CASE pending'[id][k] = w
      BY <1>5, <1>13, <1>14, <2>3, <3>2 DEF CheckReturned
    <3> QED
      BY <2>5, <3>1, <3>2
  <2>9. Ahead'
    <3>1. ASSUME NEW id \in Decl, NEW k \in 1 .. Len(pending'[id]), pending'[id][k].task = "decl"
          PROVE  pending'[id][k].of < next
      <4>1. CASE k \in 1 .. Len(pending[id])
        <5>1. pending[id][k].of < next - 1 /\ pending[id][k].of \in Decl
              /\ pending'[id][k] = pending[id][k]
          BY <1>3, <1>11, <2>5, <3>1, <4>1, PlaceFacts
        <5> QED
          BY <1>3, <5>1 DEF Decl
      <4>2. CASE pending'[id][k] = w
        BY <1>3, <2>3, <4>2
      <4> QED
        BY <2>5, <4>1, <4>2
    <3> QED
      BY <1>1, <1>10, <3>1 DEF Tasks, Ahead
  <2>10. Remembered'
    <3> SUFFICES ASSUME ~reported, NEW d \in Decl, d < next
                 PROVE  DeclRemembered(d)' /\ BodyRemembered(d)'
      BY <1>1 DEF Remembered
    <3>1. \A task : ParkedFor(task, d) => ParkedFor(task, d)'
      BY <2>5 DEF ParkedFor
    <3>2. InFlight(d) => ParkedFor("decl", d)'
      <4>1. next = d + 1 => d = next - 1
        BY <1>3 DEF Decl
      <4> QED
        BY <2>1, <2>3, <2>5, <4>1 DEF InFlight, ParkedFor
    <3>3. \A ops : ~OnStack(ops, d)
      BY <1>6, Zenon DEF OnStack
    <3> QED
      BY <1>1, <3>1, <3>2, <3>3 DEF Tasks, Remembered, DeclRemembered, BodyRemembered
  <2> QED
    BY <1>8, <1>9, <2>7, <2>8, <2>9, <2>10 DEF Tasks
<1>15. CASE ~(ret.kind = "Pending" /\ ret.wait # Undeclared)
  <2>1. pending' = pending
    BY <1>15 DEF TopLevelStatus
  <2>2. OnePlace'
    BY <2>1 DEF Tasks, OnePlace
  <2>3. AllRest'
    BY <1>11, <1>12, <1>13, <2>1 DEF AllRest
  <2>4. Ahead'
    <3>1. ASSUME NEW id \in Decl, NEW k \in 1 .. Len(pending[id]), pending[id][k].task = "decl"
          PROVE  pending[id][k].of < next
      <4>1. pending[id][k].of < next - 1 /\ pending[id][k].of \in Decl
        BY <1>3, <1>11, <3>1, PlaceFacts
      <4> QED
        BY <1>3, <4>1 DEF Decl
    <3> QED
      BY <1>1, <1>10, <2>1, <3>1 DEF Tasks, Ahead
  <2>5. Remembered'
    <3> SUFFICES ASSUME ~reported, NEW d \in Decl, d < next
                 PROVE  DeclRemembered(d)' /\ BodyRemembered(d)'
      BY <1>1 DEF Remembered
    <3>1. \A task : ParkedFor(task, d) => ParkedFor(task, d)'
      BY <2>1 DEF ParkedFor
    <3>2. InFlight(d) => state[d] = "Resolved"
      <4>1. next = d + 1 => d = next - 1
        BY <1>3 DEF Decl
      <4>2. ret.kind \in {"Done", "Pending", "Failed"}
        BY <1>3 DEF Status
      <4> QED
        BY <1>5, <1>15, <4>1, <4>2 DEF InFlight, CheckReturned
    <3>3. \A ops : ~OnStack(ops, d)
      BY <1>6, Zenon DEF OnStack
    <3> QED
      BY <1>1, <3>1, <3>2, <3>3 DEF Tasks, Remembered, DeclRemembered, BodyRemembered
  <2> QED
    BY <1>8, <1>9, <2>2, <2>3, <2>4, <2>5 DEF Tasks
<1> QED
  BY <1>14, <1>15

-----------------------------------------------------------------------------
(* Every action keeps the invariant.                                        *)

\* The entry of a failed symbol is dropped with its workers.
LEMMA ClearedTasks ==
    ASSUME IInv, Tasks, Idle, NEW c \in Decl, state[c] = "Failed",
           pending' = [pending EXCEPT ![c] = <<>>],
           UNCHANGED <<prog, phase, next, state, stack, ret, reported, checked>>
    PROVE  Tasks'
<1>1. pending \in [Decl -> Seq(Worker)] /\ stack = <<>> /\ ret = Running
  BY DEF IInv, TypeOK, Idle
<1>2. \A id \in Decl : \A k \in 1 .. Len(pending'[id]) :
         k \in 1 .. Len(pending[id]) /\ pending'[id][k] = pending[id][k]
  <2> SUFFICES ASSUME NEW id \in Decl, NEW k \in 1 .. Len(pending'[id])
               PROVE  k \in 1 .. Len(pending[id]) /\ pending'[id][k] = pending[id][k]
    OBVIOUS
  <2>1. Len(<<>>) = 0 /\ \A n \in 1 .. 0 : FALSE
    OBVIOUS
  <2>2. id # c
    BY <1>1, <2>1
  <2> QED
    BY <1>1, <2>2
<1>3. reported
  BY DEF Tasks, FailuresReported
<1>4. Stacked' /\ Returned' /\ NamesSettled'
  <2>1. Len(stack') = 0
    <3>1. Len(<<>>) = 0 /\ stack' = <<>>
      BY <1>1
    <3> QED
      BY <3>1, Zenon
  <2> QED
    BY <1>1, <2>1 DEF Stacked, LoopsBelow, ResumedAbove, Bottom, Returned, NamesSettled
<1>5. OnePlace'
  <2> SUFFICES ASSUME NEW i \in Decl, NEW j \in Decl,
                      NEW k \in 1 .. Len(pending'[i]), NEW l \in 1 .. Len(pending'[j]),
                      pending'[i][k].task = pending'[j][l].task,
                      pending'[i][k].of = pending'[j][l].of
               PROVE  i = j /\ k = l
    BY DEF OnePlace
  <2>1. /\ k \in 1 .. Len(pending[i]) /\ l \in 1 .. Len(pending[j])
        /\ pending[i][k].task = pending[j][l].task /\ pending[i][k].of = pending[j][l].of
    BY <1>2
  <2> QED
    BY <2>1 DEF Tasks, OnePlace
<1>6. AllRest'
  <2> SUFFICES ASSUME NEW id \in Decl, NEW k \in 1 .. Len(pending'[id])
               PROVE  Rests(id, k)'
    BY DEF AllRest
  <2>1. k \in 1 .. Len(pending[id]) /\ pending'[id][k] = pending[id][k]
    BY <1>2
  <2>2. Rests(id, k)
    BY <2>1 DEF Tasks, AllRest
  <2> QED
    BY <2>1, <2>2 DEF Rests, Held, Resuming, Loop, UnderCheck, Checks, Own
<1>7. Ahead'
  <2>1. Unmet' = Unmet
    BY DEF Unmet, Idle
  <2> QED
    BY <1>2, <2>1 DEF Tasks, Ahead
<1>8. FailuresReported' /\ Remembered'
  BY <1>3 DEF FailuresReported, Remembered
<1> QED
  BY <1>4, <1>5, <1>6, <1>7, <1>8 DEF Tasks

LEMMA ResolveTasks ==
    ASSUME IInv, Tasks, Resolve
    PROVE  Tasks'
<1>1. CASE Discover
  BY <1>1, QuietTasks DEF Discover, IInv, Started
<1>2. CASE CheckNext
  <2>1. /\ EnterDecl(next, FALSE) /\ stack = <<>> /\ ret = Running
        /\ phase = "check" /\ next \in Decl /\ next' = next + 1
    BY <1>2 DEF CheckNext, Idle
  <2>2. state[next] # "Resolved"
    <3>1. next >= next
      BY <2>1 DEF Decl
    <3> QED
      BY <2>1, <3>1 DEF Tasks, Ahead
  <2> DEFINE f == HeadFrame(next, FALSE)
  <2>3. f \in Frame /\ f.op = "head" /\ f.at = 1 /\ f.of = next
    BY <2>1 DEF HeadFrame, Frame, Scope
  <2>4. /\ stack' = Cons(f, stack)
        /\ state' = [state EXCEPT ![next] = "Resolving"]
        /\ UNCHANGED <<prog, phase, pending, ret, reported, checked>>
    BY <2>1, <2>2 DEF EnterDecl
  <2> HIDE DEF f
  <2>5. Starts(f)
    BY <2>1, <2>3, <2>4 DEF Starts
  <2> QED
    BY <2>1, <2>3, <2>4, <2>5, PushTasks
<1>3. CASE TopLevelStatus
  BY <1>3, TopLevelTasks
<1>4. CASE BeginDrain
  BY <1>4, QuietTasks DEF BeginDrain
<1>5. CASE Finish
  BY <1>5, QuietTasks DEF Finish
<1> QED
  BY <1>1, <1>2, <1>3, <1>4, <1>5 DEF Resolve

LEMMA DrainTasks ==
    ASSUME IInv, Tasks, NEW d \in Decl, DrainEntry(d)
    PROVE  Tasks'
<1>1. /\ Idle /\ stack = <<>> /\ ret = Running /\ phase = "drain"
      /\ UNCHANGED <<prog, phase, next, state, ret, reported, checked>>
  BY DEF DrainEntry, Idle
<1>2. CASE state[d] = "Resolved"
  <2> DEFINE f == [op |-> "drain", of |-> d, at |-> 1, resumed |-> FALSE,
                   scope |-> "outer", own |-> FALSE]
  <2>1. f \in Frame /\ f.op = "drain"
    BY DEF Frame, Scope
  <2>2. stack' = <<f>> /\ pending' = pending
    BY <1>2 DEF DrainEntry
  <2> HIDE DEF f
  <2>3. stack' = Cons(f, stack)
    BY <1>1, <2>1, <2>2 DEF Cons
  <2>4. Starts(f)
    BY <1>1, <2>1 DEF Starts
  <2> QED
    BY <1>1, <2>1, <2>2, <2>3, <2>4, PushTasks
<1>3. CASE state[d] = "Failed"
  <2>1. pending' = [pending EXCEPT ![d] = <<>>] /\ stack' = stack
    BY <1>3 DEF DrainEntry
  <2> QED
    BY <1>1, <1>3, <2>1, ClearedTasks
<1>4. CASE state[d] \in {"Unresolved", "Resolving"}
  <2>1. UNCHANGED <<pending, stack>>
    BY <1>4 DEF DrainEntry
  <2> QED
    BY <1>1, <2>1, QuietTasks
<1> QED
  BY <1>2, <1>3, <1>4 DEF DrainEntry

LEMMA AbortTasks ==
    ASSUME IInv, Tasks, stack # <<>>, ret = Running, NEW why \in Crash, Abort(why)
    PROVE  Tasks'
  BY QuietTasks DEF Abort

LEMMA LoopsTasks ==
    ASSUME IInv, Tasks, Loops
    PROVE  Tasks'
<1>0. phase \in {"check", "drain"} /\ stack # <<>> /\ Top.op \in {"wake", "drain"}
  BY DEF Loops, ResumeNext, Resumed, LoopEnds, Looping, TopIs
<1>1. CASE ResumeNext
  <2>1. ret = Running /\ stack[1] = Top /\ Loop(1) /\ Top.of \in Decl
        /\ Top.at \in 1 .. Len(pending[Top.of])
    <3>1. Top \in Frame /\ Top = stack[1] /\ Top.of \in Decl
      BY <1>0, TopType DEF IInv
    <3>2. Top.at \in Nat \ {0} /\ Len(pending[Top.of]) \in Nat
      BY <3>1 DEF Frame, IInv, TypeOK
    <3> QED
      BY <1>0, <1>1, <3>1, <3>2 DEF ResumeNext, Loop
  <2> DEFINE w == ResumedWorker(1)
  <2>2. w.task \in {"decl", "body"} /\ w.of \in Decl /\ w.scope \in Scope
    <3>1. w \in Worker
      BY <2>1 DEF ResumedWorker, IInv, TypeOK
    <3> QED
      BY <3>1 DEF Worker
  <2>3. Resume(w)
    BY <1>1, <2>1 DEF ResumeNext, ResumedWorker
  <2>4. CASE w.task = "decl" /\ w.scope = "inner"
    BY <1>0, <2>1, <2>3, <2>4, AbortTasks DEF Resume, Crash
  <2>5. CASE w.task = "decl" /\ w.scope = "outer"
    <3>1. EnterDecl(w.of, TRUE) /\ next' = next
      BY <2>3, <2>5 DEF Resume
    <3>2. CASE state[w.of] = "Resolved"
      <4>1. /\ ret' = Done
            /\ UNCHANGED <<prog, phase, next, state, pending, stack, reported, checked>>
        BY <3>1, <3>2 DEF EnterDecl
      <4> QED
        BY <1>0, <2>1, <2>5, <3>2, <4>1, EarlyTasks
    <3>3. CASE state[w.of] # "Resolved"
      <4> DEFINE f == HeadFrame(w.of, TRUE)
      <4>1. f \in Frame /\ f.op = "head" /\ f.at = 1 /\ f.of = w.of
        BY <2>2 DEF HeadFrame, Frame, Scope
      <4>2. /\ stack' = Cons(f, stack)
            /\ state' = [state EXCEPT ![w.of] = "Resolving"]
            /\ UNCHANGED <<prog, phase, pending, ret, reported, checked>>
        BY <3>1, <3>3 DEF EnterDecl
      <4> HIDE DEF f
      <4>3. Starts(f)
        BY <1>0, <2>1, <2>5, <3>1, <3>3, <4>1, <4>2 DEF Starts
      <4> QED
        BY <2>1, <4>1, <4>2, <4>3, PushTasks
    <3> QED
      BY <3>2, <3>3
  <2>6. CASE w.task = "body"
    <3> DEFINE f == BodyFrame(w.of, TRUE, w.scope, FALSE)
    <3>1. f \in Frame /\ f.op = "body" /\ ~f.own /\ f.of = w.of
      BY <2>2 DEF BodyFrame, Frame, IInv, TypeOK
    <3>2. /\ stack' = Cons(f, stack)
          /\ UNCHANGED <<prog, phase, next, state, pending, ret, reported, checked>>
      BY <2>3, <2>6 DEF Resume
    <3> HIDE DEF f
    <3>3. Starts(f)
      BY <1>0, <2>1, <2>6, <3>1, <3>2 DEF Starts
    <3> QED
      BY <2>1, <3>1, <3>2, <3>3, PushTasks
  <2> QED
    BY <2>2, <2>4, <2>5, <2>6 DEF Scope
<1>2. CASE Resumed
  BY <1>2, ResumedTasks DEF ResumedHypothesis
<1>3. CASE LoopEnds
  <2>1. ret = Running /\ UNCHANGED <<prog, phase, next, state, pending, reported, checked>>
    BY <1>3 DEF LoopEnds
  <2>2. Top \in Frame /\ Top = stack[1] /\ Top.of \in Decl
    BY <1>0, TopType DEF IInv
  <2>3. CASE Top.op = "drain"
    <3>1. stack' = Tail(stack) /\ ret' = ret
      BY <1>3, <2>3 DEF LoopEnds
    <3> QED
      BY <1>0, <2>1, <2>3, <3>1, DrainedTasks
  <2>4. CASE Top.op = "wake" /\ prog[Top.of].kind = "func" /\ prog[Top.of].body # <<>>
    <3> DEFINE f == BodyFrame(Top.of, Top.resumed,
                              IF Top.resumed THEN "outer" ELSE "inner", TRUE)
    <3>1. f \in Frame /\ f.op = "body" /\ f.of = Top.of /\ f.own
      BY <2>2 DEF BodyFrame, Frame, Scope, IInv, TypeOK
    <3>2. stack' = Cons(f, Tail(stack)) /\ ret' = Running
      BY <1>3, <2>1, <2>4 DEF LoopEnds
    <3> HIDE DEF f
    <3>3. Same(f) /\ f.op # "drain" /\ f.op # "head" /\ Top.op # "head"
      BY <2>4, <3>1 DEF Same
    <3> QED
      BY <1>0, <2>1, <3>1, <3>2, <3>3, ReplaceTasks
  <2>5. CASE Top.op = "wake" /\ ~(prog[Top.of].kind = "func" /\ prog[Top.of].body # <<>>)
    <3>1. stack' = Tail(stack) /\ ret' = Done
      BY <1>3, <2>5 DEF LoopEnds, Return
    <3>2. ret' # Running /\ ret'.kind = "Done"
      BY <3>1 DEF Done, Running
    <3>3. Checks(1) /\ 1 \in 1 .. Len(stack)
      <4>1. 1 \in 1 .. Len(stack)
        BY <1>0, PopShape, <3>1
      <4> QED
        BY <2>2, <2>5, <4>1 DEF Checks, Own
    <3>4. state[Top.of] = "Resolved"
      BY <2>2, <2>5, <3>3 DEF IInv, Control, ActivationState, Checks
    <3>5. Kept /\ NewBodies
      <4>1. pending \in [Decl -> Seq(Worker)]
        BY DEF IInv, TypeOK
      <4>2. \A id \in Decl : \A k \in 1 .. Len(pending[id]) : ~(k > Len(pending[id]))
        BY <4>1
      <4> QED
        BY <2>1, <4>1, <4>2 DEF Kept, NewBodies
    <3>6. PopHypothesis
      BY <1>0, <2>1, <2>5, <3>1, <3>2, <3>5 DEF PopHypothesis
    <3>7. Answers
      BY <2>1, <3>2, <3>3, <3>4 DEF Answers, CheckReturned
    <3>8. OnePlace' /\ \A d \in Decl : state'[d] = "Failed" => reported'
      BY <2>1 DEF Tasks, OnePlace, FailuresReported
    <3>9. prog[Top.of].body = <<>>
      BY <2>2, <2>5 DEF IInv, TypeOK, Program, Declaration
    <3> QED
      BY <2>1, <3>5, <3>6, <3>7, <3>8, <3>9, PopTasks
  <2> QED
    BY <1>0, <2>3, <2>4, <2>5
<1> QED
  BY <1>1, <1>2, <1>3 DEF Loops

\* The lists stay as they are.
LEMMA SameLists ==
    ASSUME IInv, Tasks, UNCHANGED pending
    PROVE  Kept /\ NewBodies /\ OnePlace'
<1>1. pending \in [Decl -> Seq(Worker)]
  BY DEF IInv, TypeOK
<1>2. \A id \in Decl : \A k \in 1 .. Len(pending[id]) : ~(k > Len(pending[id]))
  BY <1>1
<1> QED
  BY <1>1, <1>2 DEF Kept, NewBodies, Tasks, OnePlace

\* A name that yields a type is settled.
LEMMA YieldsSettled ==
    ASSUME IInv, NEW r \in Ref, Yields(r) = "type"
    PROVE  r \in Decl /\ state[r] \in {"Resolved", "Failed"}
<1>1. r # Undeclared
  BY DEF Yields
<1>2. r \in Decl /\ state[r] \in SymbolState
  BY <1>1 DEF Ref, IInv, TypeOK
<1> QED
  BY <1>1, <1>2 DEF Yields, SymbolState

\* A head, or a body of its own check, returns a status.
LEMMA CheckReturns ==
    ASSUME IInv, Tasks, stack # <<>>, Checks(1), phase \in {"check", "drain"}, ret = Running,
           NEW status, Return(status), status # Running,
           UNCHANGED <<prog, phase, next>>, Kept, NewBodies, OnePlace',
           reported => reported', checked \subseteq checked',
           \/ state' = state
           \/ \E v \in SymbolState \ {"Resolved"} : state' = [state EXCEPT ![Top.of] = v],
           \A d \in Decl : state'[d] = "Failed" => reported',
           status.kind = "Done" => state'[Top.of] = "Resolved",
           status.kind = "Failed" => reported',
           status.kind = "Pending" =>
               /\ state'[Top.of] # "Failed"
               /\ status.wait = Undeclared => state'[Top.of] = "Resolved",
           Top.op # "head" =>
               \A d \in Decl : d = Top.of =>
                   \/ d \in checked' \/ reported' \/ prog[d].body = <<>>
                   \/ ParkedFor("body", d)'
    PROVE  Tasks'
<1>1. stack' = Tail(stack) /\ ret' = status
  BY DEF Return
<1>2. stack[1] = Top
  BY <1>1, PopShape
<1>3. PopHypothesis
  BY <1>1, <1>2 DEF PopHypothesis, Checks
<1>4. Answers
  <2>1. \A d : d = Top.of => ~UnderCheck(d)'
    BY <1>1, PopUnderCheck
  <2> QED
    BY <1>1, <2>1 DEF Answers, CheckReturned
<1> QED
  BY <1>3, <1>4, PopTasks

LEMMA HeadFacts ==
    ASSUME IInv, InHead
    PROVE  /\ stack # <<>> /\ ret = Running /\ phase \in {"check", "drain"}
           /\ Top.op = "head" /\ Checks(1)
           /\ Top \in Frame /\ stack[1] = Top /\ Top.of \in Decl
<1>1. /\ stack # <<>> /\ ret = Running /\ Top.op = "head" /\ Own(1)
      /\ Top \in Frame /\ Top = stack[1] /\ Top.of \in Decl
  BY HeadType
<1> QED
  BY <1>1 DEF InHead, TopIs, Checks

LEMMA FailHeadTasks ==
    ASSUME IInv, Tasks, InHead, FailHead,
           UNCHANGED <<prog, phase, next, pending, checked>>
    PROVE  Tasks'
<1>1. Failed # Running /\ Failed.kind = "Failed"
  BY DEF Failed, Running
<1>2. Broken(prog[Top.of].kind) \in SymbolState \ {"Resolved"}
  BY DEF Broken, SymbolState
<1>3. /\ state' = [state EXCEPT ![Top.of] = Broken(prog[Top.of].kind)]
      /\ reported' = TRUE /\ Return(Failed)
  BY DEF FailHead
<1> QED
  BY <1>1, <1>2, <1>3, HeadFacts, SameLists, CheckReturns

LEMMA HeadsTasks ==
    ASSUME IInv, Tasks, Heads
    PROVE  Tasks'
<1>1. CASE HeadStep
  <2>1. InHead /\ NamesLeft /\ Yields(HeadName) = "type"
    BY <1>1 DEF HeadStep
  <2> DEFINE f == [Top EXCEPT !.at = @ + 1]
  <2>2. f \in Frame /\ f.of = Top.of /\ f.op = "head" /\ f.at = Top.at + 1
    BY <2>1, HeadType DEF Frame
  <2>3. /\ stack' = Cons(f, Tail(stack))
        /\ UNCHANGED <<prog, phase, next, state, pending, ret, reported, checked>>
    BY <1>1 DEF HeadStep
  <2> HIDE DEF f
  <2>4. HeadName \in Decl /\ state[HeadName] \in {"Resolved", "Failed"}
    BY <2>1, HeadType, YieldsSettled
  <2>5. ASSUME NEW n \in DOMAIN prog[f.of].head, n < f.at
        PROVE  /\ prog[f.of].head[n] \in Decl
               /\ state[prog[f.of].head[n]] \in {"Resolved", "Failed"}
    <3>1. /\ stack # <<>> /\ stack[1] = Top /\ Top.op = "head" /\ Top.at \in Nat
          /\ prog[Top.of].head \in Seq(Ref)
      BY <2>1, HeadType DEF Frame
    <3>2. n \in Nat
      BY <2>2, <2>5, <3>1
    <3>3. n < Top.at \/ n = Top.at
      BY <2>2, <2>5, <3>1, <3>2
    <3> QED
      BY <2>2, <2>4, <2>5, <3>1, <3>3 DEF Tasks, NamesSettled, HeadName
  <2>6. Same(f)
    BY <2>1, <2>2, HeadFacts DEF Same
  <2> QED
    BY <2>1, <2>2, <2>3, <2>5, <2>6, HeadFacts, ReplaceTasks
<1>2. CASE HeadWaits
  <2>1. InHead /\ NamesLeft /\ Yields(HeadName) = "wait"
    BY <1>2 DEF HeadWaits
  <2> DEFINE v == Suspended(prog[Top.of].kind)
             status == PendingOn(HeadName)
  <2>2. v \in SymbolState \ {"Resolved"} /\ v # "Failed"
    BY DEF Suspended, SymbolState
  <2>3. status # Running /\ status.kind = "Pending" /\ status.wait # Undeclared
    BY <2>1 DEF PendingOn, Running, Yields
  <2>4. /\ state' = [state EXCEPT ![Top.of] = v]
        /\ Return(status)
        /\ UNCHANGED <<prog, phase, next, pending, reported, checked>>
    BY <1>2 DEF HeadWaits
  <2> HIDE DEF v, status
  <2>5. state \in [Decl -> SymbolState] /\ Top.of \in Decl
    BY <2>1, HeadFacts DEF IInv, TypeOK
  <2>6. \A d \in Decl : state'[d] = "Failed" => reported'
    BY <2>2, <2>4, <2>5 DEF Tasks, FailuresReported
  <2>7. state'[Top.of] # "Failed"
    BY <2>2, <2>4, <2>5
  <2> QED
    BY <2>1, <2>2, <2>3, <2>4, <2>6, <2>7, HeadFacts, SameLists, CheckReturns
<1>3. CASE HeadFails
  BY <1>3, FailHeadTasks DEF HeadFails
<1>4. CASE OwnCheckFails
  BY <1>4, FailHeadTasks DEF OwnCheckFails
<1>5. CASE HeadResolves
  <2>1. InHead
    BY <1>5 DEF HeadResolves
  <2> DEFINE f == [Top EXCEPT !.op = "wake", !.at = 1]
  <2>2. f \in Frame /\ f.of = Top.of /\ f.op = "wake"
    <3> DEFINE g == [Top EXCEPT !.op = "wake"]
    <3>1. Top \in Frame
      BY <2>1, HeadType
    <3>2. g \in Frame /\ g.of = Top.of /\ g.op = "wake" /\ f = [g EXCEPT !.at = 1]
      BY <3>1 DEF Frame
    <3> HIDE DEF f, g
    <3> QED
      BY <3>2 DEF Frame
  <2>3. /\ stack' = Cons(f, Tail(stack))
        /\ state' = [state EXCEPT ![Top.of] = "Resolved"]
        /\ UNCHANGED <<prog, phase, next, pending, ret, reported, checked>>
    BY <1>5 DEF HeadResolves
  <2> HIDE DEF f
  <2>4. Same(f)
    BY <2>1, <2>2, HeadFacts DEF Same
  <2> QED
    BY <2>1, <2>2, <2>3, <2>4, HeadFacts, ReplaceTasks
<1>6. CASE HeadCrashes
  <2>1. InHead /\ \E why \in Crash : Abort(why)
    BY <1>6 DEF HeadCrashes, Crash
  <2> QED
    BY <2>1, HeadFacts, AbortTasks
<1> QED
  BY <1>1, <1>2, <1>3, <1>4, <1>5, <1>6 DEF Heads

\* A body resumed for a worker returns a status.
LEMMA WorkerBodyReturns ==
    ASSUME IInv, Tasks, stack # <<>>, Top.op = "body", ~Top.own,
           phase \in {"check", "drain"}, ret = Running,
           NEW status, Return(status), status # Running,
           UNCHANGED <<prog, phase, next, state, pending>>,
           reported => reported', checked \subseteq checked',
           status.kind = "Done" => Top.of \in checked',
           status.kind = "Failed" => reported'
    PROVE  Tasks'
<1>1. stack' = Tail(stack) /\ ret' = status
  BY DEF Return
<1>2. stack[1] = Top
  BY <1>1, PopShape
<1>3. ~Checks(1)
  BY <1>2 DEF Checks, Own
<1>4. Kept /\ NewBodies /\ OnePlace'
  BY SameLists
<1>5. PopHypothesis
  BY <1>1, <1>4 DEF PopHypothesis
<1>6. Answers
  BY <1>1, <1>3 DEF Answers, BodyReturned
<1>7. \A d \in Decl : state'[d] = "Failed" => reported'
  BY DEF Tasks, FailuresReported
<1> QED
  BY <1>3, <1>4, <1>5, <1>6, <1>7, PopTasks

LEMMA BodyFacts ==
    ASSUME IInv, InBody
    PROVE  /\ stack # <<>> /\ ret = Running /\ phase \in {"check", "drain"}
           /\ Top.op = "body"
           /\ Top \in Frame /\ stack[1] = Top /\ Top.of \in Decl
           /\ 1 \in 1 .. Len(stack)
           /\ Top.own => Checks(1) /\ UnderCheck(Top.of) /\ state[Top.of] = "Resolved"
<1>1. /\ stack # <<>> /\ ret = Running /\ Top.op = "body"
      /\ Top \in Frame /\ Top = stack[1] /\ Top.of \in Decl
  BY BodyType
<1>2. 1 \in 1 .. Len(stack)
  <2>1. Len(stack) \in Nat \ {0}
    BY <1>1, TopType DEF IInv
  <2> QED
    BY <2>1
<1>3. Top.own => Own(1) /\ Checks(1)
  BY <1>1 DEF Own, Checks
<1>4. Top.own => state[Top.of] = "Resolved"
  BY <1>1, <1>2, <1>3 DEF IInv, Control, ActivationState
<1> QED
  BY <1>1, <1>2, <1>3, <1>4 DEF InBody, TopIs, UnderCheck

LEMMA BodyWaitsTasks ==
    ASSUME IInv, Tasks, BodyWaits
    PROVE  Tasks'
<1>1. /\ InBody /\ StmtsLeft /\ Yields(BodyStmt.ref) = "wait"
      /\ UNCHANGED <<prog, phase, next, state, reported, checked>>
  BY DEF BodyWaits
<1>2. \A r : PendingOn(r) # Running /\ PendingOn(r).kind = "Pending" /\ PendingOn(r).wait = r
  BY DEF PendingOn, Running
<1>3. CASE ~Top.own
  <2>1. pending' = pending /\ Return(PendingOn(BodyStmt.ref))
    BY <1>3 DEF BodyWaits
  <2> QED
    BY <1>1, <1>2, <1>3, <2>1, BodyFacts, WorkerBodyReturns
<1>4. CASE Top.own
  <2> DEFINE r == BodyStmt.ref
  <2>1. r \in Decl
    BY <1>1, BodyType DEF Yields, Stmt, Ref
  <2>2. PICK scope \in SavedScope(Top.scope) :
          pending' = [pending EXCEPT ![r] =
             Append(@, [task |-> "body", of |-> Top.of, scope |-> scope])]
    BY <1>4 DEF BodyWaits, Registered
  <2>3. Return(PendingOn(Undeclared))
    BY <1>4 DEF BodyWaits
  <2> DEFINE w == [task |-> "body", of |-> Top.of, scope |-> scope]
  <2>4. w \in Worker /\ w.task = "body" /\ w.of = Top.of
    BY <1>1, <2>2, BodyFacts DEF Worker, SavedScope, Scope, Frame
  <2> HIDE DEF w, r
  <2>5. pending' = [pending EXCEPT ![r] = Append(@, w)]
    BY <2>2 DEF w
  <2>6. pending \in [Decl -> Seq(Worker)]
    BY DEF IInv, TypeOK
  <2> DEFINE q == pending'
  <2>7. q = [pending EXCEPT ![r] = Append(@, w)]
    BY <2>5
  <2> HIDE DEF q
  <2>8. /\ q \in [Decl -> Seq(Worker)]
        /\ \A id \in Decl : \A k \in 1 .. Len(pending[id]) :
              k \in 1 .. Len(q[id]) /\ q[id][k] = pending[id][k]
        /\ \A id \in Decl : \A k \in 1 .. Len(q[id]) :
              k \in 1 .. Len(pending[id]) \/ (id = r /\ k = Len(pending[r]) + 1 /\ q[id][k] = w)
        /\ \E k \in 1 .. Len(q[r]) : q[r][k] = w
    BY <2>1, <2>4, <2>6, <2>7, RegisterPlaces
  <2>9. Kept
    BY <2>8 DEF Kept, q
  <2>10. NewBodies
    <3> SUFFICES ASSUME NEW id \in Decl, NEW k \in 1 .. Len(pending'[id]),
                        k > Len(pending[id])
                 PROVE  pending'[id][k] = w
      BY <1>1, <1>4, <2>4, BodyFacts DEF NewBodies
    <3>1. Len(pending[id]) \in Nat
      BY <2>6
    <3>2. k \notin 1 .. Len(pending[id])
      BY <3>1
    <3> QED
      BY <2>8, <3>2 DEF q
  <2>11. ~ParkedFor(w.task, w.of)
    <3>1. UnderCheck(Top.of)
      BY <1>1, <1>4, BodyFacts
    <3> QED
      BY <2>4, <3>1 DEF ParkedFor, Tasks, AllRest, Rests
  <2>12. OnePlace'
    BY <2>1, <2>4, <2>5, <2>11, RegisterOnce DEF Tasks
  <2>13. \A d \in Decl : d = Top.of => ParkedFor("body", d)'
    BY <2>1, <2>4, <2>8 DEF ParkedFor, q
  <2>14. \A d \in Decl : state'[d] = "Failed" => reported'
    BY <1>1 DEF Tasks, FailuresReported
  <2>15. state'[Top.of] = "Resolved"
    BY <1>1, <1>4, BodyFacts
  <2> QED
    BY <1>1, <1>2, <1>4, <2>3, <2>9, <2>10, <2>12, <2>13, <2>14, <2>15, BodyFacts, CheckReturns
<1> QED
  BY <1>3, <1>4

LEMMA BodiesTasks ==
    ASSUME IInv, Tasks, Bodies
    PROVE  Tasks'
<1>1. CASE BodyStep
  <2>1. InBody
    BY <1>1 DEF BodyStep
  <2> DEFINE f == [Top EXCEPT !.at = Top.at + 1, !.resumed = FALSE]
             g == [Top EXCEPT !.at = Top.at + 1]
  <2>2. f \in Frame /\ f.of = Top.of /\ f.op = "body" /\ f.own = Top.own
    <3>1. Top \in Frame /\ Top.op = "body"
      BY <2>1, BodyFacts
    <3>2. /\ g \in Frame /\ g.of = Top.of /\ g.op = "body" /\ g.own = Top.own
          /\ f = [g EXCEPT !.resumed = FALSE]
      BY <3>1 DEF Frame
    <3> HIDE DEF f, g
    <3> QED
      BY <3>2 DEF Frame
  <2>3. /\ stack' = Cons(f, Tail(stack)) /\ ret' = Running
        /\ UNCHANGED <<prog, phase, next, state, pending, reported, checked>>
    BY <1>1 DEF BodyStep, Goto
  <2> HIDE DEF f, g
  <2>4. Same(f)
    BY <2>1, <2>2, BodyFacts DEF Same
  <2> QED
    BY <2>1, <2>2, <2>3, <2>4, BodyFacts, ReplaceTasks
<1>2. CASE BodyWaits
  BY <1>2, BodyWaitsTasks
<1>3. CASE BodyFails
  <2>1. /\ InBody /\ Return(Failed) /\ reported' = TRUE
        /\ state' = IF Top.own THEN [state EXCEPT ![Top.of] = "Failed"] ELSE state
        /\ UNCHANGED <<prog, phase, next, pending, checked>>
    BY <1>3 DEF BodyFails
  <2>2. Failed # Running /\ Failed.kind = "Failed"
    BY DEF Failed, Running
  <2>3. CASE Top.own
    <3>1. "Failed" \in SymbolState \ {"Resolved"}
      BY DEF SymbolState
    <3> QED
      BY <2>1, <2>2, <2>3, <3>1, BodyFacts, SameLists, CheckReturns
  <2>4. CASE ~Top.own
    BY <2>1, <2>2, <2>4, BodyFacts, WorkerBodyReturns
  <2> QED
    BY <2>3, <2>4
<1>4. CASE BodyEnds
  <2>1. /\ InBody /\ Return(Done) /\ checked' = checked \cup {Top.of}
        /\ UNCHANGED <<prog, phase, next, state, pending, reported>>
    BY <1>4 DEF BodyEnds
  <2>2. Done # Running /\ Done.kind = "Done"
    BY DEF Done, Running
  <2>3. \A d \in Decl : state'[d] = "Failed" => reported'
    BY <2>1 DEF Tasks, FailuresReported
  <2>4. CASE Top.own
    BY <2>1, <2>2, <2>3, <2>4, BodyFacts, SameLists, CheckReturns
  <2>5. CASE ~Top.own
    BY <2>1, <2>2, <2>5, BodyFacts, WorkerBodyReturns
  <2> QED
    BY <2>4, <2>5
<1>5. CASE BodyCrashes
  <2>1. InBody /\ \E why \in Crash : Abort(why)
    BY <1>5 DEF BodyCrashes, Crash
  <2> QED
    BY <2>1, BodyFacts, AbortTasks
<1> QED
  BY <1>1, <1>2, <1>3, <1>4, <1>5 DEF Bodies

-----------------------------------------------------------------------------
(* The invariant.                                                           *)

LEMMA InitTasks ==
    ASSUME Init
    PROVE  Tasks
<1>1. /\ N \in Nat /\ TypeOK
      /\ stack = <<>> /\ ret = Running /\ phase = "discover" /\ next = 1
      /\ reported = FALSE
      /\ \A d \in Decl : state[d] = "Unresolved" /\ pending[d] = <<>>
  BY InitInvariant, ConstantsAssumption DEF Init, IInv
<1>2. /\ \A n \in 1 .. Len(stack) : FALSE
      /\ \A n \in 2 .. Len(stack) : FALSE
      /\ \A id \in Decl : \A k \in 1 .. Len(pending[id]) : FALSE
  <2>1. Len(stack) = 0 /\ \A id \in Decl : Len(pending[id]) = 0
    BY <1>1
  <2>2. (\A n \in 1 .. 0 : FALSE) /\ (\A n \in 2 .. 0 : FALSE)
    OBVIOUS
  <2> QED
    BY <2>1, <2>2
<1>3. Stacked
  BY <1>1, <1>2 DEF Stacked, LoopsBelow, ResumedAbove, Bottom
<1>4. Returned /\ OnePlace /\ AllRest /\ NamesSettled
  BY <1>1, <1>2 DEF Returned, OnePlace, AllRest, NamesSettled
<1>5. Ahead /\ FailuresReported
  BY <1>1, <1>2 DEF Ahead, FailuresReported
<1>6. \A d \in Decl : ~(d < next)
  BY <1>1 DEF Decl
<1> QED
  BY <1>3, <1>4, <1>5, <1>6 DEF Tasks, Remembered

LEMMA StepTasks ==
    ASSUME IInv, Tasks, [Next]_vars
    PROVE  Tasks'
<1>1. CASE UNCHANGED vars
  BY <1>1, QuietTasks DEF vars
<1>2. CASE Resolve
  BY <1>2, ResolveTasks
<1>3. CASE \E d \in Decl : DrainEntry(d)
  BY <1>3, DrainTasks
<1>4. CASE Loops
  BY <1>4, LoopsTasks
<1>5. CASE Heads
  BY <1>5, HeadsTasks
<1>6. CASE Bodies
  BY <1>6, BodiesTasks
<1>7. CASE Stopped
  BY <1>1, <1>7 DEF Stopped
<1> QED
  BY <1>1, <1>2, <1>3, <1>4, <1>5, <1>6, <1>7 DEF Next

\* What the stack, the status on its way and the lists of pending_workers say of
\* the suspended checks holds in every state the checker reaches.
THEOREM TasksInvariance == Spec => []TInv
<1>1. Init => TInv
  BY InitInvariant, InitTasks DEF TInv
<1>2. TInv /\ [Next]_vars => TInv'
  BY StepInvariant, StepTasks DEF TInv
<1> QED
  BY <1>1, <1>2, PTL DEF Spec

-----------------------------------------------------------------------------
(* No suspended check is forgotten, and none is parked twice.               *)

LEMMA ParkedPlaces ==
    ASSUME TypeOK, NEW task, NEW d, NEW p
    PROVE  p \in Parked(task, d) <=>
             \E id \in Decl : \E k \in 1 .. Len(pending[id]) :
                 /\ p = <<id, k>>
                 /\ pending[id][k].task = task
                 /\ pending[id][k].of = d
<1>1. \A id \in Decl : DOMAIN pending[id] = 1 .. Len(pending[id])
  BY DEF TypeOK
<1>2. (p \in UNION {{<<id, n>> : n \in DOMAIN pending[id]} : id \in Decl})
        <=> (\E id \in Decl : \E n \in DOMAIN pending[id] : p = <<id, n>>)
  OBVIOUS
<1> QED
  BY <1>1, <1>2 DEF Parked

LEMMA ParkedIsParkedFor ==
    ASSUME TypeOK, NEW task, NEW d, ParkedFor(task, d)
    PROVE  Parked(task, d) # {}
<1>1. PICK id \in Decl : \E k \in 1 .. Len(pending[id]) :
          pending[id][k].task = task /\ pending[id][k].of = d
  BY DEF ParkedFor
<1>2. PICK k \in 1 .. Len(pending[id]) :
          pending[id][k].task = task /\ pending[id][k].of = d
  BY <1>1
<1>3. <<id, k>> \in Parked(task, d)
  BY <1>2, ParkedPlaces
<1> QED
  BY <1>3

LEMMA ActiveIsOnStack ==
    ASSUME TypeOK, NEW ops, NEW d, OnStack(ops, d)
    PROVE  Active(ops, d)
<1>1. DOMAIN stack = 1 .. Len(stack)
  BY DEF TypeOK
<1> QED
  BY <1>1 DEF OnStack, Active

\* Until an error is reported, every declaration that semactx_resolve has met and
\* every body of a resolved function is finished, running or parked: no edit of
\* a worker list by a nested wake-up loses one.
THEOREM NothingForgottenTheorem == Spec => []NothingForgotten
<1>1. TInv => NothingForgotten
  <2> SUFFICES ASSUME TInv, ~reported, NEW d \in Decl, d < next
               PROVE  /\ \/ state[d] = "Resolved"
                         \/ Active({"head"}, d)
                         \/ InFlight(d)
                         \/ Parked("decl", d) # {}
                      /\ state[d] = "Resolved" /\ prog[d].body # <<>> =>
                         \/ d \in checked
                         \/ Active({"wake", "body"}, d)
                         \/ Parked("body", d) # {}
    BY DEF NothingForgotten
  <2>1. TypeOK /\ DeclRemembered(d) /\ BodyRemembered(d)
    BY DEF TInv, IInv, Tasks, Remembered
  <2>2. OnStack({"head"}, d) => Active({"head"}, d)
    BY <2>1, ActiveIsOnStack
  <2>3. OnStack({"wake", "body"}, d) => Active({"wake", "body"}, d)
    BY <2>1, ActiveIsOnStack
  <2>4. ParkedFor("decl", d) => Parked("decl", d) # {}
    BY <2>1, ParkedIsParkedFor
  <2>5. ParkedFor("body", d) => Parked("body", d) # {}
    BY <2>1, ParkedIsParkedFor
  <2> QED
    BY <2>1, <2>2, <2>3, <2>4, <2>5 DEF DeclRemembered, BodyRemembered
<1> QED
  BY <1>1, TasksInvariance, PTL

LEMMA OneIsParked ==
    ASSUME TypeOK, OnePlace, NEW task, NEW d
    PROVE  Cardinality(Parked(task, d)) <= 1
<1>1. CASE Parked(task, d) = {}
  <2>1. Cardinality({}) = 0
    BY FS_EmptySet
  <2> QED
    BY <1>1, <2>1
<1>2. CASE Parked(task, d) # {}
  <2>1. PICK p : p \in Parked(task, d)
    BY <1>2
  <2>2. ASSUME NEW q \in Parked(task, d)
        PROVE  q = p
    <3>1. PICK i \in Decl : \E k \in 1 .. Len(pending[i]) :
              p = <<i, k>> /\ pending[i][k].task = task /\ pending[i][k].of = d
      BY <2>1, ParkedPlaces
    <3>2. PICK k \in 1 .. Len(pending[i]) :
              p = <<i, k>> /\ pending[i][k].task = task /\ pending[i][k].of = d
      BY <3>1
    <3>3. PICK j \in Decl : \E l \in 1 .. Len(pending[j]) :
              q = <<j, l>> /\ pending[j][l].task = task /\ pending[j][l].of = d
      BY <2>2, ParkedPlaces
    <3>4. PICK l \in 1 .. Len(pending[j]) :
              q = <<j, l>> /\ pending[j][l].task = task /\ pending[j][l].of = d
      BY <3>3
    <3>5. i = j /\ k = l
      BY <3>2, <3>4 DEF OnePlace
    <3> QED
      BY <3>2, <3>4, <3>5
  <2>3. Parked(task, d) = {p}
    BY <2>1, <2>2
  <2>4. Cardinality({p}) = 1
    BY FS_Singleton
  <2> QED
    BY <2>3, <2>4
<1> QED
  BY <1>1, <1>2

\* A suspended check waits in one list, at one place: two symbols never resume
\* the same declaration or the same body.
THEOREM ParkedOnceTheorem == Spec => []ParkedOnce
<1>1. TInv => ParkedOnce
  BY OneIsParked DEF TInv, IInv, Tasks, ParkedOnce
<1> QED
  BY <1>1, TasksInvariance, PTL

-----------------------------------------------------------------------------
(* A success is complete.                                                   *)

\* The ways a compilation ends without tripping an assertion.
LEMMA DoneSteps ==
    ASSUME [Next]_vars, phase' = "done"
    PROVE  UNCHANGED vars \/ Finish \/ (Discover /\ reported')
<1>1. CASE Resolve
  BY <1>1 DEF Resolve, Discover, CheckNext, EnterDecl, TopLevelStatus, BeginDrain
<1>2. CASE \E d \in Decl : DrainEntry(d)
  BY <1>2 DEF DrainEntry
<1>3. CASE Loops
  BY <1>3 DEF Loops, ResumeNext, Resume, EnterDecl, Abort, Resumed, LoopEnds, Looping,
              TopIs
<1>4. CASE Heads
  BY <1>4 DEF Heads, HeadStep, HeadWaits, HeadFails, OwnCheckFails, HeadResolves,
              HeadCrashes, Abort, InHead, TopIs
<1>5. CASE Bodies
  BY <1>5 DEF Bodies, BodyStep, BodyWaits, BodyFails, BodyEnds, BodyCrashes, Abort,
              InBody, TopIs
<1> QED
  BY <1>1, <1>2, <1>3, <1>4, <1>5 DEF Next, Stopped

\* With the stack empty and no worker left, only what is over is remembered.
LEMMA FinishIsComplete ==
    ASSUME TInv, Finish, ~reported, NEW d \in Decl
    PROVE  state[d] = "Resolved" /\ (prog[d].body # <<>> => d \in checked)
<1>1. /\ N \in Nat /\ next = N + 1
      /\ stack = <<>> /\ ret = Running
      /\ \A id \in Decl : pending[id] = <<>>
  BY ConstantsAssumption DEF TInv, Tasks, Ahead, Finish, Idle
<1>2. d < next
  BY <1>1 DEF Decl
<1>3. DeclRemembered(d) /\ BodyRemembered(d)
  BY <1>2 DEF TInv, Tasks, Remembered
<1>4. Len(stack) = 0 /\ \A id \in Decl : Len(pending[id]) = 0
  BY <1>1
<1>5. \A n \in 1 .. 0 : FALSE
  OBVIOUS
<1>6. ~InFlight(d)
  BY <1>1 DEF InFlight
<1>7. \A ops : ~OnStack(ops, d)
  BY <1>4, <1>5 DEF OnStack
<1>8. \A task : ~ParkedFor(task, d)
  BY <1>4, <1>5 DEF ParkedFor
<1> QED
  BY <1>3, <1>6, <1>7, <1>8 DEF DeclRemembered, BodyRemembered

\* A compilation that ends without an error has resolved every declaration and
\* checked every body, however its checks were suspended and resumed: what
\* semactx_resolve returns is what main.cc goes on to lower.
THEOREM SuccessIsCompleteTheorem == Spec => []SuccessIsComplete
<1>1. Init => SuccessIsComplete
  BY DEF Init, SuccessIsComplete, Success
<1>2. TInv /\ SuccessIsComplete /\ [Next]_vars => SuccessIsComplete'
  <2> SUFFICES ASSUME TInv, SuccessIsComplete, [Next]_vars, Success', NEW d \in Decl
               PROVE  /\ state'[d] = "Resolved"
                      /\ prog'[d].body # <<>> => d \in checked'
    BY DEF SuccessIsComplete
  <2>1. CASE UNCHANGED vars
    BY <2>1 DEF SuccessIsComplete, Success, vars
  <2>2. CASE Finish
    <3>1. ~reported /\ UNCHANGED <<prog, state, checked>>
      BY <2>2 DEF Finish, Success
    <3> QED
      BY <2>2, <3>1, FinishIsComplete
  <2> QED
    BY <2>1, <2>2, DoneSteps DEF Success
<1> QED
  BY <1>1, <1>2, TasksInvariance, PTL DEF Spec

-----------------------------------------------------------------------------
(* A settled symbol stays settled.                                          *)

\* The worker a loop resumes is not under another resumption.
LEMMA NextIsNotHeld ==
    ASSUME IInv, stack # <<>>, Loop(1), ret = Running, NEW k
    PROVE  ~Held(stack[1].of, k)
<1> SUFFICES ASSUME NEW n \in 1 .. Len(stack), Resuming(n), stack[n].of = stack[1].of
             PROVE  FALSE
  BY DEF Held
<1>1. n # 1
  BY DEF Resuming
<1>2. 1 \in 1 .. Len(stack)
  BY StackFacts DEF IInv, TypeOK
<1>3. Own(1) /\ Own(n)
  BY DEF Own, Loop, Resuming
<1> QED
  BY <1>1, <1>2, <1>3, OneCheck

\* A declaration is entered when it is met, and then only by a worker that was
\* parked before it failed.
LEMMA ResumedIsOpen ==
    ASSUME TInv, ResumeNext, pending[Top.of][Top.at].task = "decl"
    PROVE  /\ pending[Top.of][Top.at].of \in Decl
           /\ state[pending[Top.of][Top.at].of] # "Failed"
<1>1. /\ stack # <<>> /\ ret = Running /\ Top.op \in {"wake", "drain"}
      /\ Top.at <= Len(pending[Top.of])
  BY DEF ResumeNext, Looping, TopIs
<1>2. Top \in Frame /\ stack[1] = Top
  BY <1>1, TopType DEF TInv, IInv
<1>3. Loop(1)
  BY <1>1, <1>2 DEF Loop
<1>4. /\ Top.of \in Decl /\ Top.at \in Nat \ {0}
      /\ pending \in [Decl -> Seq(Worker)]
  BY <1>2 DEF Frame, TInv, IInv, TypeOK
<1>5. Top.at \in 1 .. Len(pending[Top.of])
  BY <1>1, <1>4
<1>6. ~Held(Top.of, Top.at)
  BY <1>1, <1>2, <1>3, NextIsNotHeld DEF TInv
<1>7. Rests(Top.of, Top.at)
  BY <1>4, <1>5 DEF TInv, Tasks, AllRest
<1> QED
  BY <1>4, <1>5, <1>6, <1>7, PlaceFacts DEF Rests

LEMMA NextIsOpen ==
    ASSUME TInv, CheckNext
    PROVE  next \in Decl /\ state[next] = "Unresolved"
<1>1. next \in Decl /\ next >= next
  BY DEF CheckNext, Decl
<1> QED
  BY <1>1 DEF TInv, Tasks, Ahead

\* What a step does to the state of the declarations: it opens one, resolves the
\* running one, or fails it with a report.
Opens(d) ==
    /\ state[d] \in {"Unresolved", "Resolving"}
    /\ \E v \in {"Unresolved", "Resolving"} : state' = [state EXCEPT ![d] = v]

Resolves(d) ==
    /\ state[d] = "Resolving"
    /\ state' = [state EXCEPT ![d] = "Resolved"]

Fails(d) ==
    /\ state[d] \in {"Resolving", "Resolved"}
    /\ state' = [state EXCEPT ![d] = "Failed"]
    /\ reported'

LEMMA EnterOpens ==
    ASSUME TypeOK, NEW d \in Decl, NEW resumed, EnterDecl(d, resumed), state[d] # "Failed"
    PROVE  state' = state \/ Opens(d)
  BY DEF EnterDecl, Opens, TypeOK, SymbolState

LEMMA HeadState ==
    ASSUME IInv, InHead
    PROVE  Top.of \in Decl /\ state[Top.of] = "Resolving"
<1>1. stack # <<>> /\ Checks(1) /\ Top.op = "head" /\ stack[1] = Top /\ Top.of \in Decl
  BY HeadFacts
<1>2. 1 \in 1 .. Len(stack)
  BY <1>1, StackFacts DEF IInv, TypeOK
<1> QED
  BY <1>1, <1>2 DEF Checks, IInv, Control, ActivationState

LEMMA FailHeadState ==
    ASSUME IInv, InHead, FailHead
    PROVE  reported' /\ (Opens(Top.of) \/ Fails(Top.of))
<1>1. Top.of \in Decl /\ state[Top.of] = "Resolving"
  BY HeadState
<1> QED
  BY <1>1 DEF FailHead, Broken, Opens, Fails

LEMMA HeadsState ==
    ASSUME IInv, Heads
    PROVE  state' = state \/ \E d \in Decl : Opens(d) \/ Resolves(d) \/ Fails(d)
<1>1. CASE HeadStep \/ HeadCrashes
  BY <1>1 DEF HeadStep, HeadCrashes, Abort
<1>2. CASE HeadWaits
  <2>1. Top.of \in Decl /\ state[Top.of] = "Resolving"
    BY <1>2, HeadState DEF HeadWaits
  <2>2. Opens(Top.of)
    BY <1>2, <2>1 DEF HeadWaits, Suspended, Opens
  <2> QED
    BY <2>1, <2>2
<1>3. CASE HeadFails \/ OwnCheckFails
  <2>1. InHead /\ FailHead
    BY <1>3 DEF HeadFails, OwnCheckFails
  <2> QED
    BY <2>1, HeadState, FailHeadState
<1>4. CASE HeadResolves
  <2>1. Top.of \in Decl /\ state[Top.of] = "Resolving"
    BY <1>4, HeadState DEF HeadResolves
  <2>2. Resolves(Top.of)
    BY <1>4, <2>1 DEF HeadResolves, Resolves
  <2> QED
    BY <2>1, <2>2
<1> QED
  BY <1>1, <1>2, <1>3, <1>4 DEF Heads

LEMMA BodiesState ==
    ASSUME IInv, Bodies
    PROVE  state' = state \/ \E d \in Decl : Fails(d)
<1>1. CASE BodyFails
  <2>1. Top.of \in Decl /\ (Top.own => state[Top.of] = "Resolved")
    BY <1>1, BodyFacts DEF BodyFails
  <2>2. Top.own => Fails(Top.of)
    BY <1>1, <2>1 DEF BodyFails, Fails
  <2>3. ~Top.own => state' = state
    BY <1>1 DEF BodyFails
  <2> QED
    BY <2>1, <2>2, <2>3
<1>2. CASE BodyStep \/ BodyWaits \/ BodyEnds \/ BodyCrashes
  BY <1>2 DEF BodyStep, BodyWaits, BodyEnds, BodyCrashes, Abort
<1> QED
  BY <1>1, <1>2 DEF Bodies

LEMMA LoopsState ==
    ASSUME TInv, Loops
    PROVE  state' = state \/ \E d \in Decl : Opens(d)
<1>1. CASE ResumeNext
  <2> DEFINE w == pending[Top.of][Top.at]
  <2>1. Resume(w)
    BY <1>1 DEF ResumeNext
  <2> HIDE DEF w
  <2>2. CASE w.task = "decl" /\ EnterDecl(w.of, TRUE)
    <3>1. w.of \in Decl /\ state[w.of] # "Failed"
      BY <1>1, <2>2, ResumedIsOpen DEF w
    <3> QED
      BY <2>2, <3>1, EnterOpens DEF TInv, IInv
  <2>3. CASE UNCHANGED state
    BY <2>3
  <2> QED
    BY <2>1, <2>2, <2>3 DEF Resume, Abort
<1>2. CASE Resumed \/ LoopEnds
  BY <1>2 DEF Resumed, LoopEnds
<1> QED
  BY <1>1, <1>2 DEF Loops

LEMMA StateSteps ==
    ASSUME TInv, [Next]_vars
    PROVE  state' = state \/ \E d \in Decl : Opens(d) \/ Resolves(d) \/ Fails(d)
<1>1. CASE Resolve
  <2>1. CASE CheckNext
    <3>1. next \in Decl /\ state[next] = "Unresolved" /\ EnterDecl(next, FALSE)
      BY <2>1, NextIsOpen DEF CheckNext
    <3> QED
      BY <3>1, EnterOpens DEF TInv, IInv
  <2>2. CASE Discover \/ TopLevelStatus \/ BeginDrain \/ Finish
    BY <2>2 DEF Discover, TopLevelStatus, BeginDrain, Finish
  <2> QED
    BY <1>1, <2>1, <2>2 DEF Resolve
<1>2. CASE \E d \in Decl : DrainEntry(d)
  BY <1>2 DEF DrainEntry
<1>3. CASE Loops
  BY <1>3, LoopsState
<1>4. CASE Heads
  BY <1>4, HeadsState DEF TInv
<1>5. CASE Bodies
  BY <1>5, BodiesState DEF TInv
<1>6. CASE UNCHANGED vars
  BY <1>6 DEF vars
<1> QED
  BY <1>1, <1>2, <1>3, <1>4, <1>5, <1>6 DEF Next, Stopped

\* No step tries a failed declaration again, and the one change a resolved one
\* knows is to fail with a report: the workers left in the lists are never those
\* of a symbol that failed.
THEOREM SettledTheorem == Spec => SettledStaysSettled
<1>1. TInv /\ [Next]_vars =>
        [\A d \in Decl :
           /\ state[d] = "Failed" => state'[d] = "Failed"
           /\ state[d] = "Resolved" => \/ state'[d] = "Resolved"
                                       \/ state'[d] = "Failed" /\ reported']_vars
  <2> SUFFICES ASSUME TInv, [Next]_vars, NEW d \in Decl
               PROVE  /\ state[d] = "Failed" => state'[d] = "Failed"
                      /\ state[d] = "Resolved" => \/ state'[d] = "Resolved"
                                                  \/ state'[d] = "Failed" /\ reported'
    OBVIOUS
  <2>1. state \in [Decl -> SymbolState]
    BY DEF TInv, IInv, TypeOK
  <2>2. CASE state' = state
    BY <2>2
  <2>3. ASSUME NEW e \in Decl, Opens(e) \/ Resolves(e) \/ Fails(e)
        PROVE  /\ state[d] = "Failed" => state'[d] = "Failed"
               /\ state[d] = "Resolved" => \/ state'[d] = "Resolved"
                                           \/ state'[d] = "Failed" /\ reported'
    <3>1. CASE d = e
      BY <2>1, <2>3, <3>1 DEF Opens, Resolves, Fails
    <3>2. CASE d # e
      BY <2>1, <2>3, <3>2 DEF Opens, Resolves, Fails
    <3> QED
      BY <3>1, <3>2
  <2> QED
    BY <2>2, <2>3, StateSteps
<1> QED
  BY <1>1, TasksInvariance, PTL DEF Spec, SettledStaysSettled

-----------------------------------------------------------------------------
(* The scheduler implements Resolution.                                     *)

\* The mapping, and what a change of the state is under it.
Needs == [d \in Decl |-> Depends(d)]
Settlements == [d \in Decl |-> Settlement(d)]

LEMMA SettlementOf ==
    ASSUME TypeOK, NEW d \in Decl
    PROVE  /\ Settlement(d) = "open" <=> state[d] \in {"Unresolved", "Resolving"}
           /\ Settlement(d) = "resolved" <=> state[d] = "Resolved"
           /\ Settlement(d) = "failed" <=> state[d] = "Failed"
<1>1. state[d] \in {"Unresolved", "Resolving", "Resolved", "Failed"}
  BY DEF TypeOK, SymbolState
<1> QED
  BY <1>1 DEF Settlement

LEMMA SameSettlement ==
    ASSUME NEW d, state'[d] = state[d]
    PROVE  Settlement(d)' = Settlement(d)
  BY DEF Settlement

LEMMA OpensSettles ==
    ASSUME TypeOK, TypeOK', NEW d \in Decl, Opens(d)
    PROVE  Settlements' = Settlements
<1>1. state \in [Decl -> SymbolState]
  BY DEF TypeOK
<1>2. \A e \in Decl : Settlement(e)' = Settlement(e)
  <2> SUFFICES ASSUME NEW e \in Decl PROVE Settlement(e)' = Settlement(e)
    OBVIOUS
  <2>1. CASE e = d
    <3>1. state[e] \in {"Unresolved", "Resolving"} /\ state'[e] \in {"Unresolved", "Resolving"}
      BY <1>1, <2>1 DEF Opens
    <3> QED
      BY <3>1 DEF Settlement
  <2>2. CASE e # d
    <3>1. state'[e] = state[e]
      BY <1>1, <2>2 DEF Opens
    <3> QED
      BY <3>1, SameSettlement
  <2> QED
    BY <2>1, <2>2
<1> QED
  BY <1>2 DEF Settlements

\* A declaration is settled, the others are left alone.
LEMMA SettlesOne ==
    ASSUME NEW d \in Decl, NEW v, Settlement(d)' = v,
           \A e \in Decl : e # d => state'[e] = state[e]
    PROVE  Settlements' = [Settlements EXCEPT ![d] = v]
<1>1. \A e \in Decl : e # d => Settlement(e)' = Settlement(e)
  BY SameSettlement
<1> QED
  BY <1>1 DEF Settlements

LEMMA ResolvesSettles ==
    ASSUME TypeOK, NEW d \in Decl, Resolves(d)
    PROVE  /\ Settlement(d) = "open"
           /\ Settlements' = [Settlements EXCEPT ![d] = "resolved"]
<1>1. state \in [Decl -> SymbolState]
  BY DEF TypeOK
<1>2. /\ state[d] = "Resolving" /\ state'[d] = "Resolved"
      /\ \A e \in Decl : e # d => state'[e] = state[e]
  BY <1>1 DEF Resolves
<1>3. Settlement(d) = "open" /\ Settlement(d)' = "resolved"
  BY <1>2 DEF Settlement
<1> QED
  BY <1>2, <1>3, SettlesOne

LEMMA FailsSettles ==
    ASSUME TypeOK, NEW d \in Decl, Fails(d)
    PROVE  /\ Settlement(d) \in {"open", "resolved"}
           /\ Settlements' = [Settlements EXCEPT ![d] = "failed"]
<1>1. state \in [Decl -> SymbolState]
  BY DEF TypeOK
<1>2. /\ state[d] \in {"Resolving", "Resolved"} /\ state'[d] = "Failed"
      /\ \A e \in Decl : e # d => state'[e] = state[e]
  BY <1>1 DEF Fails
<1>3. Settlement(d) \in {"open", "resolved"} /\ Settlement(d)' = "failed"
  BY <1>2 DEF Settlement
<1> QED
  BY <1>2, <1>3, SettlesOne

\* The steps of the abstract specification in the terms of the concrete one.
Undecided == phase \in {"discover", "check", "drain"}

LEMMA AbstractStutter ==
    ASSUME prog' = prog, Settlements' = Settlements, reported' = reported,
           Outcome' = Outcome
    PROVE  UNCHANGED Contract!vars
<1>1. Needs' = Needs
  BY DEF Needs, Depends
<1> QED
  BY <1>1 DEF Contract!vars, Settlements, Needs

LEMMA AbstractResolve ==
    ASSUME Undecided, Undecided', NEW d \in Decl, UNCHANGED <<prog, reported>>,
           Settlement(d) = "open", Settlements' = [Settlements EXCEPT ![d] = "resolved"],
           Depends(d) \subseteq {e \in Decl : Settlement(e) # "open"}
    PROVE  Contract!Resolve(d)
<1>1. Needs' = Needs /\ Needs[d] = Depends(d)
  BY DEF Needs, Depends
<1>2. Outcome = "none" /\ Outcome' = "none"
  BY DEF Outcome, Undecided, Crash
<1> QED
  BY <1>1, <1>2 DEF Contract!Resolve, Contract!Settled, Settlements, Needs

LEMMA AbstractFail ==
    ASSUME Undecided, Undecided', NEW d \in Decl, prog' = prog,
           reported', reported' \in BOOLEAN,
           Settlement(d) \in {"open", "resolved"},
           Settlements' = [Settlements EXCEPT ![d] = "failed"]
    PROVE  Contract!Fail(d)
<1>1. Needs' = Needs
  BY DEF Needs, Depends
<1>2. Outcome = "none" /\ Outcome' = "none"
  BY DEF Outcome, Undecided, Crash
<1>3. reported' = TRUE
  OBVIOUS
<1> QED
  BY <1>1, <1>2, <1>3 DEF Contract!Fail, Settlements, Needs

LEMMA AbstractReport ==
    ASSUME Undecided, Undecided', prog' = prog, reported', reported' \in BOOLEAN,
           Settlements' = Settlements
    PROVE  Contract!Report
<1>1. Needs' = Needs
  BY DEF Needs, Depends
<1>2. Outcome = "none" /\ Outcome' = "none"
  BY DEF Outcome, Undecided, Crash
<1> QED
  BY <1>1, <1>2 DEF Contract!Report, Settlements, Needs

LEMMA AbstractAbort ==
    ASSUME Undecided, phase' \in Crash, UNCHANGED <<prog, state, reported>>
    PROVE  Contract!Abort
<1>1. Needs' = Needs /\ Settlements' = Settlements
  BY DEF Needs, Depends, Settlements, Settlement
<1>2. Outcome = "none" /\ Outcome' = "aborted"
  BY DEF Outcome, Undecided, Crash
<1> QED
  BY <1>1, <1>2 DEF Contract!Abort, Settlements, Needs

\* The steps that leave the phase alone.
LEMMA OpeningStep ==
    ASSUME TypeOK, TypeOK', Undecided, UNCHANGED <<prog, phase>>,
           state' = state \/ \E d \in Decl : Opens(d),
           \/ reported' = reported
           \/ reported' = TRUE
    PROVE  Contract!Next \/ UNCHANGED Contract!vars
<1>1. Settlements' = Settlements
  <2>1. CASE state' = state
    BY <2>1 DEF Settlements, Settlement
  <2> QED
    BY <2>1, OpensSettles
<1>2. Undecided' /\ reported' \in BOOLEAN
  BY DEF Undecided, TypeOK
<1>3. CASE reported' = reported
  <2>1. Outcome' = Outcome
    BY <1>3 DEF Outcome
  <2> QED
    BY <1>1, <1>3, <2>1, AbstractStutter
<1>4. CASE reported' = TRUE
  <2>1. Contract!Report
    BY <1>1, <1>2, <1>4, AbstractReport
  <2> QED
    BY <2>1 DEF Contract!Next
<1> QED
  BY <1>3, <1>4

LEMMA FailingStep ==
    ASSUME TypeOK, TypeOK', Undecided, UNCHANGED <<prog, phase>>,
           NEW d \in Decl, Fails(d)
    PROVE  Contract!Next
<1>1. Undecided' /\ reported' /\ reported' \in BOOLEAN
  BY DEF Undecided, Fails, TypeOK
<1>2. Contract!Fail(d)
  BY <1>1, FailsSettles, AbstractFail
<1> QED
  BY <1>2 DEF Contract!Next

LEMMA AbortingStep ==
    ASSUME Undecided, NEW why \in Crash, Abort(why)
    PROVE  Contract!Next
<1>1. Contract!Abort
  BY AbstractAbort DEF Abort
<1> QED
  BY <1>1 DEF Contract!Next

\* A declaration is resolved when the names it depends on are settled.
LEMMA ResolvingStep ==
    ASSUME TInv, TInv', HeadResolves
    PROVE  Contract!Next
<1> DEFINE d == Top.of
<1>1. /\ InHead /\ ~NamesLeft /\ UNCHANGED <<prog, phase, reported>>
      /\ state' = [state EXCEPT ![d] = "Resolved"]
  BY DEF HeadResolves
<1>2. d \in Decl /\ state[d] = "Resolving"
  BY <1>1, HeadState DEF TInv
<1>3. /\ stack # <<>> /\ Top.op = "head" /\ stack[1] = Top /\ Top \in Frame
      /\ phase \in {"check", "drain"}
  BY <1>1, HeadFacts DEF TInv
<1> HIDE DEF d
<1>4. Resolves(d)
  BY <1>1, <1>2 DEF Resolves
<1>5. Settlement(d) = "open" /\ Settlements' = [Settlements EXCEPT ![d] = "resolved"]
  BY <1>2, <1>4, ResolvesSettles DEF TInv, IInv
<1>6. Depends(d) \subseteq {e \in Decl : Settlement(e) # "open"}
  <2> SUFFICES ASSUME NEW n \in DOMAIN prog[d].head
               PROVE  /\ prog[d].head[n] \in Decl
                      /\ Settlement(prog[d].head[n]) # "open"
    BY DEF Depends
  <2>1. /\ prog[d].head \in Seq(Ref)
        /\ n \in Nat /\ n <= Len(prog[d].head)
    <3>1. prog[d].head \in Seq(Ref)
      BY <1>2 DEF TInv, IInv, TypeOK, Program, Declaration
    <3> QED
      BY <3>1
  <2>2. n < Top.at
    BY <1>1, <1>3, <2>1 DEF NamesLeft, d, Frame
  <2>3. /\ prog[d].head[n] \in Decl
        /\ state[prog[d].head[n]] \in {"Resolved", "Failed"}
    BY <1>3, <2>2 DEF TInv, Tasks, NamesSettled, d
  <2> QED
    BY <2>3, SettlementOf DEF TInv, IInv
<1>7. Undecided /\ Undecided'
  BY <1>1, <1>3 DEF Undecided
<1>8. Contract!Resolve(d)
  BY <1>1, <1>2, <1>5, <1>6, <1>7, AbstractResolve
<1> QED
  BY <1>2, <1>8 DEF Contract!Next

\* What each part of the scheduler does, in the terms of Resolution.
LEMMA ConclusionImplements ==
    ASSUME TInv, TInv', Discover \/ BeginDrain \/ Finish
    PROVE  Contract!Next \/ UNCHANGED Contract!vars
<1>1. /\ Undecided /\ Outcome = "none"
      /\ prog' = prog /\ state' = state
  BY DEF Discover, BeginDrain, Finish, Undecided, Outcome, Crash
<1>2. Needs' = Needs /\ Settlements' = Settlements
  BY <1>1 DEF Needs, Depends, Settlements, Settlement
<1>3. reported \in BOOLEAN /\ reported' \in BOOLEAN
  BY DEF TInv, IInv, TypeOK
<1>4. ASSUME reported', phase' = "done"
      PROVE  Contract!Next
  <2>1. Outcome' = "errors"
    BY <1>4 DEF Outcome, Crash
  <2>2. Contract!Reject
    BY <1>1, <1>2, <1>3, <1>4, <2>1 DEF Contract!Reject, Settlements, Needs
  <2> QED
    BY <2>2 DEF Contract!Next
<1>5. CASE Discover
  <2>1. ~reported
    BY <1>5 DEF Discover, TInv, Tasks, Ahead
  <2>2. CASE reported'
    BY <1>4, <1>5, <2>2 DEF Discover
  <2>3. CASE ~reported'
    <3>1. phase' = "check" /\ reported' = reported
      BY <1>3, <1>5, <2>1, <2>3 DEF Discover
    <3>2. Outcome' = "none"
      BY <3>1 DEF Outcome, Crash
    <3> QED
      BY <1>1, <1>2, <3>1, <3>2, AbstractStutter
  <2> QED
    BY <2>2, <2>3
<1>6. CASE BeginDrain
  <2>1. phase' = "drain" /\ reported' = reported
    BY <1>6 DEF BeginDrain
  <2>2. Outcome' = "none"
    BY <2>1 DEF Outcome, Crash
  <2> QED
    BY <1>1, <1>2, <2>1, <2>2, AbstractStutter
<1>7. CASE Finish
  <2>1. phase' = "done" /\ reported' = reported
    BY <1>7 DEF Finish
  <2>2. CASE reported
    BY <1>4, <2>1, <2>2
  <2>3. CASE ~reported
    <3>1. Outcome' = "success"
      BY <2>1, <2>3 DEF Outcome, Crash
    <3>2. \A d \in Decl : Settlement(d) = "resolved"
      BY <1>7, <2>3, FinishIsComplete, SettlementOf DEF TInv, IInv
    <3>3. \A d \in Decl : Settlements[d] = "resolved"
      BY <3>2 DEF Settlements
    <3>4. Contract!Succeed
      BY <1>1, <1>2, <2>1, <2>3, <3>1, <3>3 DEF Contract!Succeed, Settlements, Needs
    <3> QED
      BY <3>4 DEF Contract!Next
  <2> QED
    BY <2>2, <2>3
<1> QED
  BY <1>5, <1>6, <1>7

LEMMA ResolveImplements ==
    ASSUME TInv, TInv', Resolve
    PROVE  Contract!Next \/ UNCHANGED Contract!vars
<1>1. CASE CheckNext \/ TopLevelStatus
  <2>1. Undecided /\ UNCHANGED <<prog, phase, reported>>
    BY <1>1 DEF CheckNext, TopLevelStatus, EnterDecl, Undecided
  <2>2. state' = state \/ \E d \in Decl : Opens(d)
    <3>1. CASE CheckNext
      <4>1. next \in Decl /\ state[next] = "Unresolved" /\ EnterDecl(next, FALSE)
        BY <3>1, NextIsOpen DEF CheckNext
      <4> QED
        BY <4>1, EnterOpens DEF TInv, IInv
    <3>2. CASE TopLevelStatus
      BY <3>2 DEF TopLevelStatus
    <3> QED
      BY <1>1, <3>1, <3>2
  <2> QED
    BY <2>1, <2>2, OpeningStep DEF TInv, IInv
<1>2. CASE Discover \/ BeginDrain \/ Finish
  BY <1>2, ConclusionImplements
<1> QED
  BY <1>1, <1>2 DEF Resolve

LEMMA DrainImplements ==
    ASSUME TInv, TInv', NEW d \in Decl, DrainEntry(d)
    PROVE  Contract!Next \/ UNCHANGED Contract!vars
<1>1. Undecided /\ UNCHANGED <<prog, phase, reported, state>>
  BY DEF DrainEntry, Undecided
<1> QED
  BY <1>1, OpeningStep DEF TInv, IInv

LEMMA LoopsImplement ==
    ASSUME TInv, TInv', Loops
    PROVE  Contract!Next \/ UNCHANGED Contract!vars
<1>1. Undecided
  BY DEF Loops, ResumeNext, Resumed, LoopEnds, Looping, TopIs, Undecided
<1>2. \/ UNCHANGED <<prog, phase, reported>>
      \/ \E why \in Crash : Abort(why)
  BY DEF Loops, ResumeNext, Resume, EnterDecl, Resumed, LoopEnds, Crash
<1>3. CASE \E why \in Crash : Abort(why)
  BY <1>1, <1>3, AbortingStep
<1>4. CASE UNCHANGED <<prog, phase, reported>>
  BY <1>1, <1>4, LoopsState, OpeningStep DEF TInv, IInv
<1> QED
  BY <1>2, <1>3, <1>4

LEMMA HeadsImplement ==
    ASSUME TInv, TInv', Heads
    PROVE  Contract!Next \/ UNCHANGED Contract!vars
<1>1. Undecided
  BY DEF Heads, HeadStep, HeadWaits, HeadFails, OwnCheckFails, HeadResolves, HeadCrashes,
         InHead, TopIs, Undecided
<1>2. CASE HeadStep
  <2>1. UNCHANGED <<prog, phase, reported, state>>
    BY <1>2 DEF HeadStep
  <2> QED
    BY <1>1, <2>1, OpeningStep DEF TInv, IInv
<1>3. CASE HeadWaits
  <2>1. UNCHANGED <<prog, phase, reported>> /\ Top.of \in Decl /\ state[Top.of] = "Resolving"
    BY <1>3, HeadState DEF HeadWaits, TInv
  <2>2. Opens(Top.of)
    BY <1>3, <2>1 DEF HeadWaits, Suspended, Opens
  <2> QED
    BY <1>1, <2>1, <2>2, OpeningStep DEF TInv, IInv
<1>4. CASE HeadFails \/ OwnCheckFails
  <2>1. InHead /\ FailHead /\ UNCHANGED <<prog, phase>> /\ reported' = TRUE
    BY <1>4 DEF HeadFails, OwnCheckFails, FailHead
  <2>2. Top.of \in Decl /\ (Opens(Top.of) \/ Fails(Top.of))
    BY <2>1, HeadState, FailHeadState DEF TInv
  <2>3. CASE Opens(Top.of)
    BY <1>1, <2>1, <2>2, <2>3, OpeningStep DEF TInv, IInv
  <2>4. CASE Fails(Top.of)
    BY <1>1, <2>1, <2>2, <2>4, FailingStep DEF TInv, IInv
  <2> QED
    BY <2>2, <2>3, <2>4
<1>5. CASE HeadResolves
  BY <1>5, ResolvingStep
<1>6. CASE HeadCrashes
  <2>1. \E why \in Crash : Abort(why)
    BY <1>6 DEF HeadCrashes, Crash
  <2> QED
    BY <1>1, <2>1, AbortingStep
<1> QED
  BY <1>2, <1>3, <1>4, <1>5, <1>6 DEF Heads

LEMMA BodiesImplement ==
    ASSUME TInv, TInv', Bodies
    PROVE  Contract!Next \/ UNCHANGED Contract!vars
<1>1. Undecided
  BY DEF Bodies, BodyStep, BodyWaits, BodyFails, BodyEnds, BodyCrashes, InBody, TopIs,
         Undecided
<1>2. CASE BodyStep \/ BodyWaits \/ BodyEnds
  <2>1. UNCHANGED <<prog, phase, reported, state>>
    BY <1>2 DEF BodyStep, BodyWaits, BodyEnds
  <2> QED
    BY <1>1, <2>1, OpeningStep DEF TInv, IInv
<1>3. CASE BodyFails
  <2>1. UNCHANGED <<prog, phase>> /\ reported' = TRUE
    BY <1>3 DEF BodyFails
  <2>2. Top.of \in Decl /\ (Top.own => state[Top.of] = "Resolved")
    BY <1>3, BodyFacts DEF BodyFails, TInv
  <2>3. CASE Top.own
    <3>1. Fails(Top.of)
      BY <1>3, <2>2, <2>3 DEF BodyFails, Fails
    <3> QED
      BY <1>1, <2>1, <2>2, <3>1, FailingStep DEF TInv, IInv
  <2>4. CASE ~Top.own
    <3>1. state' = state
      BY <1>3, <2>4 DEF BodyFails
    <3> QED
      BY <1>1, <2>1, <3>1, OpeningStep DEF TInv, IInv
  <2> QED
    BY <2>3, <2>4
<1>4. CASE BodyCrashes
  <2>1. \E why \in Crash : Abort(why)
    BY <1>4 DEF BodyCrashes, Crash
  <2> QED
    BY <1>1, <2>1, AbortingStep
<1> QED
  BY <1>2, <1>3, <1>4 DEF Bodies

LEMMA VarsImplement ==
    ASSUME UNCHANGED vars
    PROVE  UNCHANGED Contract!vars
<1>1. /\ prog' = prog /\ reported' = reported /\ Outcome' = Outcome
      /\ Settlements' = Settlements
  BY DEF vars, Outcome, Settlements, Settlement
<1> QED
  BY <1>1, AbstractStutter

\* The checks that semactx_resolve suspends and resumes settle the declarations as
\* if these had been written in an order of their dependencies: every step of the
\* scheduler is a step of Resolution or changes nothing it sees.
THEOREM MeetsContractTheorem == Spec => MeetsContract
<1>1. Init => Contract!Init
  BY DEF Init, Contract!Init, Settlement, Outcome, Crash
<1>2. TInv /\ TInv' /\ [Next]_vars => [Contract!Next]_(Contract!vars)
  <2> SUFFICES ASSUME TInv, TInv', [Next]_vars
               PROVE  Contract!Next \/ UNCHANGED Contract!vars
    OBVIOUS
  <2>1. CASE Resolve
    BY <2>1, ResolveImplements
  <2>2. CASE \E d \in Decl : DrainEntry(d)
    BY <2>2, DrainImplements
  <2>3. CASE Loops
    BY <2>3, LoopsImplement
  <2>4. CASE Heads
    BY <2>4, HeadsImplement
  <2>5. CASE Bodies
    BY <2>5, BodiesImplement
  <2>6. CASE UNCHANGED vars
    BY <2>6, VarsImplement
  <2> QED
    BY <2>1, <2>2, <2>3, <2>4, <2>5, <2>6 DEF Next, Stopped
<1> QED
  BY <1>1, <1>2, TasksInvariance, PTL DEF Spec, MeetsContract, Contract!Spec

=============================================================================
