--------------------------- MODULE WorkersProofs ---------------------------
(***************************************************************************)
(* Theorems about Workers, for every number of declarations and every set  *)
(* of programs.                                                            *)
(***************************************************************************)
EXTENDS Workers, SequenceLemmas

-----------------------------------------------------------------------------
(* The inductive invariant.  TypeOK is not inductive by itself: a worker    *)
(* removed at an index outside its list would not leave a list of workers.  *)

\* Only the running activation is before its symbol's resolution.
HeadOnTop == \A n \in 2 .. Len(stack) : stack[n].op # "head"

\* The activations of one declaration's own check, and the loops over its
\* workers; a worker's resumption of a body is neither.
Own(n) == stack[n].op # "body" \/ stack[n].own

OneActivation ==
    \A m, n \in 1 .. Len(stack) :
        Own(m) /\ Own(n) /\ stack[m].of = stack[n].of => m = n

ActivationState ==
    \A n \in 1 .. Len(stack) : Own(n) =>
        state[stack[n].of] =
            IF stack[n].op = "head" THEN "Resolving" ELSE "Resolved"

PlacesValid ==
    \A n \in 1 .. Len(stack) : Loop(n) /\ (n > 1 \/ ret # Running) =>
        stack[n].at \in 1 .. Len(pending[stack[n].of])

\* The names already met by the running check have types.
NamesMet ==
    stack # <<>> /\ stack[1].op = "head" =>
        \A n \in DOMAIN prog[stack[1].of].head :
            n < stack[1].at => prog[stack[1].of].head[n] \in linked

Control ==
    /\ HeadOnTop
    /\ OneActivation
    /\ ActivationState
    /\ PlacesValid
    /\ ResolvingIsRunning
    /\ NamesMet
    /\ TypesKnown

\* The first top-level statement finds nothing running.
Started == phase = "discover" \/ (phase = "check" /\ next = 1) => Idle

IInv == TypeOK /\ Control /\ Started

-----------------------------------------------------------------------------
(* What each kind of step on the stack preserves.                           *)

\* The activations stay, and so does what they are about.
LEMMA StayStep ==
    ASSUME Control,
           UNCHANGED <<prog, state, linked, pending, stack, ret>>
    PROVE  Control'
  BY DEF Control, HeadOnTop, OneActivation, ActivationState, PlacesValid, Own,
         Loop, ResolvingIsRunning, NamesMet, TypesKnown, Top

\* The running activation returns, leaving its symbol unresolved if it has
\* not resolved it already.
LEMMA PopStep ==
    ASSUME TypeOK, Control, stack # <<>>, stack' = Tail(stack),
           UNCHANGED <<prog, linked>>,
           pending' \in [Decl -> Seq(Worker)],
           \A d \in Decl : Len(pending[d]) <= Len(pending'[d]),
           \/ state' = state /\ Top.op # "head"
           \/ /\ Own(1)
              /\ \E v \in SymbolState \ {"Resolved"} :
                    /\ state' = [state EXCEPT ![Top.of] = v]
                    /\ v = "Resolving" => prog[Top.of].kind = "struct"
    PROVE  Control'
<1>1. /\ stack \in Seq(Frame)
      /\ state \in [Decl -> SymbolState]
      /\ pending \in [Decl -> Seq(Worker)]
  BY DEF TypeOK
<1>2. /\ Len(stack) \in Nat \ {0}
      /\ Top = stack[1]
      /\ Top \in Frame
      /\ stack' \in Seq(Frame)
      /\ Len(stack') = Len(stack) - 1
      /\ \A n \in 1 .. Len(stack') : stack'[n] = stack[n + 1] /\ stack'[n] \in Frame
  BY <1>1, PopProperties DEF Top
<1>3. Top.of \in Decl
  BY <1>2 DEF Frame
<1>4. \A n \in 1 .. Len(stack') : stack'[n].op # "head"
  BY <1>2 DEF Control, HeadOnTop
<1>5. HeadOnTop'
  <2> SUFFICES ASSUME NEW n \in 2 .. Len(stack') PROVE stack'[n].op # "head"
    BY DEF HeadOnTop
  <2>1. Len(stack') \in Nat
    BY <1>2
  <2>2. n \in 1 .. Len(stack')
    BY <2>1
  <2> QED
    BY <1>4, <2>2
<1>12. NamesMet'
  <2>1. stack' # <<>> => Len(stack') \in Nat \ {0}
    BY <1>2, EmptySeq
  <2>2. stack' # <<>> => 1 \in 1 .. Len(stack')
    BY <2>1
  <2>3. stack' # <<>> => stack'[1].op # "head"
    BY <1>4, <2>2
  <2> QED
    BY <2>3 DEF NamesMet
<1>6. OneActivation'
  BY <1>2 DEF Control, OneActivation, Own
<1>7. \A n \in 1 .. Len(stack') : Own(n)' => state'[stack'[n].of] = state[stack'[n].of]
  <2> SUFFICES ASSUME NEW n \in 1 .. Len(stack'), Own(n)'
               PROVE  state'[stack'[n].of] = state[stack'[n].of]
    OBVIOUS
  <2>1. Own(n + 1) /\ stack'[n].of = stack[n + 1].of /\ stack'[n].of \in Decl
    BY <1>2 DEF Own, Frame
  <2>2. Own(1) => stack[1].of # stack'[n].of
    BY <1>2, <2>1 DEF Control, OneActivation
  <2> QED
    BY <1>1, <1>2, <2>1, <2>2
<1>8. ActivationState'
  BY <1>2, <1>4, <1>7 DEF Control, ActivationState, Own
<1>9. PlacesValid'
  <2> SUFFICES ASSUME NEW n \in 1 .. Len(stack'), Loop(n)'
               PROVE  stack'[n].at \in 1 .. Len(pending'[stack'[n].of])
    BY DEF PlacesValid
  <2>1. stack[n + 1].at \in 1 .. Len(pending[stack[n + 1].of])
    BY <1>2 DEF Control, PlacesValid, Loop
  <2> DEFINE d == stack[n + 1].of
  <2>2. d \in Decl /\ stack'[n].of = d
    BY <1>2 DEF Frame
  <2>3. Len(pending[d]) \in Nat /\ Len(pending'[d]) \in Nat
    BY <1>1, <2>2
  <2> QED
    BY <1>2, <2>1, <2>2, <2>3
<1>10. ResolvingIsRunning'
  BY <1>1, <1>2, <1>3 DEF Control, ResolvingIsRunning
<1>11. TypesKnown'
  BY <1>1, <1>3 DEF Control, TypesKnown, SymbolState
<1> QED
  BY <1>5, <1>6, <1>8, <1>9, <1>10, <1>11, <1>12 DEF Control

LEMMA PushedStack ==
    ASSUME TypeOK, NEW f \in Frame
    PROVE  /\ Cons(f, stack) \in Seq(Frame)
           /\ Cons(f, stack) # <<>>
           /\ Len(Cons(f, stack)) = Len(stack) + 1
           /\ Cons(f, stack)[1] = f
           /\ \A n \in 2 .. Len(stack) + 1 : Cons(f, stack)[n] = stack[n - 1]
<1>1. stack \in Seq(Frame)
  BY DEF TypeOK
<1> QED
  BY <1>1, PushProperties

\* An activation starts, over nothing or over a loop in the middle of its list.
LEMMA PushStep ==
    ASSUME TypeOK, Control, NEW f \in Frame, stack' = Cons(f, stack),
           stack # <<>> => Loop(1) /\ stack[1].at \in 1 .. Len(pending[stack[1].of]),
           ret' = Running, UNCHANGED <<prog, pending>>, linked \subseteq linked',
           \/ f.op = "body" /\ ~f.own /\ state' = state
           \/ f.op = "drain" /\ stack = <<>> /\ state[f.of] = "Resolved" /\ state' = state
           \/ /\ f.op = "head" /\ f.at = 1
              /\ state[f.of] # "Resolved"
              /\ state' = [state EXCEPT ![f.of] = "Resolving"]
    PROVE  Control'
<1>1. /\ stack \in Seq(Frame)
      /\ state \in [Decl -> SymbolState]
      /\ pending \in [Decl -> Seq(Worker)]
      /\ prog \in Program
  BY DEF TypeOK
<1>2. /\ Len(stack) \in Nat
      /\ stack # <<>> => Len(stack) >= 1
      /\ \A n \in 1 .. Len(stack) : stack[n] \in Frame
  BY <1>1, EmptySeq
<1>3. /\ stack' # <<>>
      /\ Len(stack') = Len(stack) + 1
      /\ stack'[1] = f
      /\ Head(stack') = f
      /\ \A n \in 2 .. Len(stack') : stack'[n] = stack[n - 1]
  <2>1. /\ stack' \in Seq(Frame)
        /\ stack' # <<>>
        /\ Len(stack') = Len(stack) + 1
        /\ stack'[1] = f
        /\ \A n \in 2 .. Len(stack) + 1 : stack'[n] = stack[n - 1]
    BY PushedStack
  <2> QED
    BY <2>1, HeadTailProperties
<1>4. \A n \in 1 .. Len(stack) : stack[n].op # "head"
  <2> SUFFICES ASSUME NEW n \in 1 .. Len(stack) PROVE stack[n].op # "head"
    OBVIOUS
  <2>1. CASE n = 1
    BY <1>2, <2>1, EmptySeq DEF Loop
  <2>2. CASE n # 1
    BY <1>2, <2>2 DEF Control, HeadOnTop
  <2> QED
    BY <2>1, <2>2
<1>5. \A n \in 1 .. Len(stack) : Own(n) => state[stack[n].of] = "Resolved"
  BY <1>4 DEF Control, ActivationState
<1>6. HeadOnTop'
  BY <1>2, <1>3, <1>4 DEF HeadOnTop
<1>7. \A n \in 1 .. Len(stack) : Own(n) /\ Own(1)' => stack[n].of # f.of
  BY <1>2, <1>3, <1>5, EmptySeq DEF Own
<1>8. OneActivation'
  <2> SUFFICES ASSUME NEW m \in 1 .. Len(stack'), NEW n \in 1 .. Len(stack'),
                      Own(m)', Own(n)', stack'[m].of = stack'[n].of
               PROVE  m = n
    BY DEF OneActivation
  <2>1. CASE m = 1 \/ n = 1
    BY <1>2, <1>3, <1>7, <2>1 DEF Own
  <2>2. CASE m # 1 /\ n # 1
    <3>1. /\ m - 1 \in 1 .. Len(stack) /\ n - 1 \in 1 .. Len(stack)
          /\ stack'[m] = stack[m - 1] /\ stack'[n] = stack[n - 1]
      BY <1>2, <1>3, <2>2
    <3> QED
      BY <3>1 DEF Control, OneActivation, Own
  <2> QED
    BY <2>1, <2>2
<1>9. ActivationState'
  <2> SUFFICES ASSUME NEW n \in 1 .. Len(stack'), Own(n)'
               PROVE  state'[stack'[n].of] =
                        IF stack'[n].op = "head" THEN "Resolving" ELSE "Resolved"
    BY DEF ActivationState
  <2>1. CASE n = 1
    BY <1>1, <1>3, <2>1 DEF Own, Frame
  <2>2. CASE n # 1
    <3>1. n - 1 \in 1 .. Len(stack) /\ stack'[n] = stack[n - 1] /\ stack[n - 1].of \in Decl
      BY <1>2, <1>3, <2>2 DEF Frame
    <3>2. Own(n - 1) /\ state[stack[n - 1].of] = "Resolved" /\ stack[n - 1].op # "head"
      BY <1>4, <1>5, <3>1 DEF Own
    <3> QED
      BY <1>1, <3>1, <3>2
  <2> QED
    BY <2>1, <2>2
<1>10. PlacesValid'
  <2> SUFFICES ASSUME NEW n \in 1 .. Len(stack'), Loop(n)', n > 1
               PROVE  stack'[n].at \in 1 .. Len(pending[stack'[n].of])
    BY DEF PlacesValid
  <2>1. n - 1 \in 1 .. Len(stack) /\ stack'[n] = stack[n - 1]
    BY <1>2, <1>3
  <2>2. n - 1 = 1 \/ n - 1 > 1
    BY <2>1
  <2> QED
    BY <1>2, <2>1, <2>2, EmptySeq DEF Control, PlacesValid, Loop
<1>11. ResolvingIsRunning'
  <2>1. \A d \in Decl : state[d] = "Resolving" => prog[d].kind = "struct"
    BY <1>1, <1>2, <1>4, HeadTailProperties DEF Control, ResolvingIsRunning, Top
  <2> QED
    BY <1>1, <1>3, <2>1 DEF ResolvingIsRunning, Top
<1>12. NamesMet'
  <2> SUFFICES ASSUME f.op = "head", NEW n \in DOMAIN prog[f.of].head, n < f.at
               PROVE  prog[f.of].head[n] \in linked'
    BY <1>3 DEF NamesMet
  <2>1. prog[f.of].head \in Seq(Ref) /\ f.at = 1
    BY <1>1 DEF Program, Declaration, Frame
  <2>2. n \in 1 .. Len(prog[f.of].head)
    BY <2>1
  <2> QED
    BY <2>1, <2>2
<1>13. TypesKnown'
  BY <1>1 DEF Control, TypesKnown
<1> QED
  BY <1>6, <1>8, <1>9, <1>10, <1>11, <1>12, <1>13 DEF Control

\* The running activation moves on, or turns into the next one of its check.
LEMMA ReplaceStep ==
    ASSUME TypeOK, Control, stack # <<>>, NEW f \in Frame, f.of = Top.of,
           stack' = Cons(f, Tail(stack)), ret' = Running, UNCHANGED prog,
           (f.op = "body" /\ ~f.own) \/ Own(1),
           \A n \in 1 .. Len(stack) : n > 1 /\ Loop(n) =>
               Len(pending'[stack[n].of]) = Len(pending[stack[n].of]),
           \/ UNCHANGED <<state, linked>> /\ (f.op = "head" <=> Top.op = "head")
           \/ /\ f.op \notin {"head", "body"} /\ Top.op = "head"
              /\ state' = [state EXCEPT ![Top.of] = "Resolved"]
              /\ linked' = linked \cup {Top.of}
              /\ \A n \in DOMAIN prog[Top.of].head : prog[Top.of].head[n] \in linked,
           f.op = "head" => \A n \in DOMAIN prog[f.of].head :
                                n < f.at => prog[f.of].head[n] \in linked
    PROVE  Control'
<1>1. /\ stack \in Seq(Frame)
      /\ state \in [Decl -> SymbolState]
      /\ prog \in Program
  BY DEF TypeOK
<1>2. /\ Len(stack) \in Nat \ {0}
      /\ Top = stack[1]
      /\ Top \in Frame
      /\ \A n \in 1 .. Len(stack) : stack[n] \in Frame
  BY <1>1, PopProperties DEF Top
<1>3. /\ stack' \in Seq(Frame)
      /\ stack' # <<>>
      /\ Len(stack') = Len(stack)
      /\ stack'[1] = f
      /\ Head(stack') = f
      /\ \A n \in 2 .. Len(stack) : stack'[n] = stack[n]
  BY <1>1, <1>2, ReplaceProperties, HeadTailProperties
<1>4. \A n \in 1 .. Len(stack) : stack'[n].of = stack[n].of /\ (Own(n)' => Own(n))
  <2> SUFFICES ASSUME NEW n \in 1 .. Len(stack)
               PROVE  stack'[n].of = stack[n].of /\ (Own(n)' => Own(n))
    OBVIOUS
  <2>1. CASE n = 1
    BY <1>2, <1>3, <2>1 DEF Own
  <2>2. CASE n # 1
    BY <1>2, <1>3, <2>2 DEF Own
  <2> QED
    BY <2>1, <2>2
<1>5. HeadOnTop'
  BY <1>3 DEF Control, HeadOnTop
<1>6. OneActivation'
  BY <1>3, <1>4 DEF Control, OneActivation
<1>7. ActivationState'
  <2> SUFFICES ASSUME NEW n \in 1 .. Len(stack), Own(n)'
               PROVE  state'[stack[n].of] =
                        IF stack'[n].op = "head" THEN "Resolving" ELSE "Resolved"
    BY <1>3, <1>4 DEF ActivationState
  <2>1. /\ Own(n)
        /\ state[stack[n].of] = IF stack[n].op = "head" THEN "Resolving" ELSE "Resolved"
        /\ stack[n].of \in Decl
    BY <1>2, <1>4 DEF Control, ActivationState, Frame
  <2>2. CASE n = 1
    BY <1>1, <1>2, <1>3, <2>1, <2>2
  <2>3. CASE n # 1
    <3>1. n \in 2 .. Len(stack)
      BY <1>2, <2>3
    <3>2. Own(1) => stack[n].of # Top.of
      BY <1>2, <2>1, <2>3 DEF Control, OneActivation
    <3>3. Top.op = "head" => Own(1)
      BY <1>2 DEF Own
    <3> QED
      BY <1>1, <1>3, <2>1, <3>1, <3>2, <3>3
  <2> QED
    BY <2>2, <2>3
<1>8. PlacesValid'
  <2> SUFFICES ASSUME NEW n \in 1 .. Len(stack), Loop(n)', n > 1
               PROVE  stack'[n].at \in 1 .. Len(pending'[stack'[n].of])
    BY <1>3 DEF PlacesValid
  <2> QED
    BY <1>2, <1>3 DEF Control, PlacesValid, Loop
<1>9. ResolvingIsRunning'
  BY <1>1, <1>2, <1>3 DEF Control, ResolvingIsRunning, Top, Frame
<1>10. NamesMet'
  BY <1>3 DEF NamesMet
<1>11. TypesKnown'
  BY <1>1, <1>2 DEF Control, TypesKnown, Frame
<1> QED
  BY <1>5, <1>6, <1>7, <1>8, <1>9, <1>10, <1>11 DEF Control

\* Nothing is running and nothing starts.
LEMMA IdleStep ==
    ASSUME Control, stack = <<>>, stack' = <<>>, UNCHANGED <<prog, state, linked>>
    PROVE  Control'
<1>1. Len(<<>>) = 0
  OBVIOUS
<1> QED
  BY <1>1 DEF Control, HeadOnTop, OneActivation, ActivationState, PlacesValid,
              ResolvingIsRunning, NamesMet, TypesKnown

-----------------------------------------------------------------------------
(* The top of the stack.                                                    *)

LEMMA TopType ==
    ASSUME TypeOK, stack # <<>>
    PROVE  /\ Top \in Frame
           /\ Top = stack[1]
           /\ Tail(stack) \in Seq(Frame)
           /\ Len(stack) \in Nat \ {0}
           /\ Top.of \in Decl
           /\ \A f \in Frame : Cons(f, Tail(stack)) \in Seq(Frame)
           /\ \A n \in 1 .. Len(stack) : stack[n] \in Frame
<1>1. stack \in Seq(Frame)
  BY DEF TypeOK
<1>2. /\ Top \in Frame
      /\ Top = stack[1]
      /\ Tail(stack) \in Seq(Frame)
      /\ Len(stack) \in Nat \ {0}
  BY <1>1, PopProperties DEF Top
<1>3. \A f \in Frame : Cons(f, Tail(stack)) \in Seq(Frame)
  BY <1>2, PushProperties
<1>4. \A n \in 1 .. Len(stack) : stack[n] \in Frame
  BY <1>1
<1> QED
  BY <1>2, <1>3, <1>4 DEF Frame

\* The loop on top is at a worker of its list while it has one to resume, and
\* while a resumed one has returned.
LEMMA TopOwn ==
    ASSUME TypeOK, Control, stack # <<>>
    PROVE  /\ Top.op # "body" => Own(1)
           /\ Loop(1) <=> Top.op \in {"wake", "drain"}
           /\ Loop(1) /\ ret # Running => Top.at \in 1 .. Len(pending[Top.of])
           /\ \A n \in 1 .. Len(stack) : n > 1 /\ Loop(n) /\ Own(1) => stack[n].of # Top.of
<1>1. Top = stack[1] /\ Len(stack) \in Nat \ {0}
  BY TopType
<1>2. 1 \in 1 .. Len(stack)
  BY <1>1
<1>3. \A n \in 1 .. Len(stack) : Loop(n) => Own(n)
  BY DEF Loop, Own
<1> QED
  BY <1>1, <1>2, <1>3 DEF Own, Loop, Control, PlacesValid, OneActivation

-----------------------------------------------------------------------------
(* semactx_resolve keeps the invariant.                                     *)

LEMMA InitInvariant ==
    ASSUME Init
    PROVE  IInv
<1>1. N \in Nat /\ prog \in Program
  BY ConstantsAssumption DEF Init
<1>2. TypeOK
  <2>1. <<>> \in Seq(Worker) /\ <<>> \in Seq(Frame) /\ 1 \in 1 .. N + 1
    BY <1>1, EmptySeq
  <2>2. phase \in Phase /\ "Unresolved" \in SymbolState /\ "none" \in Scope \cup {"none"}
    BY DEF Init, Phase, SymbolState
  <2> QED
    BY <1>1, <2>1, <2>2 DEF Init, TypeOK
<1>3. Len(<<>>) = 0
  OBVIOUS
<1>4. Control
  BY <1>3 DEF Init, Control, HeadOnTop, OneActivation, ActivationState, PlacesValid,
              ResolvingIsRunning, NamesMet, TypesKnown
<1> QED
  BY <1>2, <1>4 DEF IInv, Init, Started, Idle

LEMMA EnterStep ==
    ASSUME IInv, NEW d \in Decl, NEW resumed \in BOOLEAN, EnterDecl(d, resumed),
           ret = Running, next' \in 1 .. N + 1,
           stack # <<>> => Loop(1) /\ stack[1].at \in 1 .. Len(pending[stack[1].of])
    PROVE  TypeOK' /\ Control'
<1>1. TypeOK /\ Control
  BY DEF IInv
<1>2. HeadFrame(d, resumed) \in Frame
  BY DEF HeadFrame, Frame, Scope
<1>3. CASE state[d] = "Resolved"
  <2>1. Done \in Status
    BY DEF Done, Status, Ref, Undeclared
  <2>2. TypeOK'
    BY <1>1, <1>3, <2>1 DEF TypeOK, EnterDecl
  <2>3. stack # <<>> => stack[1].at \in 1 .. Len(pending[stack[1].of])
    OBVIOUS
  <2>4. Len(<<>>) = 0
    OBVIOUS
  <2>5. PlacesValid'
    BY <1>1, <1>3, <2>3, <2>4 DEF Control, PlacesValid, EnterDecl, Loop
  <2>6. Control'
    BY <1>1, <1>3, <2>5
       DEF Control, HeadOnTop, OneActivation, ActivationState, Own, EnterDecl,
           ResolvingIsRunning, NamesMet, TypesKnown, Top
  <2> QED
    BY <2>2, <2>6
<1>4. CASE state[d] # "Resolved"
  <2>1. /\ stack' = Cons(HeadFrame(d, resumed), stack)
        /\ state' = [state EXCEPT ![d] = "Resolving"]
        /\ linked \subseteq linked' /\ linked' \subseteq linked \cup {d}
        /\ ret' = ret
        /\ UNCHANGED <<prog, phase, pending, save, home, reported, checked, cycles>>
    BY <1>4 DEF EnterDecl
  <2>2. stack' \in Seq(Frame)
    BY <1>1, <1>2, <2>1, PushedStack
  <2>3. TypeOK'
    BY <1>1, <2>1, <2>2 DEF TypeOK, SymbolState
  <2>4. /\ HeadFrame(d, resumed).op = "head"
        /\ HeadFrame(d, resumed).at = 1
        /\ HeadFrame(d, resumed).of = d
    BY DEF HeadFrame
  <2>5. Control'
    BY <1>1, <1>2, <1>4, <2>1, <2>4, PushStep
  <2> QED
    BY <2>3, <2>5
<1> QED
  BY <1>3, <1>4

LEMMA ResolveStep ==
    ASSUME IInv, Resolve
    PROVE  TypeOK' /\ Control'
<1>1. TypeOK /\ Control
  BY DEF IInv
<1>2. CASE Discover
  <2>1. TypeOK'
    BY <1>1, <1>2 DEF TypeOK, Discover, Redeclared, Phase
  <2>2. Control'
    BY <1>1, <1>2, StayStep DEF Discover
  <2> QED
    BY <2>1, <2>2
<1>3. CASE CheckNext
  <2>1. next \in Decl /\ next' \in 1 .. N + 1
    BY <1>3, ConstantsAssumption DEF CheckNext, Decl
  <2> QED
    BY <1>3, <2>1, EnterStep DEF CheckNext, Idle
<1>4. CASE TopLevelStatus
  <2>1. pending' \in [Decl -> Seq(Worker)]
    <3>1. CASE ret.kind = "Pending" /\ ret.wait # Undeclared
      <4>1. ret \in Status /\ ret.wait \in Decl
        BY <1>1, <1>4, <3>1 DEF TypeOK, TopLevelStatus, Status, Ref
      <4>2. PICK scope \in SavedScope(IF prog[next - 1].kind = "func"
                                     THEN "inner" ELSE "outer") :
              pending' = [pending EXCEPT ![ret.wait] =
                 Append(@, [task |-> "decl", of |-> next - 1, scope |-> scope])]
        BY <1>4, <3>1 DEF TopLevelStatus, Registered
      <4>3. scope \in Scope
        BY <4>2 DEF Scope, SavedScope
      <4>4. next - 1 \in Decl
        <5>1. next \in 1 .. N + 1 /\ next # 1
          BY <1>1, <1>4 DEF TypeOK, TopLevelStatus, IInv, Started, Idle
        <5> QED
          BY <5>1, ConstantsAssumption DEF Decl
      <4>5. [task |-> "decl", of |-> next - 1, scope |-> scope] \in Worker
        BY <4>3, <4>4 DEF Worker
      <4> QED
        BY <1>1, <4>1, <4>2, <4>5 DEF TypeOK
    <3>2. CASE ~(ret.kind = "Pending" /\ ret.wait # Undeclared)
      BY <1>1, <1>4, <3>2 DEF TypeOK, TopLevelStatus
    <3> QED
      BY <3>1, <3>2
  <2>2. TypeOK'
    BY <1>1, <1>4, <2>1 DEF TypeOK, TopLevelStatus
  <2>3. Control'
    BY <1>1, <1>4, IdleStep DEF TopLevelStatus
  <2> QED
    BY <2>2, <2>3
<1>5. CASE BeginDrain
  <2>1. TypeOK'
    BY <1>1, <1>5 DEF TypeOK, BeginDrain, Phase
  <2>2. Control'
    BY <1>1, <1>5, StayStep DEF BeginDrain
  <2> QED
    BY <2>1, <2>2
<1>6. CASE Finish
  <2>1. TypeOK'
    BY <1>1, <1>6 DEF TypeOK, Finish, Phase
  <2>2. Control'
    BY <1>1, <1>6, StayStep DEF Finish
  <2> QED
    BY <2>1, <2>2
<1> QED
  BY <1>2, <1>3, <1>4, <1>5, <1>6 DEF Resolve

LEMMA DrainStep ==
    ASSUME IInv, NEW d \in Decl, DrainEntry(d)
    PROVE  TypeOK' /\ Control'
<1>1. TypeOK /\ Control /\ stack = <<>> /\ ret = Running
  BY DEF IInv, DrainEntry, Idle
<1>2. CASE state[d] = "Resolved"
  <2> DEFINE f == [op |-> "drain", of |-> d, at |-> 1, resumed |-> FALSE,
                   scope |-> "outer", own |-> FALSE]
  <2>1. f \in Frame /\ f.op = "drain" /\ f.of = d
    BY DEF Frame, Scope
  <2>2. /\ stack' = <<f>>
        /\ UNCHANGED <<prog, phase, next, state, linked, pending, ret, save, home,
                       reported, checked, cycles>>
    BY <1>2 DEF DrainEntry
  <2> HIDE DEF f
  <2>3. stack' = Cons(f, stack)
    BY <1>1, <2>1, <2>2 DEF Cons
  <2>4. stack' \in Seq(Frame)
    BY <2>1, <2>2
  <2>5. TypeOK'
    BY <1>1, <2>2, <2>4 DEF TypeOK
  <2>6. Control'
    BY <1>1, <1>2, <2>1, <2>2, <2>3, PushStep
  <2> QED
    BY <2>5, <2>6
<1>3. CASE state[d] # "Resolved"
  <2>1. /\ pending' = pending \/ pending' = [pending EXCEPT ![d] = <<>>]
        /\ UNCHANGED <<prog, phase, next, state, linked, stack, ret, save, home,
                       reported, checked, cycles>>
    BY <1>3 DEF DrainEntry
  <2>2. <<>> \in Seq(Worker)
    BY EmptySeq
  <2>3. TypeOK'
    BY <1>1, <2>1, <2>2 DEF TypeOK
  <2>4. Control'
    BY <1>1, <2>1, IdleStep
  <2> QED
    BY <2>3, <2>4
<1> QED
  BY <1>2, <1>3

-----------------------------------------------------------------------------
(* The loops over parked workers keep it.                                   *)

LEMMA AbortStep ==
    ASSUME TypeOK, Control, NEW why \in Crash, Abort(why)
    PROVE  TypeOK' /\ Control'
<1>1. TypeOK'
  BY DEF TypeOK, Abort, Phase
<1>2. Control'
  BY StayStep DEF Abort
<1> QED
  BY <1>1, <1>2

LEMMA ResumeStep ==
    ASSUME IInv, ResumeNext
    PROVE  TypeOK' /\ Control'
<1>1. TypeOK /\ Control /\ stack # <<>> /\ ret = Running
  BY DEF IInv, ResumeNext, Looping, TopIs
<1>2. /\ Loop(1)
      /\ Top = stack[1] /\ Top.of \in Decl
      /\ Top.at \in 1 .. Len(pending[Top.of])
  <2>1. Top \in Frame /\ Top = stack[1] /\ Top.of \in Decl
    BY <1>1, TopType
  <2>2. Top.at \in Nat \ {0} /\ Len(pending[Top.of]) \in Nat
    BY <1>1, <2>1 DEF Frame, TypeOK
  <2> QED
    BY <2>1, <2>2 DEF ResumeNext, Looping, TopIs, Loop
<1> DEFINE w == pending[Top.of][Top.at]
<1>3. w \in Worker
  BY <1>1, <1>2 DEF TypeOK
<1>4. Resume(w)
  BY DEF ResumeNext
<1>5. w.task \in {"decl", "body"} /\ w.of \in Decl /\ w.scope \in Scope
  BY <1>3 DEF Worker
<1> HIDE DEF w
<1>6. CASE w.task = "decl" /\ w.scope = "inner"
  BY <1>1, <1>4, <1>6, AbortStep DEF Resume, Crash
<1>7. CASE w.task = "decl" /\ w.scope = "outer"
  <2>1. EnterDecl(w.of, TRUE) /\ next' \in 1 .. N + 1
    BY <1>1, <1>4, <1>7 DEF Resume, TypeOK
  <2> QED
    BY <1>1, <1>2, <1>5, <2>1, EnterStep
<1>8. CASE w.task = "body"
  <2> DEFINE f == BodyFrame(w.of, TRUE, w.scope, FALSE)
  <2>1. f \in Frame /\ f.op = "body" /\ ~f.own
    BY <1>1, <1>5 DEF BodyFrame, Frame, TypeOK
  <2>2. /\ stack' = Cons(f, stack)
        /\ UNCHANGED <<prog, phase, next, state, linked, pending, ret, save, home,
                       reported, checked, cycles>>
    BY <1>4, <1>8 DEF Resume
  <2> HIDE DEF f
  <2>3. stack' \in Seq(Frame)
    BY <1>1, <2>1, <2>2, PushedStack
  <2>4. TypeOK'
    BY <1>1, <2>2, <2>3 DEF TypeOK
  <2>5. Control'
    BY <1>1, <1>2, <2>1, <2>2, PushStep
  <2> QED
    BY <2>4, <2>5
<1> QED
  BY <1>5, <1>6, <1>7, <1>8 DEF Scope

LEMMA ResumedStep ==
    ASSUME IInv, Resumed
    PROVE  TypeOK' /\ Control'
<1>1. TypeOK /\ Control /\ stack # <<>> /\ ret # Running
  BY DEF IInv, Resumed, Looping, TopIs
<1>2. /\ Top \in Frame /\ Top.of \in Decl
      /\ Top.op \in {"wake", "drain"}
      /\ Top.at \in 1 .. Len(pending[Top.of])
      /\ Own(1)
      /\ Len(stack) \in Nat
  BY <1>1, TopType, TopOwn DEF Resumed, Looping, TopIs
<1> DEFINE f == [Top EXCEPT !.at = @ + 1]
<1>3. f \in Frame /\ f.of = Top.of /\ f.op = Top.op
  BY <1>2 DEF Frame
<1>4. /\ stack' = Cons(f, Tail(stack))
      /\ ret' = Running
      /\ \/ pending' = pending
         \/ pending' = [pending EXCEPT ![Top.of] = RemoveAt(@, Top.at)]
      /\ UNCHANGED <<prog, phase, next, state, linked, save, home, reported,
                     checked, cycles>>
  BY DEF Resumed
<1> HIDE DEF f
<1>5. RemoveAt(pending[Top.of], Top.at) \in Seq(Worker)
  BY <1>1, <1>2, RemoveAtType DEF TypeOK
<1>6. TypeOK'
  <2>1. stack' \in Seq(Frame)
    BY <1>1, <1>3, <1>4, TopType
  <2>2. pending' \in [Decl -> Seq(Worker)]
    BY <1>1, <1>2, <1>4, <1>5 DEF TypeOK
  <2> QED
    BY <1>1, <1>4, <2>1, <2>2 DEF TypeOK
<1>7. \A n \in 1 .. Len(stack) : n > 1 /\ Loop(n) =>
          Len(pending'[stack[n].of]) = Len(pending[stack[n].of])
  <2> SUFFICES ASSUME NEW n \in 1 .. Len(stack), n > 1, Loop(n)
               PROVE  pending'[stack[n].of] = pending[stack[n].of]
    OBVIOUS
  <2>1. stack[n].of # Top.of
    BY <1>1, <1>2, TopOwn
  <2>2. stack[n] \in Frame
    BY <1>1, TopType
  <2>3. stack[n].of \in Decl
    BY <2>2 DEF Frame
  <2> QED
    BY <1>1, <1>2, <1>4, <2>1, <2>3 DEF TypeOK
<1>8. Control'
  BY <1>1, <1>2, <1>3, <1>4, <1>7, ReplaceStep
<1> QED
  BY <1>6, <1>8

LEMMA LoopEndsStep ==
    ASSUME IInv, LoopEnds
    PROVE  TypeOK' /\ Control'
<1>1. /\ TypeOK /\ Control /\ stack # <<>>
      /\ Top.op \in {"wake", "drain"}
      /\ ret = Running
      /\ UNCHANGED <<prog, phase, next, state, linked, pending, save, home,
                     reported, checked, cycles>>
  BY DEF IInv, LoopEnds, Looping, TopIs
<1>2. Top \in Frame /\ Top.of \in Decl /\ Own(1) /\ Tail(stack) \in Seq(Frame)
  BY <1>1, TopType, TopOwn
<1>3. CASE stack' = Tail(stack) /\ (ret' = ret \/ ret' = Done)
  <2>1. Done \in Status
    BY DEF Done, Status, Ref, Undeclared
  <2>2. TypeOK'
    BY <1>1, <1>2, <1>3, <2>1 DEF TypeOK
  <2>3. \A d \in Decl : Len(pending[d]) \in Nat
    BY <1>1 DEF TypeOK
  <2>4. pending' \in [Decl -> Seq(Worker)]
    BY <1>1 DEF TypeOK
  <2>5. Control'
    BY <1>1, <1>2, <1>3, <2>3, <2>4, PopStep
  <2> QED
    BY <2>2, <2>5
<1>4. CASE /\ Top.op = "wake"
           /\ prog[Top.of].kind = "func" /\ prog[Top.of].body # <<>>
  <2> DEFINE f == BodyFrame(Top.of, Top.resumed,
                            IF Top.resumed THEN "outer" ELSE "inner", TRUE)
  <2>1. f \in Frame /\ f.op = "body" /\ f.of = Top.of
    BY <1>1, <1>2 DEF BodyFrame, Frame, Scope, TypeOK
  <2>2. stack' = Cons(f, Tail(stack)) /\ ret' = Running
    BY <1>1, <1>4 DEF LoopEnds
  <2> HIDE DEF f
  <2>3. TypeOK'
    BY <1>1, <2>1, <2>2, TopType DEF TypeOK
  <2>4. Control'
    BY <1>1, <1>2, <2>1, <2>2, ReplaceStep
  <2> QED
    BY <2>3, <2>4
<1> QED
  BY <1>1, <1>3, <1>4 DEF LoopEnds, Return

-----------------------------------------------------------------------------
(* The checks of declarations keep it.                                      *)

LEMMA HeadType ==
    ASSUME IInv, InHead
    PROVE  /\ TypeOK /\ Control /\ stack # <<>> /\ ret = Running
           /\ Top.op = "head"
           /\ Top \in Frame /\ Top = stack[1] /\ Top.of \in Decl
           /\ Own(1)
           /\ Tail(stack) \in Seq(Frame)
           /\ prog[Top.of].head \in Seq(Ref)
           /\ NamesLeft => Top.at \in 1 .. Len(prog[Top.of].head) /\ HeadName \in Ref
           /\ \A n \in DOMAIN prog[Top.of].head :
                  n < Top.at => prog[Top.of].head[n] \in linked
<1>1. TypeOK /\ Control /\ stack # <<>> /\ ret = Running /\ Top.op = "head"
  BY DEF IInv, InHead, TopIs
<1>2. Top \in Frame /\ Top = stack[1] /\ Top.of \in Decl /\ Own(1) /\ Tail(stack) \in Seq(Frame)
  BY <1>1, TopType, TopOwn
<1>3. prog[Top.of].head \in Seq(Ref) /\ Top.at \in Nat \ {0}
  BY <1>1, <1>2 DEF TypeOK, Program, Declaration, Frame
<1>4. NamesLeft => Top.at \in 1 .. Len(prog[Top.of].head) /\ HeadName \in Ref
  BY <1>3 DEF NamesLeft, HeadName
<1> QED
  BY <1>1, <1>2, <1>3, <1>4 DEF Control, NamesMet

\* A name that yields a type is linked to it.
LEMMA YieldsType ==
    ASSUME TypeOK, NEW r \in Ref, Yields(r) = "type"
    PROVE  r \in linked
<1>1. r # Undeclared
  BY DEF Yields
<1>2. r \in Decl /\ state[r] \in SymbolState
  BY <1>1 DEF Ref, TypeOK
<1> QED
  BY <1>1, <1>2 DEF Yields, SymbolState

\* A name that yields a cycle is Resolving.
LEMMA YieldsCycle ==
    ASSUME TypeOK, NEW r \in Ref, Yields(r) = "cycle"
    PROVE  r \in Decl /\ state[r] = "Resolving"
<1>1. r # Undeclared
  BY DEF Yields
<1>2. r \in Decl /\ state[r] \in SymbolState
  BY <1>1 DEF Ref, TypeOK
<1> QED
  BY <1>1, <1>2 DEF Yields, SymbolState

\* The check of a declaration returns before its symbol is resolved.
LEMMA HeadReturns ==
    ASSUME IInv, InHead, NEW v \in SymbolState \ {"Resolved"},
           v = "Resolving" => prog[Top.of].kind = "struct",
           state' = [state EXCEPT ![Top.of] = v],
           NEW status \in Status, Return(status), reported' \in BOOLEAN,
           cycles' \in SUBSET (Decl \X Decl),
           UNCHANGED <<prog, phase, next, linked, pending, save, home, checked>>
    PROVE  TypeOK' /\ Control'
<1>1. TypeOK /\ Control /\ stack # <<>> /\ Own(1) /\ Top.of \in Decl
      /\ Tail(stack) \in Seq(Frame)
  BY HeadType
<1>2. TypeOK'
  BY <1>1 DEF TypeOK, Return
<1>3. pending' \in [Decl -> Seq(Worker)] /\ \A d \in Decl : Len(pending[d]) \in Nat
  BY <1>1 DEF TypeOK
<1>4. \E u \in SymbolState \ {"Resolved"} :
         /\ state' = [state EXCEPT ![Top.of] = u]
         /\ u = "Resolving" => prog[Top.of].kind = "struct"
  OBVIOUS
<1>5. /\ stack' = Tail(stack)
      /\ UNCHANGED <<prog, linked>>
      /\ \A d \in Decl : Len(pending[d]) <= Len(pending'[d])
  BY <1>3 DEF Return
<1>6. Control'
  BY <1>1, <1>3, <1>4, <1>5, PopStep
<1> QED
  BY <1>2, <1>6

LEMMA StatusType ==
    /\ Done \in Status /\ Failed \in Status
    /\ \A r \in Ref : PendingOn(r) \in Status
  BY DEF Done, Failed, PendingOn, Status, Ref, Undeclared

LEMMA FailHeadStep ==
    ASSUME IInv, InHead, FailHead, cycles' \in SUBSET (Decl \X Decl),
           UNCHANGED <<prog, phase, next, linked, pending, save, home, checked>>
    PROVE  TypeOK' /\ Control'
<1> DEFINE v == Broken(prog[Top.of].kind)
<1>1. v \in SymbolState \ {"Resolved"} /\ (v = "Resolving" => prog[Top.of].kind = "struct")
  BY DEF Broken, SymbolState
<1>2. state' = [state EXCEPT ![Top.of] = v] /\ Return(Failed) /\ reported' = TRUE
  BY DEF FailHead
<1> HIDE DEF v
<1> QED
  BY <1>1, <1>2, StatusType, HeadReturns

\* A head moves on to the next name, or its symbol is resolved.
LEMMA HeadsStep ==
    ASSUME IInv, Heads
    PROVE  TypeOK' /\ Control'
<1>1. CASE HeadStep
  <2>1. InHead
    BY <1>1 DEF HeadStep
  <2> DEFINE f == [Top EXCEPT !.at = @ + 1]
  <2>2. f \in Frame /\ f.of = Top.of /\ f.op = "head" /\ f.at = Top.at + 1
    BY <2>1, HeadType DEF Frame
  <2>3. /\ stack' = Cons(f, Tail(stack))
        /\ UNCHANGED <<prog, phase, next, state, linked, pending, ret, save, home,
                       reported, checked, cycles>>
    BY <1>1 DEF HeadStep
  <2> HIDE DEF f
  <2>4. HeadName \in linked
    BY <1>1, <2>1, HeadType, YieldsType DEF HeadStep
  <2>5. \A n \in DOMAIN prog[f.of].head : n < f.at => prog[f.of].head[n] \in linked
    <3> SUFFICES ASSUME NEW n \in DOMAIN prog[Top.of].head, n < Top.at + 1
                 PROVE  prog[Top.of].head[n] \in linked
      BY <2>2
    <3>1. n \in Nat /\ Top.at \in Nat
      BY <2>1, HeadType DEF Frame
    <3>2. n < Top.at \/ n = Top.at
      BY <3>1
    <3> QED
      BY <2>1, <2>4, <3>2, HeadType DEF HeadName
  <2>6. TypeOK'
    BY <2>1, <2>2, <2>3, HeadType, TopType DEF TypeOK
  <2>7. Control'
    BY <2>1, <2>2, <2>3, <2>5, HeadType, ReplaceStep
  <2> QED
    BY <2>6, <2>7
<1>2. CASE HeadWaits
  <2> DEFINE v == Suspended(prog[Top.of].kind)
  <2>1. InHead /\ HeadName \in Ref
    BY <1>2, HeadType DEF HeadWaits
  <2>2. v \in SymbolState \ {"Resolved"} /\ (v = "Resolving" => prog[Top.of].kind = "struct")
    BY DEF Suspended, SymbolState
  <2>3. PendingOn(HeadName) \in Status
    BY <2>1, StatusType
  <2>4. /\ state' = [state EXCEPT ![Top.of] = v]
        /\ Return(PendingOn(HeadName))
        /\ UNCHANGED <<prog, phase, next, linked, pending, save, home, reported,
                       checked, cycles>>
    BY <1>2 DEF HeadWaits
  <2> HIDE DEF v
  <2>5. reported' \in BOOLEAN /\ cycles' \in SUBSET (Decl \X Decl)
    BY <2>4 DEF IInv, TypeOK
  <2> QED
    BY <2>1, <2>2, <2>3, <2>4, <2>5, HeadReturns
<1>3. CASE HeadFails
  <2>1. InHead /\ NamesLeft
    BY <1>3 DEF HeadFails
  <2>2. Yields(HeadName) = "cycle" => HeadName \in Decl
    BY <2>1, HeadType DEF Yields, Ref
  <2>3. cycles' \in SUBSET (Decl \X Decl)
    BY <1>3, <2>1, <2>2, HeadType DEF HeadFails, IInv, TypeOK
  <2> QED
    BY <1>3, <2>1, <2>3, FailHeadStep DEF HeadFails
<1>4. CASE OwnCheckFails
  <2>1. InHead /\ cycles' \in SUBSET (Decl \X Decl)
    BY <1>4 DEF OwnCheckFails, IInv, TypeOK
  <2> QED
    BY <1>4, <2>1, FailHeadStep DEF OwnCheckFails
<1>5. CASE HeadResolves
  <2>1. InHead /\ ~NamesLeft
    BY <1>5 DEF HeadResolves
  <2> DEFINE f == [Top EXCEPT !.op = "wake", !.at = 1]
  <2>2. f \in Frame /\ f.of = Top.of /\ f.op = "wake"
    <3> DEFINE g == [Top EXCEPT !.op = "wake"]
    <3>1. Top \in Frame
      BY <2>1, HeadType
    <3>2. g \in Frame /\ g.of = Top.of /\ g.op = "wake" /\ f = [g EXCEPT !.at = 1]
      BY <3>1 DEF Frame
    <3> HIDE DEF f, g
    <3> QED
      BY <3>2 DEF Frame
  <2>3. /\ stack' = Cons(f, Tail(stack))
        /\ state' = [state EXCEPT ![Top.of] = "Resolved"]
        /\ linked' = linked \cup {Top.of}
        /\ UNCHANGED <<prog, phase, next, pending, ret, save, home, reported,
                       checked, cycles>>
    BY <1>5 DEF HeadResolves
  <2> HIDE DEF f
  <2>4. \A n \in DOMAIN prog[Top.of].head : prog[Top.of].head[n] \in linked
    <3> SUFFICES ASSUME NEW n \in DOMAIN prog[Top.of].head
                 PROVE  n < Top.at
      BY <2>1, HeadType
    <3>1. /\ n \in 1 .. Len(prog[Top.of].head)
          /\ Len(prog[Top.of].head) \in Nat
          /\ Top.at \in Nat
      BY <2>1, HeadType DEF Frame
    <3> QED
      BY <2>1, <3>1 DEF NamesLeft
  <2>5. TypeOK'
    BY <2>1, <2>2, <2>3, HeadType, TopType DEF TypeOK, SymbolState
  <2>6. Control'
    BY <2>1, <2>2, <2>3, <2>4, HeadType, ReplaceStep
  <2> QED
    BY <2>5, <2>6
<1>6. CASE HeadCrashes
  BY <1>6, AbortStep DEF HeadCrashes, IInv, Crash
<1> QED
  BY <1>1, <1>2, <1>3, <1>4, <1>5, <1>6 DEF Heads

-----------------------------------------------------------------------------
(* The checks of function bodies keep it.                                   *)

LEMMA BodyType ==
    ASSUME IInv, InBody
    PROVE  /\ TypeOK /\ Control /\ stack # <<>> /\ ret = Running
           /\ Top.op = "body"
           /\ Top \in Frame /\ Top = stack[1] /\ Top.of \in Decl
           /\ Top.own => Own(1)
           /\ Tail(stack) \in Seq(Frame)
           /\ StmtsLeft => BodyStmt \in Stmt
           /\ StmtsLeft => HomeAfter \in [Decl -> Scope \cup {"none"}]
<1>1. TypeOK /\ Control /\ stack # <<>> /\ ret = Running /\ Top.op = "body"
  BY DEF IInv, InBody, TopIs
<1>2. Top \in Frame /\ Top = stack[1] /\ Top.of \in Decl /\ Tail(stack) \in Seq(Frame)
  BY <1>1, TopType
<1>3. prog[Top.of].body \in Seq(Stmt) /\ Top.at \in Nat \ {0} /\ Top.scope \in Scope
  BY <1>1, <1>2 DEF TypeOK, Program, Declaration, Frame
<1>4. StmtsLeft => BodyStmt \in Stmt
  BY <1>3 DEF StmtsLeft, BodyStmt
<1>5. HomeAfter \in [Decl -> Scope \cup {"none"}]
  BY <1>1, <1>3 DEF HomeAfter, TypeOK
<1> QED
  BY <1>1, <1>2, <1>4, <1>5 DEF Own

\* The check of a body returns; when it fails in its own function's check, the
\* function fails.
LEMMA BodyReturns ==
    ASSUME IInv, InBody, NEW status \in Status, Return(status),
           \/ state' = state
           \/ Top.own /\ state' = [state EXCEPT ![Top.of] = "Failed"],
           pending' \in [Decl -> Seq(Worker)],
           \A d \in Decl : Len(pending[d]) <= Len(pending'[d]),
           reported' \in BOOLEAN, checked' \in SUBSET Decl,
           cycles' \in SUBSET (Decl \X Decl), save' \in [Decl -> Nat],
           home' \in [Decl -> Scope \cup {"none"}],
           UNCHANGED <<prog, phase, next, linked>>
    PROVE  TypeOK' /\ Control'
<1>1. /\ TypeOK /\ Control /\ stack # <<>> /\ Top.op = "body"
      /\ (Top.own => Own(1)) /\ Top.of \in Decl
      /\ Tail(stack) \in Seq(Frame)
  BY BodyType
<1>2. TypeOK'
  BY <1>1 DEF TypeOK, Return, SymbolState
<1>5. stack' = Tail(stack) /\ UNCHANGED <<prog, linked>>
  BY DEF Return
<1>3. CASE state' = state
  <2>1. Top.op # "head"
    BY <1>1
  <2>2. Control'
    BY <1>1, <1>3, <1>5, <2>1, PopStep
  <2> QED
    BY <1>2, <2>2
<1>4. CASE Top.own /\ state' = [state EXCEPT ![Top.of] = "Failed"]
  <2>1. "Failed" \in SymbolState \ {"Resolved"} /\ "Failed" # "Resolving"
    BY DEF SymbolState
  <2>2. Own(1) /\ \E v \in SymbolState \ {"Resolved"} :
                     /\ state' = [state EXCEPT ![Top.of] = v]
                     /\ v = "Resolving" => prog[Top.of].kind = "struct"
    BY <1>1, <1>4, <2>1
  <2>3. Control'
    BY <1>1, <1>5, <2>2, PopStep
  <2> QED
    BY <1>2, <2>3
<1> QED
  BY <1>2, <1>3, <1>4

LEMMA BodiesStep ==
    ASSUME IInv, Bodies
    PROVE  TypeOK' /\ Control'
<1>1. CASE BodyStep
  <2>1. InBody /\ StmtsLeft
    BY <1>1 DEF BodyStep
  <2> DEFINE f == [Top EXCEPT !.at = Top.at + 1, !.resumed = FALSE]
  <2> DEFINE g == [Top EXCEPT !.at = Top.at + 1]
  <2>2. f \in Frame /\ f.of = Top.of /\ f.op = "body" /\ f.own = Top.own
    <3>1. Top \in Frame /\ Top.op = "body"
      BY <2>1, BodyType
    <3>2. /\ g \in Frame /\ g.of = Top.of /\ g.op = "body" /\ g.own = Top.own
          /\ f = [g EXCEPT !.resumed = FALSE]
      BY <3>1 DEF Frame
    <3> HIDE DEF f, g
    <3> QED
      BY <3>2 DEF Frame
  <2>3. /\ stack' = Cons(f, Tail(stack)) /\ ret' = Running
        /\ home' = HomeAfter
        /\ UNCHANGED <<prog, phase, next, state, linked, pending, save, reported,
                       checked, cycles>>
    BY <1>1 DEF BodyStep, Goto
  <2> HIDE DEF f, g
  <2>4. TypeOK'
    BY <2>1, <2>2, <2>3, BodyType, TopType DEF TypeOK
  <2>5. (f.op = "body" /\ ~f.own) \/ Own(1)
    BY <2>1, <2>2, BodyType DEF Frame
  <2>6. Control'
    BY <2>1, <2>2, <2>3, <2>5, BodyType, ReplaceStep
  <2> QED
    BY <2>4, <2>6
<1>2. CASE BodyWaits
  <2>1. InBody /\ StmtsLeft /\ BodyStmt.ref \in Decl
    <3>1. InBody /\ StmtsLeft /\ Yields(BodyStmt.ref) = "wait"
      BY <1>2 DEF BodyWaits
    <3> QED
      BY <3>1, BodyType DEF Yields, Stmt, Ref
  <2>2. home' \in [Decl -> Scope \cup {"none"}]
    BY <1>2, <2>1, BodyType DEF BodyWaits
  <2>3. save' \in [Decl -> Nat]
    BY <1>2, <2>1, BodyType DEF BodyWaits, TypeOK, Frame
  <2>4. /\ reported' \in BOOLEAN /\ checked' \in SUBSET Decl
        /\ cycles' \in SUBSET (Decl \X Decl) /\ state' = state
        /\ UNCHANGED <<prog, phase, next, linked>>
    BY <1>2 DEF BodyWaits, IInv, TypeOK
  <2>5. PendingOn(Undeclared) \in Status /\ PendingOn(BodyStmt.ref) \in Status
    BY <2>1, StatusType DEF Ref
  <2>6. pending \in [Decl -> Seq(Worker)] /\ \A d \in Decl : Len(pending[d]) \in Nat
    BY DEF IInv, TypeOK
  <2>7. CASE Top.own
    <3>1. PICK scope \in SavedScope(Top.scope) :
             pending' = [pending EXCEPT ![BodyStmt.ref] =
                Append(@, [task |-> "body", of |-> Top.of, scope |-> scope])]
      BY <1>2, <2>7 DEF BodyWaits, Registered
    <3> DEFINE w == [task |-> "body", of |-> Top.of, scope |-> scope]
    <3>2. Top.scope \in Scope /\ Top.of \in Decl
      BY <2>1, BodyType DEF Frame
    <3>3. w \in Worker
      BY <3>1, <3>2 DEF Worker, SavedScope, Scope
    <3> HIDE DEF w
    <3>4. pending' \in [Decl -> Seq(Worker)]
      BY <2>1, <2>6, <3>1, <3>3 DEF w
    <3>5. \A d \in Decl : Len(pending[d]) <= Len(pending'[d])
      BY <2>1, <2>6, <3>1, <3>3 DEF w
    <3>6. Return(PendingOn(Undeclared))
      BY <1>2, <2>7 DEF BodyWaits
    <3> QED
      BY <2>1, <2>2, <2>3, <2>4, <2>5, <3>4, <3>5, <3>6, BodyReturns
  <2>8. CASE ~Top.own
    <3>1. pending' = pending /\ Return(PendingOn(BodyStmt.ref))
      BY <1>2, <2>8 DEF BodyWaits
    <3>2. pending' \in [Decl -> Seq(Worker)] /\ \A d \in Decl : Len(pending[d]) <= Len(pending'[d])
      BY <2>6, <3>1
    <3> QED
      BY <2>1, <2>2, <2>3, <2>4, <2>5, <3>1, <3>2, BodyReturns
  <2> QED
    BY <2>7, <2>8
<1>3. CASE BodyFails
  <2>1. InBody /\ StmtsLeft /\ BodyStmt.ref \in Ref
    <3>1. InBody /\ StmtsLeft
      BY <1>3 DEF BodyFails
    <3> QED
      BY <3>1, BodyType DEF Stmt
  <2>2. home' \in [Decl -> Scope \cup {"none"}]
    BY <1>3, <2>1, BodyType DEF BodyFails
  <2>3. save' \in [Decl -> Nat]
    BY <1>3, <2>1, BodyType DEF BodyFails, TypeOK, Frame
  <2>4. Yields(BodyStmt.ref) = "cycle" => BodyStmt.ref \in Decl
    BY <2>1 DEF Yields, Ref
  <2>5. cycles' \in SUBSET (Decl \X Decl)
    BY <1>3, <2>1, <2>4, BodyType DEF BodyFails, TypeOK
  <2>6. /\ reported' \in BOOLEAN /\ checked' \in SUBSET Decl
        /\ UNCHANGED <<prog, phase, next, linked>>
        /\ Return(Failed)
        /\ \/ state' = state
           \/ Top.own /\ state' = [state EXCEPT ![Top.of] = "Failed"]
    BY <1>3 DEF BodyFails, IInv, TypeOK
  <2>7. pending' \in [Decl -> Seq(Worker)] /\ \A d \in Decl : Len(pending[d]) <= Len(pending'[d])
    BY <1>3 DEF BodyFails, IInv, TypeOK
  <2> QED
    BY <2>1, <2>2, <2>3, <2>5, <2>6, <2>7, StatusType, BodyReturns
<1>4. CASE BodyEnds
  <2>1. InBody /\ Return(Done) /\ state' = state /\ UNCHANGED <<prog, phase, next, linked>>
    BY <1>4 DEF BodyEnds
  <2>2. /\ reported' \in BOOLEAN /\ checked' \in SUBSET Decl
        /\ cycles' \in SUBSET (Decl \X Decl) /\ save' \in [Decl -> Nat]
        /\ home' \in [Decl -> Scope \cup {"none"}]
    BY <1>4, <2>1, BodyType DEF BodyEnds, TypeOK
  <2>3. pending' \in [Decl -> Seq(Worker)] /\ \A d \in Decl : Len(pending[d]) <= Len(pending'[d])
    BY <1>4 DEF BodyEnds, IInv, TypeOK
  <2> QED
    BY <2>1, <2>2, <2>3, StatusType, BodyReturns
<1>5. CASE BodyCrashes
  BY <1>5, AbortStep DEF BodyCrashes, IInv, Crash
<1> QED
  BY <1>1, <1>2, <1>3, <1>4, <1>5 DEF Bodies

-----------------------------------------------------------------------------
(* The theorems.                                                            *)

LEMMA StartedStep ==
    ASSUME IInv, [Next]_vars
    PROVE  Started'
<1>1. TypeOK /\ Started
  BY DEF IInv
<1>2. next \in 1 .. N + 1 /\ N \in Nat
  BY <1>1, ConstantsAssumption DEF TypeOK
<1>3. CASE UNCHANGED vars
  BY <1>1, <1>3 DEF vars, Started, Idle
<1>4. CASE Resolve
  <2>1. CASE Discover
    BY <1>1, <2>1 DEF Discover, Started, Idle
  <2>2. CASE CheckNext
    <3>1. next' = next + 1 /\ phase' = "check"
      BY <2>2 DEF CheckNext, EnterDecl
    <3> QED
      BY <1>2, <3>1 DEF Started
  <2>3. CASE TopLevelStatus
    BY <1>1, <2>3 DEF TopLevelStatus, Started, Idle
  <2>4. CASE BeginDrain \/ Finish
    BY <2>4 DEF BeginDrain, Finish, Started
  <2> QED
    BY <1>4, <2>1, <2>2, <2>3, <2>4 DEF Resolve
<1>5. CASE \E d \in Decl : DrainEntry(d)
  BY <1>5 DEF DrainEntry, Started
<1>6. CASE Loops
  <2>1. stack # <<>> /\ phase \in {"check", "drain"}
    BY <1>6 DEF Loops, ResumeNext, Resumed, LoopEnds, Looping, TopIs
  <2>2. /\ phase' = phase \/ phase' \in Crash
        /\ next' = next
    BY <1>6 DEF Loops, ResumeNext, Resumed, LoopEnds, Resume, EnterDecl, Abort, Crash
  <2> QED
    BY <1>1, <2>1, <2>2 DEF Started, Idle, Crash
<1>7. CASE Heads
  BY <1>1, <1>2, <1>7
     DEF Heads, HeadStep, HeadWaits, HeadFails, OwnCheckFails, HeadResolves, HeadCrashes,
         InHead, TopIs, Abort, Started, Idle, Crash
<1>8. CASE Bodies
  BY <1>1, <1>2, <1>8
     DEF Bodies, BodyStep, BodyWaits, BodyFails, BodyEnds, BodyCrashes,
         InBody, TopIs, Abort, Started, Idle, Crash
<1>9. CASE Stopped
  BY <1>1, <1>9 DEF Stopped, vars, Started, Idle
<1> QED
  BY <1>3, <1>4, <1>5, <1>6, <1>7, <1>8, <1>9 DEF Next

LEMMA StepInvariant ==
    ASSUME IInv, [Next]_vars
    PROVE  IInv'
<1>1. Started'
  BY StartedStep
<1>2. CASE UNCHANGED vars
  <2>1. TypeOK'
    BY <1>2 DEF IInv, TypeOK, vars
  <2>2. Control'
    BY <1>2, StayStep DEF IInv, vars
  <2> QED
    BY <1>1, <2>1, <2>2 DEF IInv
<1>3. CASE Resolve
  BY <1>1, <1>3, ResolveStep DEF IInv
<1>4. CASE \E d \in Decl : DrainEntry(d)
  BY <1>1, <1>4, DrainStep DEF IInv
<1>5. CASE Loops
  BY <1>1, <1>5, ResumeStep, ResumedStep, LoopEndsStep DEF Loops, IInv
<1>6. CASE Heads
  BY <1>1, <1>6, HeadsStep DEF IInv
<1>7. CASE Bodies
  BY <1>1, <1>7, BodiesStep DEF IInv
<1>8. CASE Stopped
  BY <1>2, <1>8 DEF Stopped
<1> QED
  BY <1>2, <1>3, <1>4, <1>5, <1>6, <1>7, <1>8 DEF Next

\* The invariant holds in every state the checker reaches.
THEOREM Invariance == Spec => []IInv
<1>1. Init => IInv
  BY InitInvariant
<1>2. IInv /\ [Next]_vars => IInv'
  BY StepInvariant
<1> QED
  BY <1>1, <1>2, PTL DEF Spec

\* The variables of the scheduler keep their types: no list of workers, no stack
\* and no status ever holds something else, for any number of declarations.
THEOREM TypeCorrect == Spec => []TypeOK
<1>1. IInv => TypeOK
  BY DEF IInv
<1> QED
  BY <1>1, Invariance, PTL

\* wake_up_workers never lets a check see a variable or a function marked
\* Resolving other than the one it is checking itself.
THEOREM ResolvingIsRunningTheorem == Spec => []ResolvingIsRunning
<1>1. IInv => ResolvingIsRunning
  BY DEF IInv, Control
<1> QED
  BY <1>1, Invariance, PTL

\* A resolved symbol, and every name its declaration uses, has a type.
THEOREM TypesKnownTheorem == Spec => []TypesKnown
<1>1. IInv => TypesKnown
  BY DEF IInv, Control
<1> QED
  BY <1>1, Invariance, PTL

\* The index a loop holds across the checks it resumes stays inside its list,
\* and no list is under two loops.
THEOREM LoopsKeepTheirPlaceTheorem == Spec => []LoopsKeepTheirPlace
<1>1. IInv => LoopsKeepTheirPlace
  <2> SUFFICES ASSUME IInv PROVE LoopsKeepTheirPlace
    OBVIOUS
  <2>1. DOMAIN stack = 1 .. Len(stack) /\ \A n \in DOMAIN stack : stack[n] \in Frame
    BY DEF IInv, TypeOK
  <2>2. \A n \in DOMAIN stack :
           DOMAIN pending[stack[n].of] = 1 .. Len(pending[stack[n].of])
    BY <2>1 DEF IInv, TypeOK, Frame
  <2>3. \A n \in DOMAIN stack : Loop(n) => Own(n)
    BY DEF Loop, Own
  <2> QED
    BY <2>1, <2>2, <2>3 DEF LoopsKeepTheirPlace, IInv, Control, PlacesValid, OneActivation
<1> QED
  BY <1>1, Invariance, PTL

\* A dependency cycle reported against a variable or a function is reported in
\* that very declaration.
THEOREM OnlySelfCyclesTheorem == Spec => []OnlySelfCycles
<1>1. Init => OnlySelfCycles
  BY DEF Init, OnlySelfCycles
<1>2. IInv /\ OnlySelfCycles /\ [Next]_vars => OnlySelfCycles'
  <2> SUFFICES ASSUME IInv, OnlySelfCycles, [Next]_vars PROVE OnlySelfCycles'
    OBVIOUS
  <2>1. CASE UNCHANGED <<prog, cycles>>
    BY <2>1 DEF OnlySelfCycles
  <2>2. CASE HeadFails
    <3>1. InHead /\ NamesLeft /\ prog' = prog
      BY <2>2 DEF HeadFails
    <3>2. ASSUME Yields(HeadName) = "cycle", prog[HeadName].kind # "struct"
          PROVE  Top.of = HeadName
      <4>1. HeadName \in Decl /\ state[HeadName] = "Resolving"
        BY <3>1, <3>2, HeadType, YieldsCycle
      <4> QED
        BY <3>2, <4>1 DEF IInv, Control, ResolvingIsRunning
    <3> QED
      BY <2>2, <3>1, <3>2 DEF HeadFails, OnlySelfCycles
  <2>3. CASE BodyFails
    <3>1. InBody /\ StmtsLeft /\ prog' = prog
      BY <2>3 DEF BodyFails
    <3>2. ASSUME Yields(BodyStmt.ref) = "cycle"
          PROVE  prog[BodyStmt.ref].kind = "struct"
      <4>1. BodyStmt.ref \in Decl /\ state[BodyStmt.ref] = "Resolving"
        BY <3>1, <3>2, BodyType, YieldsCycle DEF Stmt
      <4>2. Top.op # "head"
        BY <3>1, BodyType
      <4> QED
        BY <4>1, <4>2 DEF IInv, Control, ResolvingIsRunning
    <3> QED
      BY <2>3, <3>1, <3>2 DEF BodyFails, OnlySelfCycles
  <2> QED
    BY <2>1, <2>2, <2>3
       DEF Next, vars, Resolve, Discover, CheckNext, TopLevelStatus, BeginDrain, Finish,
           DrainEntry, Loops, ResumeNext, Resumed, LoopEnds, Resume, EnterDecl, Abort,
           Heads, HeadStep, HeadWaits, OwnCheckFails, HeadResolves, HeadCrashes,
           Bodies, BodyStep, BodyWaits, BodyEnds, BodyCrashes, Stopped
<1> QED
  BY <1>1, <1>2, Invariance, PTL DEF Spec

=============================================================================
