------------------------------ MODULE Compiled ------------------------------
(***************************************************************************)
(* What is asked of the compiled program (Machine) against what the source *)
(* means (Meaning).  The lowering keeps a value as an expression until the *)
(* instruction that uses it, so a program whose expressions read a         *)
(* variable and later, in the same expression, write it, is compiled to    *)
(* something else than it says; Orderly sets those programs apart, and     *)
(* what is left must be compiled to what it means.                         *)
(***************************************************************************)
EXTENDS Machine

\* The variables a lowered expression reads when it is used (Late), and those
\* lowering it writes at once (Early).  Whatever a pointer or a callee reaches
\* is one cell, Shared, and so is a global or a variable whose address is taken.
Shared == "<shared>"
Cell(s, exposed) == IF s.home = "global" \/ s \in exposed THEN Shared ELSE s.name

RECURSIVE Late(_, _), Early(_, _)
Late(e, exposed) ==
  CASE e.kind = "Integer" -> {}
    [] e.kind = "Identifier" -> {Cell(e.symbol, exposed)}
    [] e.kind = "Function_Call" -> {}
    [] e.kind = "Binop" -> Late(e.right, exposed)
                             \cup (IF e.op = "Assign" THEN {} ELSE Late(e.left, exposed))
    [] e.kind = "Subscript" -> {Shared} \cup Late(e.expr, exposed) \cup Late(e.index, exposed)
    [] e.kind = "Member_Access" -> IF e.pointer THEN {Shared} ELSE Late(e.receiver, exposed)
    [] e.kind = "Dereference" -> {Shared} \cup Late(e.operand, exposed)
    [] e.kind = "AddressOf" -> Late(e.operand, exposed)
    [] e.kind = "Cast" -> Late(e.expr, exposed)
    [] e.kind = "Unary" -> Late(e.expression, exposed)

Written(e, exposed) == IF e.kind = "Identifier" THEN {Cell(e.symbol, exposed)}
                       ELSE IF e.kind = "Member_Access" THEN Late(e, exposed) ELSE {Shared}

Operands(e) ==
  CASE e.kind \in {"Integer", "Identifier"} -> <<>>
    [] e.kind = "Function_Call" -> e.arguments
    [] e.kind = "Binop" -> <<e.left, e.right>>
    [] e.kind = "Subscript" -> <<e.expr, e.index>>
    [] e.kind = "Member_Access" -> <<e.receiver>>
    [] e.kind \in {"Dereference", "AddressOf"} -> <<e.operand>>
    [] e.kind = "Cast" -> <<e.expr>>
    [] e.kind = "Unary" -> <<e.expression>>

Early(e, exposed) ==
  UNION {Early(o, exposed) : o \in Range(Operands(e))}
    \cup (IF e.kind = "Function_Call" THEN {Shared} ELSE {})
    \cup (IF e.kind = "Binop" /\ e.op = "Assign" THEN Written(e.left, exposed) ELSE {})

\* Each operand's value must outlive the effects of the operands after it, and
\* the value of an assignment that is used must outlive the assignment; a cast
\* must not narrow, for the conversion drops it.
RECURSIVE Ordered(_, _, _)
Ordered(e, exposed, used) ==
  LET os == Operands(e)
      assigns == e.kind = "Binop" /\ e.op = "Assign"
      Needed(i) == IF assigns /\ i = 1
                   THEN UNION {Late(o, exposed) : o \in Range(Operands(e.left))}
                   ELSE Late(os[i], exposed)
  IN  /\ \A i \in DOMAIN os : Ordered(os[i], exposed, TRUE)
      /\ \A i, j \in DOMAIN os : i < j => Needed(i) \cap Early(os[j], exposed) = {}
      /\ assigns /\ used => /\ Late(e.right, exposed) \cap Written(e.left, exposed) = {}
                            /\ e.left.kind = "Identifier" => e.left.symbol.type # "char"
      /\ e.kind # "Cast" \/ e.type = "int"

\* The statements of a body, however deep, and the expressions of one.
RECURSIVE Within(_)
Within(s) ==
  {s} \cup UNION
    {Within(t) : t \in
       CASE s.kind \in {"Block", "For_Ever", "While_Loop", "Function"} -> Range(s.body)
         [] s.kind = "If" -> {s.then} \cup {b.then : b \in Range(s.branches)} \cup Range(s.else)
         [] OTHER -> {}}
Expressions(s) == CASE s.kind = "Variable" -> Range(s.initializer)
                    [] s.kind = "If" -> {s.condition} \cup {b.condition : b \in Range(s.branches)}
                    [] s.kind = "While_Loop" -> {s.condition}
                    [] s.kind = "Return" -> {s.value}
                    [] s.kind = "Expr" -> {s.expr}
                    [] OTHER -> {}
Statements(p) == UNION {Within(f) : f \in Range(p.functions)}

RECURSIVE Parts(_)
Parts(e) == {e} \cup UNION {Parts(o) : o \in Range(Operands(e))}
AllParts(p) == UNION {UNION {Parts(e) : e \in Expressions(s)} : s \in Statements(p)}
Exposed(p) == {e.operand.symbol : e \in {x \in AllParts(p) : x.kind = "AddressOf"
                                                          /\ x.operand.kind = "Identifier"}}

OrderedProgram(p) ==
  \A s \in Statements(p) : \A e \in Expressions(s) : Ordered(e, Exposed(p), s.kind # "Expr")

\* A loop's condition is tested with what its calls, and the pointers to its
\* members, gave before the loop: it may read nothing else beside them.
SteadyLoop(p, s) ==
  LET frozen == {x \in Parts(s.condition) : \/ x.kind = "Function_Call"
                                            \/ x.kind = "Member_Access" /\ x.pointer}
  IN  frozen = {} \/ Late(s.condition, Exposed(p)) = {}
SteadyProgram(p) == \A s \in Statements(p) : s.kind = "While_Loop" => SteadyLoop(p, s)

\* __jeni_global_init goes through the globals once, in their order.
Names(e) == {x.symbol : x \in {y \in Parts(e) : y.kind = "Identifier"}}
GlobalsInOrder(p) ==
  \A i, j \in DOMAIN p.globals :
     p.globals[j].symbol \in Names(p.globals[i].init)
       => j < i \/ p.globals[j].init.kind = "Integer"

\* The variables a statement declares, those of a nested function left out.
RECURSIVE Declared(_)
Declared(s) ==
  CASE s.kind = "Variable" -> {s.symbol}
    [] s.kind = "Function" -> Range(s.parameters) \cup UNION {Declared(t) : t \in Range(s.body)}
    [] s.kind = "Block" -> UNION {Declared(t) : t \in {u \in Range(s.body) : u.kind # "Function"}}
    [] OTHER -> UNION {Declared(t) : t \in Within(s) \ {s}}

\* Names are looked up as they will be printed, the locals first.
Uncaptured(p) ==
  LET globals == {CanonicalName(f.symbol) : f \in AllFunctions(p)}
                   \cup {CanonicalName(p.globals[i].symbol) : i \in DOMAIN p.globals}
  IN  \A f \in AllFunctions(p) : \A s \in Declared(f) : s.name \notin globals

Orderly(p) == OrderedProgram(p) /\ SteadyProgram(p) /\ GlobalsInOrder(p) /\ Uncaptured(p)

\* The loop is the last statement of main.
LoopIsLast(p) == Last(Last(p.functions).body[1].body).kind = "While_Loop"

Source == Programs[prog]
Resolved == Uncaptured(Source)
UnsteadyAtWorst == OrderedProgram(Source) /\ GlobalsInOrder(Source) /\ Resolved /\ LoopIsLast(Source)

----------------------------------------------------------------------------
\* The compiled program does what its source means: when it exits it has
\* printed the same numbers in the same order and left the same globals, for
\* every orderly program.  Lowering, the value store's late evaluation, the
\* nesting of labels and the shadowing of names all meet here.
Faithful ==
  phase = "exited" /\ Orderly(Source) =>
    /\ printed = meant.printed
    /\ \A s \in DOMAIN meant.globals :
         mem[GlobalBase(CanonicalName(s))] = meant.globals[s]

\* No instruction reads a `local_i` that the activation has not set: no goto
\* brings control past the Alloca of a local that is used after it.
LocalsDeclared ==
  phase = "running" /\ Resolved /\ top.pc <= Len(code)
    => Reads(inst) \subseteq DOMAIN top.locals

\* A loop whose condition mixes a call with a variable may end too early (its
\* second test still holds what the call gave before the loop) but never runs a
\* round more than it should: in a program disorderly in nothing else, and
\* whose loop is the last thing that prints, what was printed is the beginning
\* of what should be.
LoopsOnlyStopEarly ==
  phase = "exited" /\ UnsteadyAtWorst => IsPrefix(printed, meant.printed)

\* A program whose source ends, ends once compiled too.
Terminates == Orderly(Source) /\ phase = "loaded" ~> phase = "exited"
=============================================================================
