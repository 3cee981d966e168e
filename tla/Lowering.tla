------------------------------ MODULE Lowering ------------------------------
(***************************************************************************)
(* From the checked tree to the code of a function: the HIR conversion of  *)
(* src/src/hir/ and the lowering of src/src/lir/.  A value of the LIR is   *)
(* an expression that is evaluated again wherever it is used; what has to  *)
(* happen once, a store or a call, is an instruction.  The value store     *)
(* gives equal values one index, so here a value is its own index.         *)
(***************************************************************************)
EXTENDS Tree, SequencesExt

\* The name of a symbol in the emitted C: functions but `main` and globals are
\* mangled, #canon_name gives a function the name it says (home "external").
CanonicalName(s) ==
  IF s.home = "global" /\ s.name # "main" THEN "_" \o s.name ELSE s.name

----------------------------------------------------------------------------
(* hir::convert_expression, hir::convert_statement                         *)

RECURSIVE Convert(_), ConvertStatement(_)
ConvertFunctionCall(e) ==
  [kind |-> "Function_Call", callee |-> Convert(e.callee),
   arguments |-> [i \in DOMAIN e.arguments |-> Convert(e.arguments[i])]]
ConvertBinaryOp(e) ==
  IF e.op = "Assign"
  THEN [kind |-> "Assign", receiver |-> Convert(e.left), value |-> Convert(e.right),
        type |-> IF e.left.kind = "Identifier" THEN e.left.symbol.type ELSE "int"]
  ELSE [kind |-> "Binary_Operation", op |-> e.op, left |-> Convert(e.left), right |-> Convert(e.right)]
ConvertMemberAccess(e) ==
  [kind |-> "Member_Access", member |-> e.member,
   receiver |-> IF e.pointer THEN [kind |-> "Dereference", operand |-> Convert(e.receiver)]
                             ELSE Convert(e.receiver)]

\* create_true_expr
TrueExpr == [kind |-> "Boolean", value |-> TRUE]

\* an `e[i]` becomes `^(e + i)`, a cast is left out, `!e` becomes `e != true`
Convert(e) ==
  CASE e.kind = "Integer" -> e
    [] e.kind = "Identifier" -> [kind |-> "Identifier", value |-> CanonicalName(e.symbol)]
    [] e.kind = "Function_Call" -> ConvertFunctionCall(e)
    [] e.kind = "Binop" -> ConvertBinaryOp(e)
    [] e.kind = "Subscript" ->
         [kind |-> "Dereference",
          operand |-> [kind |-> "Binary_Operation", op |-> "Add",
                       left |-> Convert(e.expr), right |-> Convert(e.index)]]
    [] e.kind = "Member_Access" -> ConvertMemberAccess(e)
    [] e.kind \in {"Dereference", "AddressOf"} -> [kind |-> e.kind, operand |-> Convert(e.operand)]
    [] e.kind = "Cast" -> Convert(e.expr)
    [] e.kind = "Unary" /\ e.op = "Not" ->
         [kind |-> "Binary_Operation", op |-> "NotEquals",
          left |-> Convert(e.expression), right |-> TrueExpr]

ConvertAll(stmts) == [i \in DOMAIN stmts |-> ConvertStatement(stmts[i])]
ConvertVariable(s) ==
  [kind |-> "Variable", name |-> CanonicalName(s.symbol), type |-> s.symbol.type,
   initializer |-> [i \in DOMAIN s.initializer |-> Convert(s.initializer[i])]]
ConvertBlock(s) == [kind |-> "Block", body |-> ConvertAll(s.body)]
ConvertIf(s) ==
  [kind |-> "If", condition |-> Convert(s.condition), then |-> ConvertStatement(s.then),
   branches |-> [i \in DOMAIN s.branches |->
                   Branch(Convert(s.branches[i].condition), ConvertStatement(s.branches[i].then))],
   else |-> ConvertAll(s.else)]
ConvertForEver(s) == [kind |-> "Loop", condition |-> TrueExpr, body |-> ConvertAll(s.body)]
ConvertWhileLoop(s) == [kind |-> "Loop", condition |-> Convert(s.condition), body |-> ConvertAll(s.body)]
ConvertPrototype(params) == [i \in DOMAIN params |-> [name |-> params[i].name, type |-> params[i].type]]
ConvertFunction(s) ==
  [kind |-> "Function", name |-> CanonicalName(s.symbol),
   parameters |-> ConvertPrototype(s.parameters), body |-> ConvertAll(s.body)]

ConvertStatement(s) ==
  CASE s.kind = "Variable" -> ConvertVariable(s)
    [] s.kind = "Function" -> ConvertFunction(s)
    [] s.kind = "Block" -> ConvertBlock(s)
    [] s.kind = "If" -> ConvertIf(s)
    [] s.kind = "Return" -> [kind |-> "Return", value |-> Convert(s.value)]
    [] s.kind = "For_Ever" -> ConvertForEver(s)
    [] s.kind = "While_Loop" -> ConvertWhileLoop(s)
    [] s.kind = "Break" -> s
    [] s.kind = "Expr" -> [kind |-> "Expr", expr |-> Convert(s.expr)]

----------------------------------------------------------------------------
(* lir::Buildr: the code so far, the counters of the function, the blocks  *)
(* open (innermost last, each from a name to the slot it stands for), the  *)
(* loop points open and the globals that nested functions add.             *)

NewBuildr == [code |-> <<>>, locals |-> 0, labels |-> 0, blocks |-> << <<>> >>,
              loops |-> <<>>, globals |-> <<>>]

True  == [kind |-> "True"]
False == [kind |-> "False"]
CreateBoolean(value) == IF value THEN True ELSE False
LocalRef(i)  == [kind |-> "LocalRef", index |-> i]
ParamRef(i)  == [kind |-> "ParamRef", index |-> i]
GlobalRef(n) == [kind |-> "GlobalRef", ident |-> n]
Deref(v)     == [kind |-> "Deref", value |-> v]
AddrOf(v)    == [kind |-> "AddrOf", value |-> v]
ZeroFill     == [kind |-> "ZeroFill"]
Cmp(op, x, y) == [kind |-> "Cmp", op |-> op, first |-> x, second |-> y]

Emit(b, inst) == [b EXCEPT !.code = Append(@, inst)]
Alloca(dst, type)       == [opcode |-> "Alloca", dst |-> dst, type |-> type]
Store(dst, type, value) == [opcode |-> "Store", dst |-> dst, type |-> type, value |-> value]
Call(dst, callee, args) == [opcode |-> "Call", dst |-> dst, callee |-> callee, arguments |-> args]
PutLabel(l)             == [opcode |-> "PutLabel", label |-> l]
JmpIfEquals(x, y, l)    == [opcode |-> "JmpIfEquals", first |-> x, second |-> y, label |-> l]
Jmp(l)                  == [opcode |-> "Jmp", label |-> l]
Ret(value)              == [opcode |-> "Ret", value |-> value]
Member_Ptr(dst, r, m)   == [opcode |-> "Member_Ptr", dst |-> dst, receiver |-> r, member |-> m]

\* create_temporary: a slot no name stands for
CreateTemporary(b, type) ==
  [b |-> Emit([b EXCEPT !.locals = @ + 1], Alloca(LocalRef(b.locals), type)), v |-> LocalRef(b.locals)]

\* create_alloca: a slot the name stands for in the innermost block
CreateAlloca(b, name, type) ==
  LET temporary == CreateTemporary(b, type)
      inner == Len(b.blocks)
  IN  [temporary EXCEPT !.b.blocks[inner] = (name :> b.locals) @@ @]

\* Fault: the names of a block outlive it.
EndBlockKeeps(b) == b
NewBlock(b) == [b EXCEPT !.blocks = Append(@, <<>>)]
EndBlock(b) == [b EXCEPT !.blocks = Front(@)]

\* find_local, then create_local_ref or create_glob_ref
FindLocal(b, name) ==
  LET holding == {i \in DOMAIN b.blocks : name \in DOMAIN b.blocks[i]} IN
  IF holding = {} THEN GlobalRef(name) ELSE Deref(LocalRef(b.blocks[Max(holding)][name]))

LoopPoint(start, end) == [continue_label |-> start, break_label |-> end]

\* new_label, put_label, jmp_if_eq, jmp_to_label
WithLabels(b, n) == [b EXCEPT !.labels = @ + n]

\* lir::lower_expression: the instructions it adds and the value it returns
RECURSIVE Lower(_, _), LowerAll(_, _)
LowerFunctionCall(b, e) ==
  LET callee == Lower(b, e.callee)
      args   == LowerAll(callee.b, e.arguments)
      result == CreateTemporary(args.b, "int")
  IN  [b |-> Emit(result.b, Call(Deref(result.v), callee.v, args.v)), v |-> Deref(result.v)]
\* the value of an assignment is the value assigned, to be read again
LowerAssign(b, e) ==
  LET receiver == Lower(b, e.receiver)
      value    == Lower(receiver.b, e.value)
  IN  [b |-> Emit(value.b, Store(receiver.v, e.type, value.v)), v |-> value.v]
LowerBinaryOp(b, e) ==
  LET left  == Lower(b, e.left)
      right == Lower(left.b, e.right)
  IN  [b |-> right.b, v |-> Cmp(e.op, left.v, right.v)]
LowerMemberAccess(b, e) ==
  LET receiver == Lower(b, e.receiver)
      temp     == CreateTemporary(receiver.b, "int")
  IN  [b |-> Emit(temp.b, Member_Ptr(temp.v, receiver.v, e.member)), v |-> Deref(temp.v)]

Lower(b, e) ==
  LET Plain(v) == [b |-> b, v |-> v] IN
  CASE e.kind = "Integer" -> Plain(e)
    [] e.kind = "Boolean" -> Plain(CreateBoolean(e.value))
    [] e.kind = "Identifier" -> Plain(FindLocal(b, e.value))
    [] e.kind = "Function_Call" -> LowerFunctionCall(b, e)
    [] e.kind = "Assign" -> LowerAssign(b, e)
    [] e.kind = "Binary_Operation" -> LowerBinaryOp(b, e)
    [] e.kind = "Member_Access" -> LowerMemberAccess(b, e)
    [] e.kind = "Dereference" -> LET value == Lower(b, e.operand) IN [value EXCEPT !.v = Deref(@)]
    [] e.kind = "AddressOf"   -> LET value == Lower(b, e.operand) IN [value EXCEPT !.v = AddrOf(@)]

LowerAll(b, es) ==
  IF es = <<>> THEN [b |-> b, v |-> <<>>]
  ELSE LET first == Lower(b, Head(es))
           rest  == LowerAll(first.b, Tail(es))
       IN  [b |-> rest.b, v |-> <<first.v>> \o rest.v]

\* lower_variable: the name stands for the new slot already in its initializer
LowerVariable(b, s) ==
  LET slot == CreateAlloca(b, s.name, s.type)
      init == IF s.initializer = <<>> THEN [b |-> slot.b, v |-> ZeroFill]
              ELSE Lower(slot.b, s.initializer[1])
  IN  Emit(init.b, Store(Deref(slot.v), s.type, init.v))

\* Fault: break leaves the outermost loop.
LowerBreakOutermost(b) == Emit(b, Jmp(Head(b.loops).break_label))
\* lower_break_stmt: pops the loop point, jumps to its end, pushes it back
LowerBreak(b) == Emit(b, Jmp(Last(b.loops).break_label))

\* lower_glob_function: each parameter is copied into a slot of its own
RECURSIVE LowerStatement(_, _), LowerIf(_, _), LowerFunction(_)
LowerParameter(b, i, p) ==
  LET slot == CreateAlloca(b, p.name, p.type)
  IN  Emit(slot.b, Store(Deref(slot.v), p.type, ParamRef(i - 1)))

LowerFunction(f) ==
  LET arrived == FoldLeftDomain(LAMBDA b, i : LowerParameter(b, i, f.parameters[i]),
                                NewBlock(NewBuildr), f.parameters)
      done == EndBlock(FoldLeft(LowerStatement, arrived, f.body))
  IN  Append(done.globals, [name |-> f.name, defined |-> f.body # <<>>,
                            arity |-> Len(f.parameters), code |-> done.code])

\* Fault: the second test of the condition is left out.
LowerLoopUntested(b, s) ==
  LET before == Lower(b, s.condition)
      start  == before.b.labels
      end    == before.b.labels + 1
      opened == [WithLabels(before.b, 2) EXCEPT
                   !.loops = Append(@, LoopPoint(start, end))]
      tested == Emit(Emit(opened, PutLabel(start)), JmpIfEquals(before.v, False, end))
      again  == Lower(LowerStatement(tested, s.body[1]), s.condition)
      closed == Emit(Emit(again.b, Jmp(start)), PutLabel(end))
  IN  [closed EXCEPT !.loops = Front(@)]

\* Fault: the end label stands before the jump back.
LowerLoopEndInside(b, s) ==
  LET before == Lower(b, s.condition)
      start  == before.b.labels
      end    == before.b.labels + 1
      opened == [WithLabels(before.b, 2) EXCEPT
                   !.loops = Append(@, LoopPoint(start, end))]
      tested == Emit(Emit(opened, PutLabel(start)), JmpIfEquals(before.v, False, end))
      again  == Lower(LowerStatement(tested, s.body[1]), s.condition)
      closed == Emit(Emit(again.b, PutLabel(end)), JmpIfEquals(again.v, True, start))
  IN  [closed EXCEPT !.loops = Front(@)]

\* lower_loop_stmt: the condition is lowered before the loop's first label and
\* again at its end; the first value is the one tested at the label
LowerLoop(b, s) ==
  LET before == Lower(b, s.condition)
      start  == before.b.labels
      end    == before.b.labels + 1
      opened == [WithLabels(before.b, 2) EXCEPT
                   !.loops = Append(@, LoopPoint(start, end))]
      tested == Emit(Emit(opened, PutLabel(start)), JmpIfEquals(before.v, False, end))
      again  == Lower(LowerStatement(tested, s.body[1]), s.condition)
      closed == Emit(Emit(again.b, JmpIfEquals(again.v, True, start)), PutLabel(end))
  IN  [closed EXCEPT !.loops = Front(@)]

\* put_next_branch of lower_if_stmt: the branches nest, each jumping to merge
RECURSIVE PutBranches(_, _, _)
PutBranches(b, s, merge) ==
  IF s.branches = <<>> THEN Emit(FoldLeft(LowerStatement, b, s.else), Jmp(merge))
  ELSE LET then  == b.labels
           cond  == Lower(WithLabels(b, 1), Head(s.branches).condition)
           inner == PutBranches(Emit(cond.b, JmpIfEquals(cond.v, True, then)),
                                [s EXCEPT !.branches = Tail(@)], merge)
           body  == Emit(Emit(inner, Jmp(merge)), PutLabel(then))
       IN  Emit(LowerStatement(body, Head(s.branches).then), Jmp(merge))

LowerIf(b, s) ==
  LET cond  == Lower(b, s.condition)
      then  == cond.b.labels
      merge == cond.b.labels + 1
      jump  == Emit(WithLabels(cond.b, 2), JmpIfEquals(cond.v, True, then))
      body  == Emit(PutBranches(jump, s, merge), PutLabel(then))
  IN  Emit(Emit(LowerStatement(body, s.then), Jmp(merge)), PutLabel(merge))

\* lir::lower_statement
LowerBlock(b, s) == EndBlock(FoldLeft(LowerStatement, NewBlock(b), s.body))
LowerStatement(b, s) ==
  CASE s.kind = "Block" -> LowerBlock(b, s)
    [] s.kind = "Variable" -> LowerVariable(b, s)
    [] s.kind = "If" -> LowerIf(b, s)
    [] s.kind = "Break" -> LowerBreak(b)
    [] s.kind = "Loop" -> LowerLoop(b, s)
    [] s.kind = "Expr" -> Lower(b, s.expr).b
    [] s.kind = "Function" -> [b EXCEPT !.globals = @ \o LowerFunction(s)]
    [] s.kind = "Return" -> LET value == Lower(b, s.value) IN Emit(value.b, Ret(value.v))
=============================================================================
