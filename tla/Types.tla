-------------------------------- MODULE Types --------------------------------
(***************************************************************************)
(* The types of a program and the check of its declarations and            *)
(* expressions (src/src/semantics/type/, entities/type.h and checks/): one  *)
(* table of types that every declaration shares, a type context that is     *)
(* handed down to the literals of an expression, and coercion.  What waits  *)
(* for a symbol is left to Workers; here every name a statement uses is     *)
(* declared above it.  TypesMeaning states what must hold of it.           *)
(***************************************************************************)
EXTENDS Tree, TypeTable

CONSTANTS
  Programs,       \* a sequence of texts: for each place, the statements that may stand there
  Expressions,    \* the expressions in them, each with its parts
  Hints,          \* the typehints in them, each with its parts
  Height, Depth   \* how deep each of these is nested, and how deep at most

VARIABLES
  types,    \* Semantic_Storage::types: a layout for each type id
  names,    \* the symbols: name -> [sort, type, schema]
  text,     \* which of Programs is checked
  seen,     \* the statements so far; all but a last one that stopped it were Done
  phase     \* "checking", "accepted", "rejected", "aborted" or "crashed"

vars == <<types, names, text, seen, phase>>

\* Trees that the symbol-resolved ones of Tree do not have; a typehint is an
\* Identifier or one of the last three.
Float                == [kind |-> "Float"]
CString              == [kind |-> "CString"]
Member(e, m)         == [kind |-> "Member_Access", receiver |-> e, member |-> m]
Eval(e)              == [kind |-> "Eval", expr |-> e]
Call(f, as)          == [kind |-> "Function_Call", callee |-> f, arguments |-> as]
Builtin(id)          == [kind |-> "Builtin", type |-> id]
PointerTo(const, h)  == [kind |-> "Pointer", mutability |-> const, typehint |-> h]
ArrayOf(n, h)        == [kind |-> "Array", element_count |-> n, element_type |-> h]
\* An absent typehint or initializer is None; a field group declares several
\* names; a return is checked against the type of the function it stands in.
None                 == [kind |-> "None"]
Declare(x, h, e)     == [kind |-> "Variable", name |-> x, typehint |-> h, initializer |-> e,
                         constant |-> FALSE]
Constant(x, e)       == [Declare(x, None, e) EXCEPT !.constant = TRUE]
Prototype(f, ps, r, variadic) ==
  [kind |-> "Prototype", name |-> f, parameters |-> ps, return_type |-> r, variadic |-> variadic]
Struct(s, groups)    == [kind |-> "Struct", name |-> s, fields |-> groups]
Group(ns, h)         == [names |-> ns, typehint |-> h]
ReturnIn(h, e)       == [kind |-> "Return", typehint |-> h, value |-> e]
Condition(e)         == [kind |-> "If", condition |-> e]

\* what is behind a pointer or an array, and the type over its id
Target(h) == IF h.kind = "Pointer" THEN h.typehint ELSE h.element_type
Over(h, id) == IF h.kind = "Pointer" THEN PointerType(h.mutability, id) ELSE ArrayType(h.element_count, id)

\* The parts of an expression, itself among them.
Operands(e) ==
  CASE e.kind \in {"Integer", "Float", "CString", "Identifier"} -> {}
    [] e.kind = "Function_Call" -> {e.callee} \cup ToSet(e.arguments)
    [] e.kind = "Binop" -> {e.left, e.right}
    [] e.kind = "Subscript" -> {e.expr, e.index}
    [] e.kind = "Member_Access" -> {e.receiver}
    [] e.kind \in {"Dereference", "AddressOf"} -> {e.operand}
    [] e.kind \in {"Cast", "Eval"} -> {e.expr}
    [] e.kind = "Unary" -> {e.expression}
Parts[e \in Expressions] == {e} \cup UNION {Parts[o] : o \in Operands(e)}

\* The trees over the given expressions and typehints.
ExpressionTrees ==
  [kind : {"Integer"}, value : Int] \cup {Float, CString}
    \cup [kind : {"Identifier"}, symbol : STRING]
    \cup [kind : {"Dereference", "AddressOf"}, operand : Expressions]
    \cup [kind : {"Subscript"}, expr : Expressions, index : Expressions]
    \cup [kind : {"Unary"}, op : {"Not"}, expression : Expressions]
    \cup [kind : {"Member_Access"}, receiver : Expressions, member : STRING]
    \cup [kind : {"Binop"}, op : STRING, left : Expressions, right : Expressions]
    \cup [kind : {"Cast"}, type : Hints \cup {None}, expr : Expressions]
    \cup [kind : {"Function_Call"}, callee : Expressions, arguments : Seq(Expressions)]
    \cup [kind : {"Eval"}, expr : Expressions]
HintTrees ==
  [kind : {"Builtin"}, type : DOMAIN TYPES]
    \cup [kind : {"Identifier"}, symbol : STRING]
    \cup [kind : {"Pointer"}, mutability : BOOLEAN, typehint : Hints]
    \cup [kind : {"Array"}, element_count : Nat, element_type : Hints]
Statements ==
  [kind : {"Variable"}, name : STRING, typehint : Hints \cup {None},
   initializer : Expressions \cup {None}, constant : BOOLEAN]
    \cup [kind : {"Expr"}, expr : Expressions]
    \cup [kind : {"If"}, condition : Expressions]
    \cup [kind : {"Return"}, typehint : Hints, value : Expressions]
    \cup [kind : {"Prototype"}, name : STRING, parameters : Seq(Hints), return_type : Hints,
          variadic : BOOLEAN]
    \cup [kind : {"Struct"}, name : STRING, fields : Seq([names : Seq(STRING) \ {<<>>}, typehint : Hints])]
\* What the parser hands over: no text is empty, and every tree is finite.
ASSUME ProgramsAssumption ==
  /\ Programs \in Seq(Seq(SUBSET Statements) \ {<<>>})
  /\ Expressions \subseteq ExpressionTrees
  /\ Hints \subseteq HintTrees
ASSUME DepthAssumption ==
  /\ Depth \in Nat
  /\ Height \in [Expressions \cup Hints -> 0 .. Depth]
  /\ \A e \in Expressions : \A o \in Operands(e) : Height[o] < Height[e]
  /\ \A h \in Hints : h.kind \in {"Pointer", "Array"} => Height[Target(h)] < Height[h]

----------------------------------------------------------------------------
(* Typehints and coercion.                                                 *)

CheckIdentifier(x, table) == IF x \in DOMAIN names THEN Done(names[x].type, table) ELSE Failed(table)

\* resolve_typehint; what stands behind a pointer or an array goes through
\* check_expression, where a name need not be the name of a type.
CheckHintBy(resolve, h, table) == IF h.kind = "Identifier" THEN CheckIdentifier(h.symbol, table)
                                                          ELSE resolve[h][table]
ResolveBy(resolve, h, table) ==
  CASE h.kind = "Builtin" -> Done(h.type, table)
    [] h.kind = "Identifier" ->
         IF h.symbol \in DOMAIN names /\ names[h.symbol].sort = "Type"
         THEN Done(names[h.symbol].type, table) ELSE Failed(table)
    [] h.kind \in {"Pointer", "Array"} ->
         LET target == CheckHintBy(resolve, Target(h), table) IN
         IF IsDone(target) THEN RegisterOrGet(Over(h, target.type), target.types, TRUE) ELSE target
ResolveHint[h \in Hints] == [table \in Tables |-> ResolveBy(ResolveHint, h, table)]
Resolve(h, table) == ResolveHint[h][table]
CheckHint(h, table) == CheckHintBy(ResolveHint, h, table)

\* Fault: a wider integer is taken for a narrower one.
FitsAny(target, source) == TRUE
\* the order of Type_Kind among the signed kinds
Fits(target, source) == target = "Int64" \/ source = "Int"
Signed == {"Int", "Int64"}
Unsigned == {"Uint", "Uint8"}
Floats == {"Float32", "Float64"}
CheckTypeCoercion(target, source) ==
  CASE target = source -> "Ok"
    [] {target, source} \subseteq Signed /\ Fits(target, source) -> "Ok"
    [] target \in Unsigned /\ source \in Signed -> "IntegerSignChange"
    [] target \in Signed /\ source \in Unsigned -> "IntegerSignChange"
    [] target \in Signed \cup Unsigned /\ source \in Floats -> "Float_Truncating"
    [] source \in Signed \cup Unsigned /\ target \in Floats -> "Int_Float_Promotion"
    [] OTHER -> "Invalid"
TryCoerce(target, source, table, strict) ==
  LET cr == CheckTypeCoercion(table[target].kind, table[source].kind) IN
  IF strict THEN cr = "Ok" ELSE cr # "Invalid"

----------------------------------------------------------------------------
(* check_expression: the type of an expression, and the types it adds.     *)

\* Fault: a literal takes the type that is expected of it, whatever it is.
LiteralExpected(context, table) == IF context # NoContext THEN context ELSE IntId
CheckInteger(context, table) ==
  IF context # NoContext /\ TryCoerce(context, IntId, table, FALSE) THEN context ELSE IntId

\* expression_is_lvalue: "abort" where its switch has no case
Lvalue(e, id) ==
  CASE e.kind \in {"Integer", "Binop", "Function_Call", "AddressOf"} -> "no"
    [] e.kind \in {"Identifier", "Member_Access"} -> IF id # NamespaceId THEN "yes" ELSE "no"
    [] e.kind \in {"Dereference", "Subscript"} -> "yes"
    [] OTHER -> "abort"
LvalueOr(e, id, table, good) ==
  CASE Lvalue(e, id) = "yes" -> good
    [] Lvalue(e, id) = "no" -> Failed(table)
    [] Lvalue(e, id) = "abort" -> Stop("Aborted", table)

UnlessConstant(e, id, table) ==
  IF e.kind = "Identifier" /\ names[e.symbol].sort = "Constant" THEN Failed(table) ELSE Done(id, table)
Comparisons == {"LessThan", "GreaterThan", "LessThanEquals", "GreaterThanEquals"}
Equalities == {"Equals", "NotEquals"}
\* check_basic_, check_equality_ and check_assign_compatibility
CheckOperands(e, left, right, table) ==
  CASE e.op = "Assign" ->
         IF ~TryCoerce(left, right, table, FALSE) THEN Failed(table)
         ELSE LvalueOr(e.left, left, table, UnlessConstant(e.left, left, table))
    [] e.op \in Equalities ->
         IF TryCoerce(left, right, table, TRUE) /\ left \in {IntId, CharId} THEN Done(BoolId, table)
                                                                        ELSE Failed(table)
    [] OTHER -> IF TryCoerce(left, right, table, TRUE) THEN Done(right, table) ELSE Failed(table)

\* Fault: whatever is not a pointer is its own target.
ElementLoosely(id, table) ==
  CASE table[id].kind = "Pointer" -> {table[id].target_type}
    [] table[id].kind = "Array" -> {table[id].element_type}
    [] OTHER -> {id}
\* what *p or p[i] denotes, if it may be written at all
Element(id, table) ==
  CASE table[id].kind = "Pointer" -> {table[id].target_type} \ {VoidId}
    [] table[id].kind = "Array" -> {table[id].element_type}
    [] OTHER -> {}

\* a struct, or the struct a pointer points to, and its member
StructOf(id, table) == IF table[id].kind = "Pointer" THEN table[id].target_type ELSE id
\* get_field_data: the first of that name
FieldOf(fields, m) == fields[Min({i \in DOMAIN fields : fields[i].name = m})]
CheckMember(e, id, table) ==
  LET struct == table[StructOf(id, table)] IN
  IF struct.kind = "Struct" /\ \E f \in ToSet(struct.fields) : f.name = e.member
  THEN Done(FieldOf(struct.fields, e.member).type, table) ELSE Failed(table)

\* Fault: one argument more than there are parameters is looked at in a
\* variadic call too.
HasParameterAlways(n, schema) == n - 1 <= Len(schema.parameters)
\* is_within_param_range: <= where < is meant
HasParameter(n, schema) == n - 1 <= Len(schema.parameters) /\ ~schema.variadic

\* What the n-th argument, which is checked by check, makes of the call so far,
\* [result, over]; one that fails fails the call when the others were checked.
CheckArgument(check, n, schema, call) ==
  LET param == schema.parameters[n]
      sofar == call.result
      arg == check[IF HasParameter(n, schema) THEN param ELSE NoContext][sofar.types]
      bad == \/ arg.status = "Failed"
             \/ HasParameter(n, schema) /\ sofar.status = "Done"
                  /\ ~TryCoerce(param, arg.type, arg.types, TRUE)
      End(r) == [result |-> r, over |-> TRUE]
  IN  CASE call.over -> call
        [] ~call.over /\ HasParameter(n, schema) /\ n > Len(schema.parameters) -> End(Stop("Crashed", sofar.types))
        [] OTHER ->
             CASE arg.status \in {"Aborted", "Crashed"} -> End(arg)
               [] arg.status = "Done" /\ arg.type = NamespaceId -> End(Failed(arg.types))
               [] OTHER -> [call EXCEPT !.result =
                              Result(IF bad THEN "Failed" ELSE sofar.status, sofar.type, arg.types)]
\* the arguments in order; r is the call before them
CheckArguments(checks, schema, r) ==
  LET after[n \in 0 .. Len(checks)] ==
        IF n = 0 THEN [result |-> r, over |-> FALSE]
                 ELSE CheckArgument(checks[n], n, schema, after[n - 1])
  IN  after[Len(checks)].result

EnoughArguments(count, schema) ==
  /\ count >= Len(schema.parameters)
  /\ schema.variadic \/ count <= Len(schema.parameters)
CheckFunctionCall(checks, e, callee) ==
  LET layout == callee.types[callee.type]
      symbol == names[e.callee.symbol]
      status == IF EnoughArguments(Len(e.arguments), symbol.schema) THEN "Done" ELSE "Failed"
  IN  CASE layout.kind # "Function" -> Failed(callee.types)
        [] layout.kind = "Function" /\ (e.callee.kind # "Identifier" \/ symbol.sort # "Function") ->
             Stop("Aborted", callee.types)
        [] OTHER -> CheckArguments(checks, symbol.schema,
                                Result(status, layout.return_type, callee.types))

CheckCast(check, e, context, table) ==
  LET target == IF e.type # None THEN Resolve(e.type, table)
                ELSE IF context # NoContext THEN Done(context, table) ELSE Failed(table)
      v == check[e.expr][NoContext][target.types]
  IN  CASE ~IsDone(target) -> target
        [] IsDone(target) /\ ~IsDone(v) -> v
        [] OTHER -> IF v.type = target.type \/ TryCoerce(target.type, v.type, v.types, FALSE)
                    THEN Done(target.type, v.types) ELSE Failed(v.types)

\* the operand that is checked first, with the context of the whole
First(e) ==
  CASE e.kind \in {"Dereference", "AddressOf"} -> e.operand
    [] e.kind \in {"Subscript", "Eval"} -> e.expr
    [] e.kind = "Unary" -> e.expression
    [] e.kind = "Member_Access" -> e.receiver
    [] e.kind = "Binop" -> e.left
    [] e.kind = "Function_Call" -> e.callee
TheOnly(ids, table) == IF ids = {} THEN Failed(table) ELSE Done(CHOOSE id \in ids : TRUE, table)
\* what is made of it, v: a Done result
CheckOn(check, e, v, context) ==
  CASE e.kind = "Dereference" ->
         TheOnly(IF v.types[v.type].kind = "Pointer" THEN Element(v.type, v.types) ELSE {}, v.types)
    [] e.kind = "AddressOf" ->
         LvalueOr(e.operand, v.type, v.types, RegisterOrGet(PointerType(FALSE, v.type), v.types, TRUE))
    [] e.kind = "Subscript" ->
         LET i == check[e.index][context][v.types] IN
         CASE ~IsDone(i) -> i
           [] OTHER -> TheOnly(IF TryCoerce(IntId, i.type, i.types, TRUE) THEN Element(v.type, i.types)
                                                                        ELSE {}, i.types)
    [] e.kind = "Unary" -> IF TryCoerce(BoolId, v.type, v.types, TRUE) THEN Done(BoolId, v.types)
                                                                     ELSE Failed(v.types)
    [] e.kind = "Member_Access" -> CheckMember(e, v.type, v.types)
    [] e.kind = "Binop" ->
         LET r == check[e.right][v.type][v.types]
         IN  IF IsDone(r) THEN CheckOperands(e, v.type, r.type, r.types) ELSE r
    [] e.kind = "Function_Call" ->
         CheckFunctionCall([n \in DOMAIN e.arguments |-> check[e.arguments[n]]], e, v)
    [] e.kind = "Eval" -> Stop("Aborted", v.types)
CheckBy(check, e, context, table) ==
  CASE e.kind = "Integer" -> Done(CheckInteger(context, table), table)
    [] e.kind = "Float" -> Done(Float32Id, table)
    [] e.kind = "CString" -> RegisterOrGet(PointerType(TRUE, CharId), table, TRUE)
    [] e.kind = "Identifier" -> CheckIdentifier(e.symbol, table)
    [] e.kind = "Cast" -> CheckCast(check, e, context, table)
    [] OTHER -> LET v == check[First(e)][context][table]
                IN  IF IsDone(v) THEN CheckOn(check, e, v, context) ELSE v
CheckTree[e \in Expressions] ==
  [context \in Nat |-> [table \in Tables |-> CheckBy(CheckTree, e, context, table)]]
Check(e, context, table) == CheckTree[e][context][table]

----------------------------------------------------------------------------
(* check_statement and the declarations, one statement a step.             *)

Verdict == [Done |-> IF Len(seen) + 1 = Len(Programs[text]) THEN "accepted" ELSE "checking",
            Failed |-> "rejected", Aborted |-> "aborted", Crashed |-> "crashed"]
With(declared) == [x \in DOMAIN names \cup DOMAIN declared |->
                     IF x \in DOMAIN declared THEN declared[x] ELSE names[x]]
Conclude(s, r, declared) ==
  /\ types' = r.types
  /\ phase' = Verdict[r.status]
  /\ seen' = Append(seen, s)
  /\ names' = IF r.status = "Done" THEN With(declared) ELSE names
  /\ UNCHANGED text
Named(s, sort, id) == [x \in {s.name} |-> [sort |-> sort, type |-> id]]
Fresh(s, r) == IF s.name \in DOMAIN names THEN Failed(types) ELSE r

\* check_variable; the compile-time engine that is asked for the value of a
\* constant (Engine::eval) is not written yet
Valued(s, r) == IF r.status = "Done" /\ s.constant THEN Stop("Aborted", r.types) ELSE r
CheckTypedVariable(s) ==
  /\ s.kind = "Variable" /\ s.typehint # None
  /\ LET h == Resolve(s.typehint, types)
         v == Check(s.initializer, h.type, h.types)
         r == CASE ~IsDone(h) \/ s.initializer = None -> h
                [] IsDone(h) /\ s.initializer # None /\ ~IsDone(v) -> v
                [] OTHER -> IF TryCoerce(h.type, v.type, v.types, TRUE)
                            THEN Done(h.type, v.types) ELSE Failed(v.types)
     IN  Conclude(s, Fresh(s, Valued(s, r)), Named(s, "Variable", r.type))
CheckInferredVariable(s) ==
  /\ s.kind = "Variable" /\ s.typehint = None
  /\ LET r == IF s.initializer = None THEN Failed(types)
              ELSE Fresh(s, Valued(s, Check(s.initializer, NoContext, types)))
     IN  Conclude(s, r, Named(s, "Variable", r.type))

\* the statements that only check an expression: itself, a condition of
\* whatever type, a returned value against the function's type
CheckExpression(s) == s.kind = "Expr" /\ Conclude(s, Check(s.expr, NoContext, types), <<>>)
CheckCondition(s) == s.kind = "If" /\ Conclude(s, Check(s.condition, NoContext, types), <<>>)
\* (a function whose own return type is not found is not checked)
CheckReturn(s) ==
  /\ s.kind = "Return"
  /\ LET return == Resolve(s.typehint, types)
         v == Check(s.value, NoContext, return.types)
     IN  Conclude(s, CASE ~IsDone(return) -> return
                       [] IsDone(return) /\ ~IsDone(v) -> v
                       [] OTHER -> IF TryCoerce(return.type, v.type, v.types, FALSE) THEN v ELSE Failed(v.types),
                  <<>>)

\* The hints of hs in order: the ids they denote, and the table after them.
ResolveNext(h, sofar) ==
  LET r == Resolve(h, sofar.types)
  IN  IF IsDone(sofar) THEN [r EXCEPT !.type = Append(sofar.type, r.type)] ELSE sofar
ResolveAll(hs) ==
  LET after[n \in 0 .. Len(hs)] ==
        IF n = 0 THEN Result("Done", <<>>, types) ELSE ResolveNext(hs[n], after[n - 1])
  IN  after[Len(hs)]

\* check_function_prototype and generate_function_call_schema
CheckPrototype(s) ==
  /\ s.kind = "Prototype"
  /\ \E lucky \in BOOLEAN :
       LET ps == ResolveAll(s.parameters)
           return == IF IsDone(ps) THEN CheckHint(s.return_type, ps.types) ELSE ps
           r == IF IsDone(return)
                THEN RegisterOrGet(FunctionType(ps.type, return.type), return.types, lucky)
                ELSE return
       IN  Conclude(s, Fresh(s, r), [x \in {s.name} |-> [sort |-> "Function", type |-> r.type,
                         schema |-> [parameters |-> ps.type, variadic |-> s.variadic]]])

\* check_struct_decl: the first name of a group stands for each name of it, and
\* field_names, which redeclarations are looked for in, stays empty
FieldData(groups, ids) ==
  FlattenSeq([g \in DOMAIN groups |->
    [n \in DOMAIN groups[g].names |-> [name |-> groups[g].names[1], type |-> ids[g]]]])
CheckStruct(s) ==
  /\ s.kind = "Struct"
  /\ LET hs == ResolveAll([i \in DOMAIN s.fields |-> s.fields[i].typehint])
         r == IF IsDone(hs)
              THEN RegisterOrGet(StructType(s.name, FieldData(s.fields, hs.type)), hs.types, TRUE)
              ELSE hs
     IN  Conclude(s, Fresh(s, r), Named(s, "Type", r.type))

Init ==
  /\ types = TYPES
  /\ names = <<>>
  /\ text \in DOMAIN Programs
  /\ seen = <<>>
  /\ phase = "checking"
Next ==
  /\ phase = "checking"
  /\ \E s \in Programs[text][Len(seen) + 1] :
       \/ CheckTypedVariable(s) \/ CheckInferredVariable(s)
       \/ CheckExpression(s) \/ CheckCondition(s) \/ CheckReturn(s)
       \/ CheckPrototype(s) \/ CheckStruct(s)
Spec == Init /\ [][Next]_vars

----------------------------------------------------------------------------
(* How a check ends.                                                       *)

ExpressionsOf(s) ==
  CASE s.kind = "Variable" -> {s.initializer} \ {None}
    [] s.kind = "Expr" -> {s.expr}
    [] s.kind = "If" -> {s.condition}
    [] s.kind = "Return" -> {s.value}
    [] OTHER -> {}
PartsOf(s) == UNION {Parts[e] : e \in ExpressionsOf(s)}

NoLvalueCase == {"Float", "CString", "Unary", "Cast", "Eval"}
\* what the checker has no code for
NotWritten(e) ==
  \/ e.kind = "Eval"
  \/ e.kind = "AddressOf" /\ e.operand.kind \in NoLvalueCase
  \/ e.kind = "Binop" /\ e.op = "Assign" /\ e.left.kind \in NoLvalueCase
  \/ e.kind = "Function_Call" /\ (e.callee.kind = "Identifier" => names[e.callee.symbol].sort # "Function")
TooManyArguments(e) ==
  /\ e.kind = "Function_Call" /\ e.callee.kind = "Identifier"
  /\ LET schema == names[e.callee.symbol].schema
     IN  ~schema.variadic /\ Len(e.arguments) > Len(schema.parameters)
\* A program, right or wrong, is answered: the checker stops without a verdict
\* only at a construct it has no case for, and it falls only over a call with
\* more arguments than the function has parameters, which it has just reported:
\* the first argument too many is still looked up among the parameters
\* (check_function_call.cc:127, <= where < is meant).
EndsWithAVerdict ==
  /\ phase = "aborted" => \/ Last(seen).kind = "Variable" /\ Last(seen).constant
                          \/ \E e \in PartsOf(Last(seen)) : NotWritten(e)
  /\ phase = "crashed" => \E e \in PartsOf(Last(seen)) : TooManyArguments(e)

\* The symbols of declarations; a type is a struct's, and a function has one
\* type for each of its parameters.
IsSymbol(symbol, table) ==
  /\ symbol.type \in DOMAIN table
  /\ \/ symbol.sort = "Variable"
     \/ symbol.sort = "Type" /\ table[symbol.type].kind = "Struct"
     \/ /\ symbol.sort = "Function" /\ table[symbol.type].kind = "Function"
        /\ symbol.schema.parameters \in Seq(DOMAIN table)

\* The table is a table of types, each name has one of them that goes with its
\* sort, and the statements seen are those of the text, in order.
TypeOK ==
  /\ phase \in {"checking", "accepted", "rejected", "aborted", "crashed"}
  /\ types \in Tables /\ IsTable(types)
  /\ \A x \in DOMAIN names : IsSymbol(names[x], types)
  /\ text \in DOMAIN Programs
  /\ seen \in Seq(Statements) /\ Len(seen) <= Len(Programs[text])
  /\ \A n \in DOMAIN seen : seen[n] \in Programs[text][n]
  /\ phase = "checking" => Len(seen) < Len(Programs[text])
  /\ phase = "accepted" => Len(seen) = Len(Programs[text])
=============================================================================
