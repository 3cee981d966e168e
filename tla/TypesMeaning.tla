----------------------------- MODULE TypesMeaning -----------------------------
(***************************************************************************)
(* What the declarations of a program mean, type by type and without a     *)
(* table, what the C compiler makes of the expressions that are emitted    *)
(* for it, and what must therefore hold of a program that was checked.     *)
(***************************************************************************)
EXTENDS Types

Accepted == ToSet(IF phase \in {"checking", "accepted"} THEN seen ELSE Front(seen))

----------------------------------------------------------------------------
(* What the typehints say.                                                 *)

\* A type written out, with the arrays that are in it.
Written(shape) == [shape |-> shape, arrays |-> {}]
PointerRead(const, target) ==
  [shape |-> [kind |-> "Pointer", const |-> const, target |-> target.shape], arrays |-> target.arrays]
ArrayRead(count, element) ==
  LET shape == [kind |-> "Array", count |-> count, target |-> element.shape]
  IN  [shape |-> shape, arrays |-> {shape} \cup element.arrays]
\* What the ids of a table stand for; a struct is its name.
ReadBy(read, layout) ==
  CASE layout.kind = "Pointer" -> PointerRead(layout.mutability, read[layout.target_type])
    [] layout.kind = "Array" -> ArrayRead(layout.element_count, read[layout.element_type])
    [] layout.kind = "Function" ->
         Written([kind |-> "Function",
                  parameters |-> [n \in DOMAIN layout.parameters |-> read[layout.parameters[n]].shape],
                  result |-> read[layout.return_type].shape])
    [] layout.kind = "Struct" -> Written([kind |-> "Struct", name |-> layout.name])
    [] OTHER -> Written(layout)
Reading(table) == LET read[id \in DOMAIN table] == ReadBy(read, table[id]) IN read
Shape(id) == Reading(types)[id].shape
ArraysAt(id) == Reading(types)[id].arrays
\* The type that a typehint says.
SaidBy(said, h) ==
  CASE h.kind = "Builtin" -> Written(TYPES[h.type])
    [] h.kind = "Identifier" -> Reading(types)[names[h.symbol].type]
    [] h.kind = "Pointer" -> PointerRead(h.mutability, said[h.typehint])
    [] h.kind = "Array" -> ArrayRead(h.element_count, said[h.element_type])
Said[h \in Hints] == SaidBy(Said, h)
Meant(h) == Said[h].shape
ArraysIn(h) == Said[h].arrays
MeantOf(proto) ==
  [kind |-> "Function",
   parameters |-> [n \in DOMAIN proto.parameters |-> Meant(proto.parameters[n])],
   result |-> Meant(proto.return_type)]

\* The typehints a statement is written with, and those in its expressions.
HintsOf(s) ==
  CASE s.kind \in {"Variable", "Return"} -> {s.typehint} \ {None}
    [] s.kind = "Prototype" -> ToSet(s.parameters) \cup {s.return_type}
    [] s.kind = "Struct" -> {g.typehint : g \in ToSet(s.fields)}
    [] OTHER -> {}
CastsOf(s) == {e.type : e \in {e \in PartsOf(s) : e.kind = "Cast"}} \ {None}
ArraysWritten == UNION {ArraysIn(h) : h \in UNION {HintsOf(s) \cup CastsOf(s) : s \in Accepted}}
\* Arrays of two different types were asked for, and this hint has one of them.
ArraysMixed(h) == ArraysIn(h) # {} /\ \E a, b \in ArraysWritten : a # b
\* Functions whose parameter lists differ by what one has at its end.
Extends(f, g) ==
  LET a == MeantOf(f)  b == MeantOf(g) IN
  a # b /\ a.result = b.result
    /\ (IsPrefix(a.parameters, b.parameters) \/ IsPrefix(b.parameters, a.parameters))

\* Two declarations share a type exactly when they say the same type: each
\* name has the type that its typehint, prototype or struct gives it, however
\* many types the table held when it was looked up there.  Set apart are what
\* operator== does not tell apart - arrays of any kind (type.h:85-117) and
\* parameter lists of which one begins the other (type.h:97-104) - and a member
\* that is not the first name of its group (check_struct_decl.cc:35).
NamesKeepTheirType ==
  \A s \in Accepted :
    CASE s.kind = "Variable" /\ s.typehint # None ->
           Shape(names[s.name].type) = Meant(s.typehint) \/ ArraysMixed(s.typehint)
      [] s.kind = "Prototype" ->
           \/ Shape(names[s.name].type) = MeantOf(s)
           \/ \E h \in HintsOf(s) : ArraysMixed(h)
           \/ \E other \in Accepted : other.kind = "Prototype" /\ Extends(s, other)
      [] s.kind = "Struct" ->
           \A g \in DOMAIN s.fields :
             LET h == s.fields[g].typehint
                 first == s.fields[g].names[1]
                 earlier == \E k \in 1 .. g - 1 : s.fields[k].names[1] = first
             IN  Shape(FieldOf(types[names[s.name].type].fields, first).type) = Meant(h)
                   \/ earlier \/ ArraysMixed(h)
      [] OTHER -> TRUE

----------------------------------------------------------------------------
(* What C makes of an expression: the type of what is emitted for it, and  *)
(* the reasons for which a C compiler refuses it.  Casts are dropped by    *)
(* the conversion, a subscript is emitted as the target of a sum, and a    *)
(* store, but not an argument, is preceded by a cast to its type.          *)

IntegerKinds == {"Int", "Int64", "Uint", "Uint8", "Char", "Bool"}
Numbers == IntegerKinds \cup Floats
Addresses == {"Pointer", "Array"}       \* a local array is kept behind a pointer
Bad == Plain("Bad")     \* a type of nothing that C would compile
Why(what, left, right) == {<<what, left.kind, right.kind>>}
\* the conversion of a store, an argument or a returned value
Convert(t, s) ==
  IF \/ {t.kind, s.kind} \subseteq Numbers
     \/ t.kind = "Pointer" /\ s.kind \in Addresses \cup IntegerKinds
     \/ t.kind \in IntegerKinds /\ s.kind \in Addresses
     \/ t.kind \in {"Struct", "Void"} /\ t = s
  THEN {} ELSE Why("conversion", t, s)

Bits == [Char |-> 8, Uint8 |-> 8, Bool |-> 1, Int |-> 32, Uint |-> 32, Int64 |-> 64, Float32 |-> 132, Float64 |-> 164]
Wider(a, b) == IF Bits[a.kind] >= Bits[b.kind] THEN a ELSE b
BinopType(op, a, b) ==
  CASE {a.kind, b.kind} \subseteq Numbers ->
         {IF op \in Comparisons \cup Equalities THEN Plain("Int") ELSE Wider(a, b)}
    [] {a.kind, b.kind} \subseteq Addresses /\ op \in Comparisons \cup Equalities \cup {"Sub"} -> {Plain("Int")}
    [] a.kind \in Addresses /\ b.kind \in IntegerKinds /\ op \in {"Add", "Sub"} -> {a}
    [] OTHER -> {}

TargetOf(t) == IF t.kind \in Addresses THEN t.target ELSE Bad
\* what is emitted for an expression: its type, and whether C lets nothing be
\* written there, through a pointer to const or into a member of what is const
EmittedBy(emitted, e) ==
  LET first == emitted[First(e)]
      Value(t) == [type |-> t, const |-> FALSE]
  IN
  CASE e.kind \in {"Integer", "Unary"} -> Value(Plain("Int"))
    [] e.kind = "Float" -> Value(Plain("Float64"))
    [] e.kind = "CString" -> Value([kind |-> "Pointer", const |-> FALSE, target |-> Plain("Char")])
    [] e.kind = "Identifier" -> Value(Shape(names[e.symbol].type))
    [] e.kind \in {"Dereference", "Subscript"} ->
         [type |-> TargetOf(first.type), const |-> first.type.kind = "Pointer" /\ first.type.const]
    [] e.kind = "AddressOf" ->
         Value([kind |-> "Pointer", const |-> first.const, target |-> first.type])
    [] e.kind = "Member_Access" ->
         LET r == first.type
             struct == IF r.kind \in Addresses THEN r.target ELSE r
             fields == IF struct.kind = "Struct" THEN types[names[struct.name].type].fields ELSE <<>>
         IN  [type |-> IF \E f \in ToSet(fields) : f.name = e.member
                       THEN Shape(FieldOf(fields, e.member).type) ELSE Bad,
              const |-> IF r.kind = "Pointer" THEN r.const ELSE first.const]
    [] e.kind = "Function_Call" -> Value(IF first.type.kind = "Function" THEN first.type.result ELSE Bad)
    [] e.kind = "Cast" -> Value(emitted[e.expr].type)
    [] e.kind = "Binop" ->
         LET right == emitted[e.right].type
             ts == BinopType(e.op, first.type, right)
         IN  Value(IF e.op = "Assign" THEN right ELSE IF ts = {} THEN Bad ELSE CHOOSE t \in ts : TRUE)
Emitted[e \in Expressions] == EmittedBy(Emitted, e)
CType(e) == Emitted[e].type
Const(e) == Emitted[e].const

RefusedCall(arguments, schema) ==
  LET ps == schema.parameters IN
  IF Len(arguments) < Len(ps) \/ (~schema.variadic /\ Len(arguments) > Len(ps))
  THEN Why("count", Plain(""), Plain(""))
  ELSE UNION {IF schema.variadic THEN Why("variadic", Plain(""), Plain(""))
              ELSE Convert(Shape(ps[n]), CType(arguments[n])) : n \in DOMAIN ps}
\* why C refuses an expression, not counting its parts'
Refused(e) ==
  CASE e.kind \in {"Dereference", "Subscript"} ->
         LET p == CType(First(e)) IN
         (IF p.kind \in Addresses THEN {} ELSE Why("target", p, p))
           \cup (IF e.kind = "Subscript" /\ CType(e.index).kind \notin IntegerKinds
                 THEN Why("index", p, CType(e.index)) ELSE {})
    [] e.kind = "Member_Access" -> IF CType(e) = Bad THEN Why("member", CType(e.receiver), CType(e.receiver)) ELSE {}
    [] e.kind = "Unary" -> IF CType(e.expression).kind \in Numbers \cup Addresses THEN {}
                           ELSE Why("operands", CType(e.expression), CType(e.expression))
    [] e.kind = "Identifier" -> IF names[e.symbol].sort = "Type" THEN Why("name", Plain(""), Plain("")) ELSE {}
    [] e.kind = "Binop" ->
         LET a == CType(e.left)  b == CType(e.right) IN
         IF e.op = "Assign"
         THEN Convert(a, b) \cup (IF Const(e.left) THEN Why("const", a, b) ELSE {})
                \cup (IF a.kind = "Function" THEN Why("name", a, b) ELSE {})
         ELSE IF BinopType(e.op, a, b) = {} THEN Why("operands", a, b) ELSE {}
    [] e.kind = "Function_Call" ->
         IF e.callee.kind = "Identifier" /\ names[e.callee.symbol].sort = "Function"
         THEN RefusedCall(e.arguments, names[e.callee.symbol].schema)
         ELSE Why("callee", CType(e.callee), CType(e.callee))
    [] OTHER -> {}

\* A type that is written T[n] where C wants T x[n]; a local's own array is not.
Inner(id) == IF types[id].kind = "Array" THEN types[id].element_type ELSE id
\* why C refuses a statement, not counting its expressions
RefusedStatement(s) ==
  CASE s.kind = "Variable" ->
         LET t == Shape(names[s.name].type) IN
         (IF s.initializer = None THEN {} ELSE Convert(t, CType(s.initializer)))
           \cup (IF ArraysAt(Inner(names[s.name].type)) # {} THEN Why("array", t, t) ELSE {})
    [] s.kind = "If" ->
         LET t == CType(s.condition) IN
         IF t.kind \in Numbers \cup Addresses THEN {} ELSE Why("condition", t, t)
    [] s.kind = "Return" -> Convert(Meant(s.typehint), CType(s.value))
    [] s.kind = "Prototype" ->
         IF \E h \in HintsOf(s) : ArraysIn(h) # {} THEN Why("array", Plain(""), Plain("")) ELSE {}
    [] s.kind = "Struct" ->
         LET fs == types[names[s.name].type].fields IN
         (IF \E f \in ToSet(fs) : ArraysAt(f.type) # {} THEN Why("array", Plain(""), Plain("")) ELSE {})
           \cup (IF \E i, j \in DOMAIN fs : i # j /\ fs[i].name = fs[j].name
                 THEN Why("members", Plain(""), Plain("")) ELSE {})
    [] OTHER -> {}

\* Emitted as a type that is not the one it was checked with: a sum or a
\* comparison of what is not a number has the type of its right operand
\* (check_binary_op.cc:97), an assignment is emitted as the value that is
\* assigned, of which the kind is enough (coercer.cc:22, lower_expression.cc:57),
\* and a cast as what is cast.
Alike(t, s) ==
  \/ t = s
  \/ t.kind \in Numbers /\ s.kind \in IntegerKinds
  \/ {t.kind, s.kind} \subseteq Floats
  \/ t.kind = "Pointer" /\ s.kind = "Pointer" /\ t.target = s.target
Misread(e) ==
  \E b \in Parts[e] :
    \/ b.kind = "Binop" /\ b.op \notin Equalities \cup {"Assign"} /\ CType(b.right).kind \notin Numbers
    \/ b.kind = "Binop" /\ b.op = "Assign" /\ ~Alike(CType(b.left), CType(b.right))
    \/ b.kind = "Cast" /\ CType(b.expr).kind \notin IntegerKinds

\* What the checker is known to let through and C is not:
KnownGap(why) ==
  \/ why[1] \in {"operands", "conversion"} /\ why[2] = why[3]   \* coercer.cc:22, one kind is enough
  \/ why[1] = "const"             \* a write is only checked against variables (check_binary_op.cc:142)
  \/ why[1] = "array"             \* c.cc:230 writes an array type in front of its name
  \/ why[1] = "name"              \* any symbol is a value (check_expr.cc:139), any lvalue assigned to
  \/ why[1] = "variadic"          \* no argument of a variadic call is checked (check_function_call.cc:127)
  \/ why[1] = "condition"         \* check_if_stmt.cc:11 asks for no type
  \/ why[1] = "members"           \* check_struct_decl.cc:28, nothing is put in field_names

\* A program that is accepted is a C program: the C compiler, which does not
\* see the checker's types but the operands as they are emitted, finds nothing
\* to refuse in an accepted statement besides the gaps listed above and what
\* is done with a part that is misread.
AcceptedCompiles ==
  \A s \in Accepted :
    /\ \A e \in PartsOf(s) : (\E o \in Operands(e) : Misread(o)) \/ \A why \in Refused(e) : KnownGap(why)
    /\ (\E e \in ExpressionsOf(s) : Misread(e)) \/ \A why \in RefusedStatement(s) : KnownGap(why)

----------------------------------------------------------------------------
(* Widths and contexts.                                                    *)

\* The kinds of the numbers that go into the value of an expression.  A literal
\* is of any, a comparison yields 0 or 1.
FlowBy(flow, e) ==
  CASE e.kind \in {"Integer", "Float", "Unary"} -> {}
    [] e.kind = "Binop" -> IF e.op \in Comparisons \cup Equalities THEN {}
                           ELSE IF e.op = "Assign" THEN flow[e.left]
                           ELSE flow[e.left] \cup flow[e.right]
    [] e.kind = "Cast" -> flow[e.expr]
    [] OTHER -> {CType(e).kind} \cap Numbers
Flow[e \in Expressions] == FlowBy(Flow, e)
Widest(e) == IF Flow[e] = {} THEN 0 ELSE Max({Bits[k] : k \in Flow[e]})
Narrows(target, e) == types[target].kind \in Numbers /\ Widest(e) > Bits[types[target].kind]
LeftIsWider(e) == \E b \in Parts[e] : b.kind = "Binop" /\ Widest(b.left) > Widest(b.right)
HasCast(e) == \E b \in Parts[e] : b.kind = "Cast"

\* What is accepted without a cast keeps its bits: neither an initializer nor
\* an argument brings a wider number into a narrower place, though casts and
\* literals are not looked at again after the check and C cuts a number to size
\* without a word.  Set apart is the sum whose left operand is the wider one:
\* it has the type of the right one (check_binary_op.cc:97), and what does not
\* fit is lost; and what is misread, as the target of k = p, where another
\* pointer is emitted than the one that was checked.
KeepsItsWidth ==
  \A s \in Accepted :
    /\ (s.kind = "Variable" /\ s.initializer # None /\ Narrows(names[s.name].type, s.initializer))
          => LeftIsWider(s.initializer) \/ HasCast(s.initializer) \/ Misread(s.initializer)
    /\ \A e \in PartsOf(s) :
         (e.kind = "Function_Call" /\ ~names[e.callee.symbol].schema.variadic) =>
           \A n \in DOMAIN e.arguments :
             Narrows(names[e.callee.symbol].schema.parameters[n], e.arguments[n])
               => LeftIsWider(e.arguments[n]) \/ HasCast(e.arguments[n]) \/ Misread(e.arguments[n])

\* An index is a place where a literal meets a context that is not its own.
IndexIsLiteral(e) ==
  \E s \in Parts[e] : s.kind = "Subscript" /\ \E i \in Parts[s.index] : i.kind = "Integer"
\* Writing down the type of a variable that was inferred changes nothing: the
\* initializer is accepted where its own type is expected, and gets that type.
\* The context goes down to every literal of the expression, those of an index
\* included, where int64 is refused as "not an integer" (check_expr.cc:201);
\* indices with literals are set apart.
ContextIsHarmless ==
  \A s \in Accepted :
    (s.kind = "Variable" /\ s.typehint = None /\ ~IndexIsLiteral(s.initializer)) =>
      LET type == names[s.name].type
          again == Check(s.initializer, type, types)
      IN  again.status = "Done" /\ TryCoerce(type, again.type, types, TRUE)
=============================================================================
