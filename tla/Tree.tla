-------------------------------- MODULE Tree --------------------------------
(***************************************************************************)
(* The checked syntax tree that the back half of the compiler starts from: *)
(* the expressions and statements of src/src/ast/, each identifier already *)
(* replaced by the symbol the semantic pass linked to its place.  A symbol *)
(* carries what the later passes ask of it: its name, where it is declared *)
(* and the kind of its type.                                               *)
(***************************************************************************)
EXTENDS Integers, Sequences

\* "int", "char" and "ptr" are words; a "pair" is a struct of two members, a
\* "row" an array of RowLength ints.
RowLength == 2
CharHalf == 4       \* a char holds -CharHalf .. CharHalf - 1, standing for int8_t

Symbol(name, home, type) == [name |-> name, home |-> home, type |-> type]
Local(name, type)  == Symbol(name, "local", type)
Global(name)       == Symbol(name, "global", "int")
Callable(name, home) == Symbol(name, home, "function")

\* ast/expressions.h
Integer(v)          == [kind |-> "Integer", value |-> v]
Identifier(s)       == [kind |-> "Identifier", symbol |-> s]
Function_Call(f, as) == [kind |-> "Function_Call", callee |-> Identifier(f), arguments |-> as]
Binop(op, l, r)     == [kind |-> "Binop", op |-> op, left |-> l, right |-> r]
Assign(l, r)        == Binop("Assign", l, r)
Subscript(e, i)     == [kind |-> "Subscript", expr |-> e, index |-> i]
Member_Access(e, m, pointer) ==
  [kind |-> "Member_Access", receiver |-> e, member |-> m, pointer |-> pointer]
Dereference(e)      == [kind |-> "Dereference", operand |-> e]
AddressOf(e)        == [kind |-> "AddressOf", operand |-> e]
Cast(type, e)       == [kind |-> "Cast", type |-> type, expr |-> e]
Not(e)              == [kind |-> "Unary", op |-> "Not", expression |-> e]

\* ast/statements.h; an initializer and an else are sequences of at
\* most one, the body of a loop a sequence of one.
Variable(s, init)   == [kind |-> "Variable", symbol |-> s, initializer |-> init]
Block(body)         == [kind |-> "Block", body |-> body]
If(c, then, branches, els) ==
  [kind |-> "If", condition |-> c, then |-> then, branches |-> branches, else |-> els]
Branch(c, then)     == [condition |-> c, then |-> then]
Return(e)           == [kind |-> "Return", value |-> e]
For_Ever(body)      == [kind |-> "For_Ever", body |-> <<body>>]
While_Loop(c, body) == [kind |-> "While_Loop", condition |-> c, body |-> <<body>>]
Break               == [kind |-> "Break"]
Expr(e)             == [kind |-> "Expr", expr |-> e]
\* a function: a declaration whose initializer is EXPR_Function; body is
\* <<>> when it is only declared (body_is_defined is FALSE)
Function(s, params, body) ==
  [kind |-> "Function", symbol |-> s, parameters |-> params, body |-> body]

\* What a cast or a store of a type does to the number it is given.
AsType(type, v) == IF type = "char" THEN ((v + CharHalf) % (2 * CharHalf)) - CharHalf ELSE v

\* The value a declaration without initializer gives its variable.
Zero(type) == CASE type = "pair" -> [m \in {"a", "b"} |-> 0]
                [] type = "row"  -> [i \in 0 .. RowLength - 1 |-> 0]
                [] OTHER -> 0

\* The C operators (write_value's table); a comparison yields 0 or 1.
Truth(b) == IF b THEN 1 ELSE 0
Compute(op, x, y) ==
  CASE op = "Add" -> x + y
    [] op = "Sub" -> x - y
    [] op = "Mul" -> x * y
    [] op = "Div" -> x \div y
    [] op = "Equals" -> Truth(x = y)
    [] op = "NotEquals" -> Truth(x # y)
    [] op = "LessThan" -> Truth(x < y)
    [] op = "GreaterThan" -> Truth(x > y)
    [] op = "LessThanEquals" -> Truth(x <= y)
    [] op = "GreaterThanEquals" -> Truth(x >= y)
=============================================================================
