------------------------------- MODULE Syntax -------------------------------
(***************************************************************************)
(* The words and the trees of the parser, and how a tree is written.  A    *)
(* token is the word it is written with.  The writer puts a parenthesis    *)
(* only where the tree would be read as another one without it; it is what *)
(* the parser is measured by, and is not taken from the parser's code.     *)
(***************************************************************************)
EXTENDS Tree, SequencesExt

Error == [kind |-> "Error"]
Null  == [kind |-> "Null"]
NoBody == [kind |-> "NoBody"]
Eof   == "<eof>"

Names    == {"a", "b", "c"}
IntLiterals == {"1", "2"}
Paths    == {"'f'"}
CStrings == {"c'f'"}
TypeWords == {"int", "uint", "int64", "int8", "int16", "int32", "char", "uchar", "void", "string",
              "bool", "float32", "float64", "isize", "usize"}
STMT_HEAD == {"if", "do", "for", "cast", "continue", "import", "enum", "break", "func", "return",
              "[", "(", "{", "++", "--", "true", "false"} \cup IntLiterals \cup Paths

\* What the parser adds to the trees of Tree: names instead of symbols.
Call(callee, as)      == [kind |-> "Call", callee |-> callee, arguments |-> as]
Member(receiver, m)   == [kind |-> "Member", receiver |-> receiver, member |-> m]
Unary(op, e)          == [kind |-> "Unary", op |-> op, expression |-> e]
CastTo(hint, e)       == [kind |-> "Cast", typehint |-> hint, expr |-> e]
Eval(e)               == [kind |-> "Eval", expr |-> e]
CString(text)         == [kind |-> "CString", value |-> text]
Use(path)             == [kind |-> "Use", path |-> path]
Struct(fields)        == [kind |-> "Struct", fields |-> fields]
Namespace(defs)       == [kind |-> "Namespace", definitions |-> defs]
Typehint(word)        == [kind |-> "Typehint", word |-> word]
Pointer(const, t)     == [kind |-> "Pointer", const |-> const, typehint |-> t]
Array(n, t)           == [kind |-> "Array", element_count |-> n, element_type |-> t]
Declaration(n, hint, constant, init) ==
  [kind |-> "Declaration", name |-> n, typehint |-> hint, constant |-> constant, initializer |-> init]


----------------------------------------------------------------------------
(* How tightly an expression holds together: 0 for one that reaches as far *)
(* to its right as it can, -1 for one that only stands where a whole       *)
(* expression is expected.                                                 *)

OperatorLevel(op) == CASE op = "=" -> 0
                       [] op \in {"==", "!="} -> 1
                       [] op \in {"<", ">", "<=", ">="} -> 2
                       [] op \in {"+", "-"} -> 4
                       [] op \in {"*", "/"} -> 5
Level(e) ==
  CASE e.kind \in {"Function", "Struct", "Namespace", "Use"} -> -1
    [] e.kind \in {"AddressOf", "Eval"} -> 0
    [] e.kind = "Binop" -> OperatorLevel(e.op)
    [] e.kind \in {"Unary", "Cast", "Typehint", "Pointer", "Array"} -> 6
    [] e.kind \in {"Call", "Member", "Subscript"} -> 7
    [] e.kind = "Dereference" -> 8
    [] OTHER -> 9

RECURSIVE WriteExpr(_, _), WriteType(_), WriteStatement(_)
Each(list, Write(_), between) ==
  FoldLeftDomain(LAMBDA text, i : text \o (IF i = 1 THEN <<>> ELSE between) \o Write(list[i]), <<>>, list)

WriteType(t) ==
  CASE t.kind = "Typehint" -> <<t.word>>
    [] t.kind = "Pointer" -> <<"*">> \o (IF t.const THEN <<"const">> ELSE <<>>) \o WriteType(t.typehint)
    [] t.kind = "Array" -> <<"[">> \o WriteExpr(t.element_count, -1) \o <<"]">> \o WriteType(t.element_type)
    [] OTHER -> WriteExpr(t, 7)

WriteParameter(a) == IF a = Error THEN <<>> ELSE <<a.name, ":">> \o WriteType(a.typehint)
WriteArgument(a) == (IF a.name = <<>> THEN <<>> ELSE <<":", a.name[1]>>) \o WriteExpr(a.argument, -1)
WriteField(f) ==
  Each(SelectSeq(f.names, LAMBDA n : n # "<garbage>"), LAMBDA n : <<n>>, <<",">>)
    \o <<":">> \o WriteType(f.typehint) \o <<";">>
WriteFunction(f) ==
  <<"func">> \o (IF f.generics = <<>> THEN <<>> ELSE <<"<">> \o Each(f.generics, WriteParameter, <<",">>) \o <<">">>)
    \o <<"(">> \o Each(f.prototype.parameters, WriteParameter, <<",">>)
    \o (IF ~f.prototype.is_variadic THEN <<>>
        ELSE (IF f.prototype.parameters = <<>> THEN <<>> ELSE <<",">>) \o <<"...">>) \o <<")">>
    \o (IF f.return_type = <<>> THEN <<>> ELSE <<"->">> \o WriteType(f.return_type[1]))
    \o Each(f.attributes, LAMBDA n : <<"#canon_name", n>>, <<>>)
    \o (IF f.body = NoBody THEN <<"---">> ELSE WriteStatement(f.body))

WriteExpr(e, level) ==
  LET bare ==
        CASE e.kind \in {"Integer", "CString"} -> <<e.value>>
          [] e.kind = "Identifier" -> <<e.symbol>>
          [] e.kind = "Binop" ->
               LET l == OperatorLevel(e.op) IN
               WriteExpr(e.left, IF l = 0 THEN 4 ELSE l) \o <<e.op>>
                 \o WriteExpr(e.right, IF l = 0 THEN 0 ELSE IF l = 2 THEN 4 ELSE l + 1)
          [] e.kind = "Unary" -> <<e.op>> \o WriteExpr(e.expression, 7)
          [] e.kind = "AddressOf" -> <<"*">> \o WriteExpr(e.operand, -1)
          [] e.kind = "Eval" -> <<"#eval">> \o WriteExpr(e.expr, -1)
          [] e.kind = "Cast" ->
               <<"cast">> \o (IF e.typehint = <<>> THEN <<>> ELSE <<"<">> \o WriteType(e.typehint[1]) \o <<">">>)
                 \o WriteExpr(e.expr, 6)
          [] e.kind = "Call" -> WriteExpr(e.callee, 7) \o <<"(">> \o Each(e.arguments, WriteArgument, <<",">>) \o <<")">>
          [] e.kind = "Subscript" -> WriteExpr(e.expr, 7) \o <<"[">> \o WriteExpr(e.index, -1) \o <<"]">>
          [] e.kind = "Member" -> WriteExpr(e.receiver, 7) \o <<".", e.member>>
          [] e.kind = "Dereference" -> WriteExpr(e.operand, 8) \o <<"^">>
          [] e.kind \in {"Typehint", "Pointer", "Array"} -> WriteType(e)
          [] e.kind = "Use" -> <<"#use", e.path>>
          [] e.kind = "Struct" -> <<"struct", "{">> \o Each(e.fields, WriteField, <<>>) \o <<"}">>
          [] e.kind = "Namespace" -> <<"ns">> \o WriteStatement(e.definitions)
          [] e.kind = "Function" -> WriteFunction(e)
          [] e.kind \in {"Error", "Null"} -> <<>>
  IN  IF Level(e) < level THEN <<"(">> \o bare \o <<")">> ELSE bare

WriteBranch(b) ==
  <<"if">> \o WriteExpr(b.condition, -1)
    \o (IF b.then.kind \in {"Block", "Return"} THEN <<>> ELSE <<"then">>) \o WriteStatement(b.then)

WriteStatement(s) ==
  CASE s.kind = "Declaration" ->
         <<s.name, ":">> \o Each(s.typehint, WriteType, <<>>)
           \o (IF s.initializer = <<>> THEN <<";">>
               ELSE <<IF s.constant THEN ":" ELSE "=">> \o WriteExpr(s.initializer[1], -1)
                      \o (IF s.initializer[1].kind \in {"Function", "Struct", "Namespace"} THEN <<>> ELSE <<";">>))
    [] s.kind = "Block" -> <<"{">> \o Each(s.body, WriteStatement, <<>>) \o <<"}">>
    [] s.kind = "If" -> Each(<<Branch(s.condition, s.then)>> \o s.branches, WriteBranch, <<"else">>)
                          \o Each(s.else, LAMBDA e : <<"else">> \o WriteStatement(e), <<>>)
    [] s.kind = "Return" -> <<"return">> \o WriteExpr(s.value, -1) \o <<";">>
    [] s.kind = "For_Ever" -> <<"for">> \o WriteStatement(s.body[1])
    [] s.kind = "While_Loop" -> <<"for">> \o WriteExpr(s.condition, -1) \o WriteStatement(s.body[1])
    [] s.kind = "Break" -> <<"break", ";">>
    [] s.kind = "Expr" -> WriteExpr(s.expr, -1) \o <<";">>
    [] s.kind = "Null" -> <<>>

Write(statements) == Each(statements, WriteStatement, <<>>)

\* What of a text says something, and does not only divide or group it.
Substance(text) == SelectSeq(text, LAMBDA w : w \notin {"(", ")", ";", ",", "then"})
=============================================================================
