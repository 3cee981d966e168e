------------------------------ MODULE MCParser ------------------------------
(***************************************************************************)
(* Every text of a few tokens over an alphabet of each part of the grammar *)
(* between a fixed beginning and end, and programs of every form to write  *)
(* down and read back.                                                     *)
(***************************************************************************)
EXTENDS Parser

Between(first, words, length, last) == [first |-> first, words |-> words, length |-> length, last |-> last]

MCFamilies ==
  { Between(<<>>, {"a", "+", "=", "<", "==", "(", ")", "*", "-"}, 4, <<";">>),
    Between(<<"a">>, {"b", "(", ")", "[", "]", ".", "^", ",", ":"}, 4, <<";">>),
    Between(<<>>, {"a", "if", "then", "else", "return", "for", "break", "{", "}", ";"}, 5, <<>>),
    Between(<<>>, {"a", "continue", "}", "#use", "'f'", "#eval", "ns", "{"}, 3, <<"a", ";">>),
    Between(<<"a", ":">>, {"int", "int8", "*", "[", "]", "1", "(", "const", "b", ":", "="}, 3,
            <<";", "break", ";">>),
    Between(<<"a", ":", ":", "func">>, {"(", ")", "b", ":", "int", "->", "...", ",", "---", "<"}, 4, <<"{", "}">>),
    Between(<<"a", ":", ":", "func", "(", "b">>, {":", ")", "int", "#canon_name", "#use", "'f'", "---"}, 5, <<>>),
    Between(<<"a", ":", ":", "struct">>, {"{", "}", "b", ",", ":", "int", ";", "="}, 4, <<>>),
    Between(<<"a", "=">>, {"cast", "<", "int", ">", "b", "^", "ns", "func"}, 4, <<";">>),
    \* a function that fails behind its parameters, inside of everything
    Between(<<>>, {"a", ":", "=", "*", "-", "+", "(", "cast", "#eval", "return", "if", "for"}, 3, <<"func", "(", ")", "#use">>),
    Between(<<"a", ":", ":">>, {"struct", "{", "b", ":", "(", "func", ")", "->"}, 5, <<"(", "func", "(", ")", "#use">>) }

Id(n) == Identifier(n)
One == Integer("1")
IntWord == Typehint("int")
Leaves == {Id("a"), One}
Ops == {"+", "*", "=", "<", "==", "-", "/", "!=", ">="}
Shallow ==
  {Binop(op, Id("a"), Id("b")) : op \in Ops} \cup {Unary(op, Id("a")) : op \in {"!", "-", "++"}}
    \cup { AddressOf(Id("a")), Dereference(Id("a")), Eval(One), CString("c'f'"),
           CastTo(<<>>, Id("a")), CastTo(<<Pointer(TRUE, IntWord)>>, Id("b")),
           Call(Id("a"), <<>>), Member(Id("a"), "b"), Subscript(Id("a"), One) } \cup Leaves
Over(e) ==
  {Binop(op, e, Id("c")) : op \in Ops} \cup {Binop(op, Id("c"), e) : op \in Ops}
    \cup {Unary("-", e), AddressOf(e), Dereference(e), Eval(e), CastTo(<<>>, e), CastTo(<<IntWord>>, e),
           Call(e, <<[name |-> <<>>, argument |-> One]>>),
           Call(Id("c"), <<[name |-> <<"b">>, argument |-> e], [name |-> <<>>, argument |-> e]>>),
           Member(e, "c"), Subscript(e, One), Subscript(Id("c"), e)}
Deep == UNION {Over(e) : e \in Shallow}
Deeper == UNION {Over(Binop(op, e, Id("b"))) : op \in {"=", "<", "-"}, e \in Shallow}

Types == {IntWord, Typehint("float64"), Id("b"), Pointer(FALSE, IntWord), Pointer(TRUE, Pointer(FALSE, Id("c"))),
          Array(One, IntWord), Array(Binop("+", One, One), Pointer(TRUE, Array(One, Typehint("char"))))}
Parameter(n, t) == [name |-> n, typehint |-> t]
Function_(params, variadic, ret, body) ==
  [kind |-> "Function", generics |-> <<>>, attributes |-> <<>>, return_type |-> ret, body |-> body,
   prototype |-> [parameters |-> params, is_variadic |-> variadic]]
Body == Block(<<Return(Id("b"))>>)
Declared ==
  {Function_(<<>>, v, r, b) : v \in BOOLEAN, r \in {<<>>, <<IntWord>>}, b \in {NoBody, Block(<<>>), Body}}
    \cup {Function_(<<Parameter("a", t), Parameter("b", IntWord)>>, v, <<t>>, Body) : v \in BOOLEAN, t \in Types}
    \cup {[Function_(<<>>, FALSE, <<>>, NoBody) EXCEPT !.attributes = <<"'f'">>],
          [Function_(<<>>, FALSE, <<IntWord>>, Body) EXCEPT !.generics = <<Parameter("b", IntWord), Parameter("c", IntWord)>>]}
    \cup {Struct(<<[names |-> <<"a", "b">>, typehint |-> t], [names |-> <<"c">>, typehint |-> IntWord]>>) : t \in Types}
    \cup {Struct(<<>>), Namespace(Body), Use("'f'")}

Acts == {Expr(Binop("=", Id("a"), One)), Return(Id("a")), Break, Block(<<Break, Expr(Id("b"))>>),
         If(Id("c"), Break, <<>>, <<Return(One)>>)}
Statements ==
  {Declaration("a", h, k, <<e>>) : h \in {<<>>, <<IntWord>>}, k \in BOOLEAN, e \in Declared \cup Shallow}
    \cup {Declaration("a", <<t>>, FALSE, <<>>) : t \in Types}
    \cup {Declaration("a", <<t>>, TRUE, <<One>>) : t \in Types}
    \cup {If(Id("a"), s, bs, es) : s \in Acts, bs \in {<<>>} \cup {<<Branch(One, t)>> : t \in Acts},
                                   es \in {<<>>} \cup {<<t>> : t \in Acts \ {If(Id("c"), Break, <<>>, <<Return(One)>>)}}}
    \cup {For_Ever(Block(<<s, t>>)) : s, t \in Acts} \cup {While_Loop(e, Block(<<Break>>)) : e \in Shallow}
    \cup {Return(e) : e \in Shallow} \cup {Block(<<s, t>>) : s, t \in Acts}

MCMeanings == {Expr(e) : e \in Deep \cup Deeper} \cup Statements
=============================================================================
