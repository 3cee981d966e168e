------------------------------- MODULE MCTypes -------------------------------
(* Programs for Types: declarations that meet in the table of types, and   *)
(* expressions over a fixed set of variables.                              *)
EXTENDS TypesMeaning

IntT == Builtin(IntId)
Int64T == Builtin(Int64Id)
Uint8T == Builtin(Uint8Id)
BoolT == Builtin(BoolId)
CharT == Builtin(CharId)
FloatT == Builtin(Float32Id)
VoidT == Builtin(VoidId)
Id(x) == Identifier(x)

\* Declarations over one another, three in any order.
SomeHints == {IntT, PointerTo(FALSE, IntT), PointerTo(TRUE, IntT), PointerTo(TRUE, CharT),
          PointerTo(FALSE, PointerTo(TRUE, IntT)), ArrayOf(1, IntT), ArrayOf(2, CharT),
          PointerTo(FALSE, ArrayOf(1, CharT))}
Prototypes == {Prototype(f, ps, r, FALSE) :
                 f \in {"f"}, ps \in {<<>>, <<IntT>>, <<IntT, CharT>>, <<CharT>>}, r \in {VoidT, IntT}}
Structs == {Struct("S", <<Group(<<"m">>, h)>>) : h \in {IntT, PointerTo(TRUE, IntT)}}
             \cup {Struct("S", <<Group(<<"m", "n">>, IntT)>>),
                   Struct("S", <<Group(<<"m">>, IntT), Group(<<"m">>, CharT)>>)}
Seconds == {Declare("b", h, None) : h \in SomeHints} \cup {[p EXCEPT !.name = "g"] : p \in Prototypes}
             \cup {Declare("b", PointerTo(FALSE, Id("S")), None), Declare("b", Id("S"), None),
                   Declare("b", Id("a"), None), Declare("b", PointerTo(FALSE, Id("a")), None)}
Meetings == <<{Declare("a", h, None) : h \in SomeHints} \cup Prototypes \cup Structs, Seconds,
  {Declare("c", PointerTo(TRUE, IntT), None), Declare("c", ArrayOf(3, IntT), None),
   Prototype("h", <<IntT>>, IntT, FALSE), Declare("a", IntT, None)}>>

\* A body that uses all kinds of variables.
Prelude == <<
  Struct("S", <<Group(<<"m">>, IntT)>>),
  Struct("T", <<Group(<<"q">>, PointerTo(TRUE, IntT))>>),
  Declare("i", IntT, None), Declare("big", Int64T, None), Declare("u", Uint8T, None),
  Declare("b", BoolT, None), Declare("c", CharT, None), Declare("f", FloatT, None),
  Declare("p", PointerTo(FALSE, Int64T), None), Declare("k", PointerTo(TRUE, IntT), None),
  Declare("pp", PointerTo(FALSE, PointerTo(TRUE, IntT)), None),
  Declare("s", Id("S"), None), Declare("t", Id("T"), None), Declare("ps", PointerTo(TRUE, Id("S")), None),
  Declare("row", ArrayOf(2, Uint8T), None), Declare("w", PointerTo(FALSE, VoidT), None),
  Prototype("g", <<IntT, Uint8T>>, Int64T, FALSE), Prototype("nop", <<>>, VoidT, FALSE),
  Prototype("show", <<PointerTo(TRUE, CharT)>>, IntT, TRUE)>>

Variables == {Id(x) : x \in {"i", "big", "u", "b", "c", "f", "p", "k", "pp", "s", "t", "ps", "row", "w",
                             "S", "g", "none"}}
One == Integer(1)
Atoms == Variables \cup {One, Float, CString}
Unaries(es) ==
  {Dereference(e) : e \in es} \cup {AddressOf(e) : e \in es} \cup {Not(e) : e \in es}
    \cup {Member(e, "m") : e \in es} \cup {Subscript(e, One) : e \in es}
Simple == Atoms \cup Unaries(Variables \cup {One, CString})
Deeper == Unaries(Unaries({Id(x) : x \in {"pp", "k", "s", "ps", "row"}}))
            \cup {Member(Id("t"), "q"), Dereference(Member(Id("t"), "q")), Member(Subscript(Id("ps"), One), "m")}
Operators == {"Add", "LessThan", "Equals", "Assign"}
Sums(ls, rs) == {Binop(op, l, r) : op \in Operators, l \in ls, r \in rs}
Numeric == {Id("i"), Id("big"), Id("u"), Id("f"), One, Subscript(Id("row"), Id("i"))}
\* What is reached through pointers, rows and structs that are added, compared and assigned.
Reached == {Id(x) : x \in {"p", "k", "pp", "ps", "row", "s", "t"}}
Mixtures == {Binop(op, l, r) : op \in {"Add", "Sub", "LessThan", "Assign"}, l, r \in Reached}
Taken == {Cast(PointerTo(TRUE, IntT), e) : e \in {Id("p"), Id("ps")}} \cup {Cast(Id("S"), Id("t")), Cast(IntT, Id("f"))}
           \cup {Binop("Assign", l, r) : l, r \in {Id("i"), Id("f"), Id("u"), Id("big")}}
ThroughMixtures == Unaries(Mixtures \cup Taken) \cup {Subscript(Id("row"), e) : e \in Mixtures \cup Taken}
CastHints == {None, IntT, Int64T, Uint8T, FloatT, PointerTo(TRUE, IntT)}
Casts == {Cast(h, e) : h \in CastHints, e \in Numeric \cup {Id("k"), Id("p"), Id("s"), Float}}
Calls == {Call(Id("g"), <<a, b>>) : a, b \in Atoms \cup Sums({Id("i"), Id("big")}, {Id("i"), Id("big"), One})}
           \cup {Call(f, as) : f \in {Id("g"), Id("nop"), Id("show"), Id("i"), Id("none"), Dereference(Id("g"))},
                               as \in {<<>>, <<One>>, <<CString>>, <<CString, One>>, <<One, One, One>>}}
Sums3 == {Binop(op, s, n) : op \in {"Add", "LessThan"}, n \in Numeric,
            s \in {Binop("Add", l, r) : l, r \in Numeric}}
Others == {Declare("x", None, None), Constant("x", One), Expr(Eval(One)),
           Declare("x", Id("i"), One), Declare("i", None, One)}

\* A cast of p to a pointer to three chars, and a row of ints.
LongCast == Cast(PointerTo(FALSE, ArrayOf(3, CharT)), Id("p"))
Rows == <<{Declare("p", PointerTo(FALSE, IntT), None)}, {Expr(LongCast), Declare("q", None, LongCast)},
          {Declare("row", ArrayOf(2, IntT), None)},
          {Declare("b", PointerTo(FALSE, Id("row")), None), Prototype("h", <<PointerTo(TRUE, Id("row"))>>, IntT, FALSE)}>>

After(ss) == [i \in DOMAIN Prelude |-> {Prelude[i]}] \o <<ss>>
Declared(hs, es) == After({Declare("x", h, e) : h \in hs, e \in es})
Used(es) == <<After({Expr(e) : e \in es}), After({Condition(e) : e \in es}),
              After({ReturnIn(h, e) : h \in {IntT, Id("S")}, e \in es})>>
Few == {None, IntT, Int64T}
Many == Few \cup {Uint8T, BoolT, FloatT, PointerTo(TRUE, IntT), Id("S"), Id("T")}
All ==
  <<Meetings, Rows, After(Others), Declared(Many, Simple), Declared(Few, Deeper),
    Declared(Few, Sums(Atoms, Atoms)), Declared({None}, Sums(Deeper, {One, Id("i"), Id("k"), Id("s")})),
    Declared(Few, Sums3), Declared(Few, ThroughMixtures), Declared(Many, Casts), Declared({None, Int64T}, Calls)>>
  \o Used(Simple) \o Used(Calls) \o Used(Sums(Atoms, Atoms)) \o Used(Deeper)
\* All of them, with their parts.
AllExpressions == Simple \cup Deeper \cup Unaries({Id(x) : x \in {"pp", "k", "s", "ps", "row"}})
  \cup {Id(x) : x \in {"nop", "show"}} \cup Sums(Atoms, Atoms)
  \cup Sums(Deeper, {One, Id("i"), Id("k"), Id("s")}) \cup {Subscript(Id("row"), Id("i"))}
  \cup {Binop("Add", l, r) : l, r \in Numeric} \cup Sums3
  \cup Mixtures \cup Taken \cup ThroughMixtures \cup Casts \cup Calls \cup {Dereference(Id("g")), Eval(One), LongCast}
RECURSIVE HintParts(_), HeightOf(_), HintHeight(_)
HintParts(h) == {h} \cup (IF h.kind \in {"Pointer", "Array"} THEN HintParts(Target(h)) ELSE {})
HeightOf(e) == IF Operands(e) = {} THEN 0 ELSE 1 + Max({HeightOf(o) : o \in Operands(e)})
HintHeight(h) == IF h.kind \in {"Pointer", "Array"} THEN 1 + HintHeight(Target(h)) ELSE 0
AllHints == UNION {HintParts(h) : h \in
  (UNION {HintsOf(s) : s \in ToSet(Prelude) \cup UNION (ToSet(Meetings) \cup ToSet(Rows))}
     \cup Many \cup CastHints \cup {LongCast.type, Id("i")}) \ {None}}
AllHeights == [t \in AllExpressions \cup AllHints |->
                 IF t.kind \in {"Builtin", "Pointer", "Array"} THEN HintHeight(t) ELSE HeightOf(t)]
\* TLC keeps the value of a definition, not that of an override.
MCPrograms == All
MCExpressions == AllExpressions
MCHints == AllHints
MCHeight == AllHeights
=============================================================================
