----------------------------- MODULE MCCompiled -----------------------------
(* The programs of the run: every small body below, around the same helpers. *)
EXTENDS Compiled

X == Local("x", "int")
Y == Local("y", "int")
HidingX == Local("x", "char")     \* another variable of the same name
C == Local("c", "char")
P == Local("p", "ptr")
S == Local("s", "pair")
R == Local("r", "row")
N == Local("n", "int")
G == Global("g")
H == Global("h")
Bump == Callable("bump", "global")
Twice == Callable("twice", "global")
Main == Callable("main", "global")
Out == Callable("print", "external")

Id(s) == Identifier(s)
One == Integer(1)
Show(e) == Expr(Function_Call(Out, <<e>>))
Gets(l, e) == Expr(Assign(l, e))

\* bump: g = g + 1; print(g); return g      twice(n): fac-like recursion on n
Helpers ==
  << Function(Out, <<N>>, <<>>),
     Function(Bump, <<>>, <<Block(<<Gets(Id(G), Binop("Add", Id(G), One)), Show(Id(G)), Return(Id(G))>>)>>),
     Function(Twice, <<N>>,
       <<Block(<< If(Binop("LessThan", Id(N), One), Return(Integer(0)), <<>>, <<>>),
                  Return(Binop("Add", Integer(2),
                               Function_Call(Twice, <<Binop("Sub", Id(N), One)>>))) >>)>>) >>

CallBump == Function_Call(Bump, <<>>)
Program(globals, body) ==
  [globals |-> globals, functions |-> Append(Helpers, Function(Main, <<>>, <<Block(body)>>))]
GlobalsAB == << [symbol |-> G, init |-> One], [symbol |-> H, init |-> Binop("Add", Id(G), One)] >>
GlobalsBA == << [symbol |-> H, init |-> Binop("Add", Id(G), One)], [symbol |-> G, init |-> One] >>
GlobalsBad == << [symbol |-> G, init |-> Binop("Add", Id(H), One)],
                 [symbol |-> H, init |-> Binop("Sub", Integer(3), One)] >>

Prologue == << Variable(X, <<One>>), Variable(Y, <<Integer(2)>>), Variable(S, <<>>), Variable(R, <<>>),
               Variable(P, <<AddressOf(Id(X))>>) >>
Epilogue == << Show(Id(X)), Show(Id(Y)), Return(Integer(0)) >>
Body(stmts) == Prologue \o stmts \o Epilogue

Simple == << Id(X), Id(G), CallBump, Dereference(Id(P)), Member_Access(Id(S), "a", FALSE),
             Function_Call(Twice, <<Id(Y)>>) >>
Assigned == << Assign(Id(X), One), Assign(Id(X), Assign(Id(Y), Binop("Add", Id(X), One))),
               Assign(Id(Y), Assign(Id(X), Binop("Add", Id(X), One))),
               Binop("Add", Id(X), Assign(Id(X), Integer(5))),
               Assign(Dereference(Id(P)), CallBump),
               Assign(Member_Access(Id(S), "b", FALSE), Id(Y)),
               Assign(Subscript(Id(R), One), Id(Y)),
               Assign(Id(P), AddressOf(Id(Y))) >>
Conditions == << Binop("LessThan", Id(X), Id(Y)), Not(Binop("Equals", Id(X), One)),
                 Binop("GreaterThan", CallBump, Id(Y)), Id(G) >>
Increment(s) == Gets(Id(s), Binop("Add", Id(s), One))
Decrement(s) == Gets(Id(s), Binop("Sub", Id(s), One))
Acts == << Show(Id(X)), Increment(X), Gets(Id(Y), CallBump),
           Block(<<Variable(HidingX, <<Integer(3)>>), Show(Id(HidingX)), Gets(Id(HidingX), One)>>), Break >>
LoopTests == << Binop("LessThan", Id(X), Integer(3)), Binop("LessThan", CallBump, Id(Y)),
                Binop("GreaterThan", Integer(4), CallBump),
                Binop("LessThan", Dereference(Id(P)), Integer(3)),
                Binop("LessThan", Member_Access(Id(S), "a", FALSE), Integer(2)),
                Binop("LessThan", Id(X), Function_Call(Twice, <<Id(Y)>>)),
                Binop("LessThan", Id(Y), CallBump) >>
CopyOut == Gets(Member_Access(Id(S), "a", FALSE), Id(X))
Slow == << Show(Id(Y)), Decrement(Y), CopyOut,
           If(Binop("Equals", Id(X), Integer(3)), Break, <<>>, <<Increment(Y)>>) >>
Leaves == << Break, Block(<<Show(Id(X)), Break>>), Return(One) >>

\* The bodies, by family and by the parts they are made of.
Straight(i) == <<Show(Simple[i])>>
Sum(i, j)   == <<Show(Binop("Sub", Simple[i], Simple[j]))>>
Effect(i)   == <<Expr(Assigned[i])>>
Choice(i, j, k) == <<If(Conditions[i], Acts[k], <<Branch(Conditions[j], Acts[(k % 4) + 1])>>,
                        <<Acts[((k + 1) % 4) + 1]>>)>>
Loop(i, k)  == <<While_Loop(LoopTests[i], Block(<<Acts[k], Increment(X), CopyOut, Decrement(Y)>>))>>
\* a loop in a loop, left from inside an if, by break or by return
Nested(i, k) == <<While_Loop(Binop("LessThan", Id(X), Integer(3)), Block(<<Increment(X),
                    For_Ever(Block(<<Increment(Y),
                      If(Binop("GreaterThan", Id(Y), Integer(3)), Leaves[i], <<>>, <<>>),
                      If(Binop("Equals", Id(Y), Integer(2)), Break, <<>>, <<>>)>>)), Acts[k]>>))>>

\* members through a pointer, a pair copied, an array seen through a pointer, a char
Q == Local("q", "pair")
Inner == Callable("inner", "global")
Odd ==
  << <<Variable(P, <<AddressOf(Id(S))>>), Gets(Member_Access(Id(P), "a", TRUE), Integer(6)),
       Variable(Q, <<Id(S)>>), Gets(Member_Access(Id(S), "a", FALSE), Id(Y)),
       Show(Member_Access(Id(Q), "a", FALSE)), Show(Member_Access(Id(P), "a", TRUE))>>,
     <<Gets(Subscript(Id(R), One), Integer(9)),
       Gets(Id(P), AddressOf(Subscript(Id(R), Integer(0)))),
       Show(Subscript(Id(P), One)), Show(Subscript(Id(R), Integer(0)))>>,
     <<Variable(C, <<Integer(6)>>), Show(Id(C)), Gets(Id(X), Assign(Id(C), Integer(5)))>>,
     <<Show(Cast("char", Integer(6)))>>,
     <<Variable(C, <<Cast("int", Id(Y))>>), Show(Binop("Mul", Id(C), Integer(3)))>>,
     <<Function(Inner, <<N>>, <<Block(<<Return(Binop("Mul", Id(N), Id(N)))>>)>>),
       Show(Function_Call(Inner, <<Integer(3)>>))>>,
     <<Function(Inner, <<N>>, <<Block(<<Variable(X, <<Id(N)>>), Return(Id(X))>>)>>),
       Show(Function_Call(Inner, <<Integer(3)>>))>>,
     <<Variable(Local("print", "int"), <<Integer(4)>>), Show(Id(Y))>>,
     <<For_Ever(Block(<<Gets(Id(X), Integer(4)), Break>>))>> >>

Keys ==
  ({"straight"} \X (DOMAIN Simple) \X {1} \X {1}) \cup ({"effect"} \X (DOMAIN Assigned) \X {1} \X {1})
    \cup ({"sum"} \X (DOMAIN Simple) \X (DOMAIN Simple) \X {1}) \cup ({"odd"} \X (DOMAIN Odd) \X {1} \X {1})
    \cup ({"choice"} \X (DOMAIN Conditions) \X (DOMAIN Conditions) \X (1 .. 4))
    \cup ({"loop"} \X (DOMAIN LoopTests) \X {1} \X (DOMAIN Acts))
    \cup ({"nested"} \X (DOMAIN Leaves) \X {1} \X (DOMAIN Acts))
    \cup ({"last"} \X (DOMAIN LoopTests) \X {1, 3, 5} \X (DOMAIN Slow)) \cup ({"globals"} \X {1} \X {1} \X {1, 2})

ProgramOf(key) ==
  LET i == key[2]
      j == key[3]
      k == key[4]
  IN CASE key[1] = "straight" -> Program(GlobalsAB, Body(Straight(i)))
     [] key[1] = "sum" -> Program(GlobalsAB, Body(Sum(i, j)))
     [] key[1] = "effect" -> Program(GlobalsAB, Body(Effect(i)))
     [] key[1] = "choice" -> Program(GlobalsAB, Body(Choice(i, j, k)))
     [] key[1] = "loop" -> Program(GlobalsAB, Body(Loop(i, k)))
     [] key[1] = "nested" -> Program(GlobalsAB, Body(Nested(i, k)))
     [] key[1] = "last" ->
            Program(GlobalsAB, Prologue \o <<Gets(Id(Y), Integer(j)),
                      While_Loop(LoopTests[i], Block(<<Show(Id(X)), Increment(X), Slow[k]>>))>>)
     [] key[1] = "odd" -> Program(GlobalsAB, Body(Odd[i]))
     [] key[1] = "globals" ->
            Program(IF k = 1 THEN GlobalsBA ELSE GlobalsBad, Body(<<Show(Id(G)), Show(Id(H))>>))

MCPrograms == [key \in Keys |-> ProgramOf(key)]
=============================================================================
