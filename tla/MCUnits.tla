------------------------------- MODULE MCUnits -------------------------------
(* Programs for Units: files that use one another, and namespaces.         *)
EXTENDS Units

Use(path) == [kind |-> "use", name |-> path, ref |-> <<>>, body |-> <<>>]
Var(x, ref) == [kind |-> "var", name |-> x, ref |-> ref, body |-> <<>>]
Ns(n, body) == [kind |-> "ns", name |-> n, ref |-> <<>>, body |-> body]
Expression == [kind |-> "expr", name |-> "", ref |-> <<>>, body |-> <<>>]

Sequences(S, lengths) == UNION {[1 .. n -> S] : n \in lengths}
Files(root, a, b) ==
  [text : {[f \in {"root", "a", "b"} |-> CASE f = "root" -> r [] f = "a" -> s [] f = "b" -> t] :
             r \in root, s \in a, t \in b},
   argv : {"root", "./root"}]

\* Files in every shape, with names that meet.
X == Var("x", <<>>)
Z == Var("z", <<>>)
ZX == Var("z", <<"x">>)
Imports == Files(
  {Append(r, Var("w", <<"z">>)) : r \in Sequences({Use("a"), Use("b"), Use("root"), X, Var("y", <<"x">>)}, {1, 2})}
    \cup Sequences({Use("a"), Use("b"), X}, {2, 3}),
  {<<>>, <<X>>, <<Use("gone")>>, <<Use("a"), Z>>, <<Use("root")>>} \cup Sequences({Use("b"), ZX, X}, {2}),
  {<<Z>>, <<X>>, <<Var("x", <<"z">>), Z>>, <<Use("a"), X>>})

\* One file with namespaces, nested ones and broken ones among them.
Bodies == {<<Var("x", <<"y">>)>>, <<Var("x", <<"y">>), Var("v", <<"x">>)>>, <<Var("v", <<"y">>), Var("x", <<>>)>>,
           <<Var("v", <<"x">>), Var("x", <<"y">>)>>, <<X, X>>, <<Var("v", <<"none">>), Var("x", <<"y">>)>>,
           <<Ns("m", <<Var("x", <<"y">>)>>), Var("v", <<"m", "x">>)>>, <<Var("y", <<"n", "x">>)>>}
Members == {Ns("n", b) : b \in Bodies}
Spaces == Files(
  Sequences({Var("y", <<>>), Var("z", <<"n", "x">>), Var("y", <<"z">>), Var("z", <<"y">>), Var("z", <<"n", "m", "x">>),
             Expression} \cup Members, {2, 3}),
  {<<>>}, {<<>>})

\* Namespaces that are imported.
Both == Files(
  {<<Use("a"), Var("w", <<"y">>)>>, <<Use("a"), Ns("n", <<X>>)>>, <<Var("w", <<"n", "x">>), Use("a")>>},
  {<<Use("b"), m>> : m \in Members} \cup {<<m, Use("b")>> : m \in Members},
  {<<Var("y", <<>>)>>, <<Var("y", <<"u">>), Var("u", <<>>)>>, <<Ns("n", <<X>>)>>})

All == Imports \cup Spaces \cup Both
MCPrograms == All
=============================================================================
