------------------------------ MODULE Meaning -------------------------------
(***************************************************************************)
(* What a program means, read off its tree and never off the compiler:     *)
(* operands from left to right, each evaluated once, a symbol always the   *)
(* variable it was resolved to, an `if` and a loop testing their condition *)
(* each time control reaches it.  The compiled code is compared with this. *)
(*                                                                         *)
(* A program is [globals |-> <<[symbol, init]...>>, functions |-> <<...>>]. *)
(***************************************************************************)
EXTENDS Tree, SequencesExt

CONSTANT Fuel      \* loop rounds and calls a program may make

\* Where a symbol's variable lives: globals once, locals once per activation.
Home(s, frame) == [space |-> IF s.home = "global" THEN "global" ELSE "slot",
                   frame |-> IF s.home = "global" THEN 0 ELSE frame, index |-> 0,
                   name |-> <<s.name, s.type>>]
Address(base, path) == [base |-> base, path |-> path]

RECURSIVE Follow(_, _), Put(_, _, _)
Follow(whole, path) == IF path = <<>> THEN whole ELSE Follow(whole[Head(path)], Tail(path))
Put(whole, path, v) ==
  IF path = <<>> THEN v ELSE [whole EXCEPT ![Head(path)] = Put(@, Tail(path), v)]
Get(m, a) == Follow(m[a.base], a.path)
Set(m, a, v) == IF a.path = <<>> THEN (a.base :> v) @@ m
                  ELSE [m EXCEPT ![a.base] = Put(@, a.path, v)]
Step(a, n) == [a EXCEPT !.path = Front(@) \o <<Last(@) + n>>]

\* The functions of a program, with those declared in the block of another.
AllFunctions(p) ==
  LET Inner(f) == {s \in UNION {Range(b.body) : b \in Range(f.body)} : s.kind = "Function"}
  IN  Range(p.functions) \cup UNION {Inner(f) : f \in Range(p.functions)}

\* The world: memory, what was printed, fuel left; `env` gives each symbol in
\* scope its address, `frame` is the depth of calls.
Env(p) == [functions |-> AllFunctions(p), frame |-> 1, at |-> <<>>]
Place(env, s) == IF s.home = "global" THEN Address(Home(s, 0), <<>>) ELSE env.at[s]

RECURSIVE Eval(_, _, _), Locate(_, _, _), EvalAll(_, _, _), Run(_, _, _), RunAll(_, _, _), Invoke(_, _, _, _)

\* The address an expression denotes: [w, a].
Locate(w, env, e) ==
  CASE e.kind = "Identifier" -> [w |-> w, a |-> Place(env, e.symbol)]
    [] e.kind = "Dereference" -> LET r == Eval(w, env, e.operand) IN [w |-> r.w, a |-> r.v]
    [] e.kind = "Member_Access" ->
         LET r == IF e.pointer THEN Eval(w, env, e.receiver) ELSE Locate(w, env, e.receiver)
             a == IF e.pointer THEN r.v ELSE r.a
         IN  [w |-> r.w, a |-> Address(a.base, Append(a.path, e.member))]
    [] e.kind = "Subscript" ->
         LET r == Eval(w, env, e.expr)
             i == Eval(r.w, env, e.index)
         IN  [w |-> i.w, a |-> Step(r.v, i.v)]

Eval(w, env, e) ==
  CASE e.kind = "Integer" -> [w |-> w, v |-> e.value]
    [] e.kind = "Identifier" /\ e.symbol.type = "row" ->
         [w |-> w, v |-> Address(Place(env, e.symbol).base, <<0>>)]
    [] \/ e.kind \in {"Dereference", "Member_Access", "Subscript"}
       \/ e.kind = "Identifier" /\ e.symbol.type # "row" ->
         LET r == Locate(w, env, e) IN [w |-> r.w, v |-> Get(r.w.mem, r.a)]
    [] e.kind = "Function_Call" ->
         LET args == EvalAll(w, env, e.arguments) IN Invoke(args.w, env, e.callee.symbol, args.v)
    [] e.kind = "Binop" /\ e.op = "Assign" ->
         LET place == Locate(w, env, e.left)
             value == Eval(place.w, env, e.right)
             type  == IF e.left.kind = "Identifier" THEN e.left.symbol.type ELSE "int"
             v     == AsType(type, value.v)
         IN  [w |-> [value.w EXCEPT !.mem = Set(@, place.a, v)], v |-> v]
    [] e.kind = "Binop" /\ e.op # "Assign" ->
         LET x == Eval(w, env, e.left)
             y == Eval(x.w, env, e.right)
         IN  [w |-> y.w, v |-> Compute(e.op, x.v, y.v)]
    [] e.kind = "AddressOf" -> LET r == Locate(w, env, e.operand) IN [w |-> r.w, v |-> r.a]
    [] e.kind = "Cast" -> LET r == Eval(w, env, e.expr) IN [r EXCEPT !.v = AsType(e.type, @)]
    [] e.kind = "Unary" -> LET r == Eval(w, env, e.expression) IN [r EXCEPT !.v = Truth(@ = 0)]

EvalAll(w, env, es) ==
  IF es = <<>> THEN [w |-> w, v |-> <<>>]
  ELSE LET first == Eval(w, env, Head(es))
           rest  == EvalAll(first.w, env, Tail(es))
       IN  [w |-> rest.w, v |-> <<first.v>> \o rest.v]

Declare(w, env, s, v) ==
  LET base == Home(s, env.frame)
  IN  [w |-> [w EXCEPT !.mem = (base :> v) @@ @],
       env |-> [env EXCEPT !.at = (s :> Address(base, <<>>)) @@ @]]

\* A function without a body is outside the program: it prints its argument.
Invoke(w, env, f, args) ==
  LET def == CHOOSE d \in env.functions : d.symbol = f
      entered == FoldLeftDomain(
                   LAMBDA c, i : Declare(c.w, c.env, def.parameters[i],
                                         AsType(def.parameters[i].type, args[i])),
                   [w |-> [w EXCEPT !.fuel = @ - 1],
                    env |-> [env EXCEPT !.frame = @ + 1, !.at = <<>>]], def.parameters)
      done == Run(entered.w, entered.env, def.body[1])
  IN  IF def.body = <<>>
      THEN [w |-> [w EXCEPT !.printed = Append(@, args[1])], v |-> 0]
      ELSE IF w.fuel = 0 THEN [w |-> w, v |-> 0]
      ELSE [w |-> done.w, v |-> done.v]

\* A statement ends in [w, env, flow, v]; flow is "next", "break" or "return".
Run(w, env, s) ==
  LET Flow(r, flow) == [w |-> r.w, env |-> env, flow |-> flow, v |-> r.v]
      Next(world) == [w |-> world, env |-> env, flow |-> "next", v |-> 0]
      Keep(r) == [r EXCEPT !.env = env]
  IN
  CASE s.kind = "Expr" -> Next(Eval(w, env, s.expr).w)
    [] s.kind = "Variable" ->
         LET hidden == Declare(w, env, s.symbol, Zero(s.symbol.type))
             init == IF s.initializer = <<>> THEN [w |-> hidden.w, v |-> Zero(s.symbol.type)]
                     ELSE Eval(hidden.w, hidden.env, s.initializer[1])
             made == Declare(init.w, env, s.symbol, AsType(s.symbol.type, init.v))
         IN  [w |-> made.w, env |-> made.env, flow |-> "next", v |-> 0]
    [] s.kind = "Block" -> Keep(RunAll(w, env, s.body))
    [] s.kind = "Return" -> Flow(Eval(w, env, s.value), "return")
    [] s.kind = "Break" -> [Next(w) EXCEPT !.flow = "break"]
    [] s.kind = "Function" -> Next(w)
    [] s.kind = "If" ->
         LET c == Eval(w, env, s.condition) IN
         IF c.v # 0 THEN Keep(Run(c.w, env, s.then))
         ELSE IF s.branches # <<>>
         THEN Run(c.w, env, If(Head(s.branches).condition, Head(s.branches).then,
                               Tail(s.branches), s.else))
         ELSE Keep(RunAll(c.w, env, s.else))
    [] s.kind \in {"While_Loop", "For_Ever"} ->
         LET c == IF s.kind = "For_Ever" THEN [w |-> w, v |-> 1] ELSE Eval(w, env, s.condition)
             round == Run([c.w EXCEPT !.fuel = @ - 1], env, s.body[1])
         IN  IF c.v = 0 \/ c.w.fuel = 0 THEN Next(c.w)
             ELSE IF round.flow = "next" THEN Run(round.w, env, s)
             ELSE IF round.flow = "break" THEN Next(round.w)
             ELSE Keep(round)

RunAll(w, env, ss) ==
  IF ss = <<>> THEN [w |-> w, env |-> env, flow |-> "next", v |-> 0]
  ELSE LET first == Run(w, env, Head(ss)) IN
       IF first.flow # "next" THEN first ELSE RunAll(first.w, first.env, Tail(ss))

\* Every global holds what its initializer says before `main` begins,
\* whatever order the globals are written in.
RECURSIVE InitialOf(_, _)
InitialOf(p, s) ==
  LET init == (CHOOSE g \in Range(p.globals) : g.symbol = s).init
      Names(e) == IF e.kind = "Identifier" THEN {e.symbol}
                  ELSE IF e.kind = "Binop"
                  THEN {x.symbol : x \in {y \in {e.left, e.right} : y.kind = "Identifier"}} ELSE {}
      world == [mem |-> [b \in {Home(n, 0) : n \in Names(init)} |->
                           InitialOf(p, CHOOSE n \in Names(init) : Home(n, 0) = b)],
                printed |-> <<>>, fuel |-> Fuel]
  IN  Eval(world, Env(p), init).v

Outcome(p) ==
  LET symbols == {p.globals[i].symbol : i \in DOMAIN p.globals}
      world == [mem |-> [b \in {Home(s, 0) : s \in symbols} |->
                           InitialOf(p, CHOOSE s \in symbols : Home(s, 0) = b)],
                printed |-> <<>>, fuel |-> Fuel]
      done == Invoke(world, Env(p), Callable("main", "global"), <<>>)
  IN  [printed |-> done.w.printed, fuel |-> done.w.fuel,
       globals |-> [s \in symbols |-> done.w.mem[Home(s, 0)]]]
=============================================================================
