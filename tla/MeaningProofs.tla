--------------------------- MODULE MeaningProofs ----------------------------
(***************************************************************************)
(* What an accepted program means, whatever the program: a check that was  *)
(* Done comes to the same result ever after, and in a context it asks for  *)
(* itself; and a name stands for the type that was written for it, but for *)
(* the arrays and parameter lists that operator== takes for one another.   *)
(***************************************************************************)
EXTENDS TypesMeaning, TypesProofs

-----------------------------------------------------------------------------
(* After a step.                                                            *)

\* What the recursions unfold to, before a step and after it.
ResolveUnfolds == \A h \in Hints, table \in Tables : Resolve(h, table) = ResolveBy(ResolveHint, h, table)
CheckUnfolds == \A e \in Expressions, context \in Nat, table \in Tables :
                  CheckTree[e][context][table] = CheckBy(CheckTree, e, context, table)
LEMMA ResolveAlwaysUnfolds == ResolveUnfolds
BY ResolveIs DEF ResolveUnfolds
LEMMA ResolveUnfoldsNext == ResolveUnfolds'
BY ResolveAlwaysUnfolds, PTL
LEMMA CheckAlwaysUnfolds == CheckUnfolds
BY CheckIs DEF CheckUnfolds
LEMMA CheckUnfoldsNext == CheckUnfolds'
BY CheckAlwaysUnfolds, PTL

NamesStay == \A x \in DOMAIN names : x \in DOMAIN names' /\ names'[x] = names[x]

\* A result that was Done is found again over every later table.
FoundAgain(r, later, again) == IsTypes(later) /\ IsPrefix(r.types, later) => again = Done(r.type, later)

LEMMA IdentifierAgain ==
    ASSUME NamesStay, NEW x, NEW table, NEW later, IsDone(CheckIdentifier(x, table))
    PROVE  CheckIdentifier(x, later)' = Done(CheckIdentifier(x, table).type, later)
<1>1. x \in DOMAIN names
    BY DEF CheckIdentifier, Failed, Stop, Result, IsDone
<1>2. x \in DOMAIN names' /\ names'[x] = names[x]
    BY <1>1 DEF NamesStay
<1> QED BY <1>1, <1>2 DEF CheckIdentifier, Done, Result

LEMMA RegisterAgain ==
    ASSUME NEW table, IsTypes(table), NEW layout \in Layouts, layout.kind \in Composed, NEW lucky,
           NEW later, IsTypes(later), IsPrefix(RegisterOrGet(layout, table, lucky).types, later)
    PROVE  RegisterOrGet(layout, later, lucky) = Done(RegisterOrGet(layout, table, lucky).type, later)
<1>1. table \in Seq(Layouts) /\ later \in Seq(Layouts)
    BY DEF IsTypes, Tables
<1>2. layout.kind # "Error"
    BY DEF Composed
<1> DEFINE r == RegisterOrGet(layout, table, lucky)
<1>3. IsPrefix(r.types, later)
    OBVIOUS
<1> QED BY <1>1, <1>2, <1>3, RegisteredIsFound

HintAgain(h) ==
    \A table, later : IsTypes(table) /\ Symbols(table) /\ IsDone(Resolve(h, table)) =>
        FoundAgain(Resolve(h, table), later, Resolve(h, later)')
LEMMA HintAgainStep ==
    ASSUME NamesStay, NEW h \in Hints, h.kind \in {"Pointer", "Array"} => HintAgain(Target(h))
    PROVE  HintAgain(h)
<1> SUFFICES ASSUME NEW table, IsTypes(table), Symbols(table), IsDone(Resolve(h, table)),
                    NEW later, IsTypes(later), IsPrefix(Resolve(h, table).types, later)
             PROVE  Resolve(h, later)' = Done(Resolve(h, table).type, later)
    BY DEF HintAgain, FoundAgain
<1>1. Resolve(h, table) = ResolveBy(ResolveHint, h, table)
    BY ResolveIs DEF IsTypes
<1>2. Resolve(h, later)' = ResolveBy(ResolveHint, h, later)'
    BY ResolveUnfoldsNext DEF ResolveUnfolds, IsTypes
<1>3. CASE h.kind = "Builtin"
    BY <1>1, <1>2, <1>3 DEF ResolveBy, Done, Result
<1>4. CASE h.kind = "Identifier"
    <2>1. h.symbol \in DOMAIN names /\ names[h.symbol].sort = "Type"
        BY <1>1, <1>4 DEF ResolveBy, Failed, Stop, Result, IsDone
    <2>2. h.symbol \in DOMAIN names' /\ names'[h.symbol] = names[h.symbol]
        BY <2>1 DEF NamesStay
    <2> QED BY <1>1, <1>2, <1>4, <2>1, <2>2 DEF ResolveBy, Done, Result
<1>5. CASE h.kind \in {"Pointer", "Array"}
    <2> DEFINE target == CheckHint(Target(h), table)
               layout == Over(h, target.type)
               r == RegisterOrGet(layout, target.types, TRUE)
    <2>0. Target(h) \in Hints
        BY <1>5, TargetIs
    <2>1. Resolve(h, table) = IF IsDone(target) THEN r ELSE target
        BY <1>1, <1>5 DEF ResolveBy, CheckHint
    <2>2. IsDone(target) /\ Resolve(h, table) = r
        BY <2>1
    <2>3. Resolves(target, table)
        BY <2>0, CheckHintIsSound
    <2>4. /\ IsTypes(target.types) /\ Symbols(target.types)
          /\ target.type \in DOMAIN target.types /\ target.type \in Nat
        <3>1. IsTypes(target.types) /\ Symbols(target.types) /\ target.type \in DOMAIN target.types
            BY <2>2, <2>3, GoOn DEF Resolves
        <3>2. Len(target.types) \in Nat /\ DOMAIN target.types = 1 .. Len(target.types)
            BY <3>1, TableIs
        <3> QED BY <3>1, <3>2
    <2>5. CheckHint(Target(h), later)' = CheckHintBy(ResolveHint, Target(h), later)'
        BY DEF CheckHint
    <2>6. Resolve(h, later)' = LET t == CheckHint(Target(h), later)' IN
                               IF IsDone(t) THEN RegisterOrGet(Over(h, t.type), t.types, TRUE) ELSE t
        BY <1>2, <1>5 DEF ResolveBy, CheckHint
    <2>7. Resolve(h, table) = r /\ IsPrefix(r.types, later)
        BY <2>2
    <2>8. target = IF Target(h).kind = "Identifier" THEN CheckIdentifier(Target(h).symbol, table)
                                                    ELSE Resolve(Target(h), table)
        BY DEF CheckHint, CheckHintBy, Resolve
    <2>9. CheckHint(Target(h), later)' = IF Target(h).kind = "Identifier"
                                         THEN CheckIdentifier(Target(h).symbol, later)'
                                         ELSE Resolve(Target(h), later)'
        BY DEF CheckHint, CheckHintBy, Resolve
    <2> HIDE DEF target
    <2> DEFINE id == target.type
    <2>10. layout \in Layouts /\ layout.kind \in Composed /\ References(layout) \subseteq DOMAIN target.types
        <3>1. id \in Nat /\ id \in DOMAIN target.types
            BY <2>4
        <3> HIDE DEF id
        <3>2. Over(h, id) \in Layouts /\ Over(h, id).kind = h.kind /\ References(Over(h, id)) = {id}
            BY <1>5, <3>1, OverIs
        <3>3. Over(h, id).kind \in Composed /\ References(Over(h, id)) \subseteq DOMAIN target.types
            BY <1>5, <3>1, <3>2 DEF Composed
        <3> QED BY <3>2, <3>3 DEF id
    <2> HIDE DEF layout
    <2>11. Sound(r, target.types)
        BY <2>4, <2>10, RegisterIsSound
    <2>12. IsPrefix(target.types, later)
        BY <2>4, <2>7, <2>11, LaterStill DEF Sound
    <2>13. CheckHint(Target(h), later)' = Done(target.type, later)
        <3>1. CASE Target(h).kind = "Identifier"
            BY <2>2, <2>8, <2>9, <3>1, IdentifierAgain
        <3>2. CASE Target(h).kind # "Identifier"
            BY <1>5, <2>2, <2>8, <2>9, <2>12, <3>2 DEF HintAgain, FoundAgain
        <3> QED BY <3>1, <3>2
    <2>14. Resolve(h, later)' = RegisterOrGet(layout, later, TRUE)
        <3> DEFINE t == CheckHint(Target(h), later)'
        <3>1. IsDone(t) /\ t.type = target.type /\ t.types = later
            BY <2>13 DEF Done, Result, IsDone
        <3> HIDE DEF t
        <3>2. Over(h, t.type) = layout
            BY <3>1 DEF layout
        <3> QED BY <2>6, <3>1, <3>2 DEF t
    <2>15. RegisterOrGet(layout, later, TRUE) = Done(r.type, later)
        <3> DEFINE lucky == TRUE
        <3>1. r = RegisterOrGet(layout, target.types, lucky) /\ IsPrefix(r.types, later)
            BY <2>7
        <3> HIDE DEF r, lucky
        <3>2. RegisterOrGet(layout, later, lucky) = Done(r.type, later)
            BY <2>4, <2>10, <3>1, RegisterAgain
        <3> QED BY <3>2 DEF lucky
    <2> QED BY <2>7, <2>14, <2>15
<1> QED BY <1>3, <1>4, <1>5, HintForms

LEMMA HintsAgain ==
    ASSUME NamesStay, NEW h \in Hints
    PROVE  HintAgain(h)
<1> DEFINE S == {n \in Nat : \A x \in HintsBelow(n) : HintAgain(x)}
<1>1. 0 \in S
    BY DepthAssumption DEF HintsBelow
<1>2. ASSUME NEW n \in Nat, n \in S
      PROVE  n + 1 \in S
    <2>1. ASSUME NEW x \in HintsBelow(n + 1), x.kind \in {"Pointer", "Array"}
          PROVE  HintAgain(Target(x))
        <3>1. Target(x) \in HintsBelow(n)
            BY <2>1, TargetIs DEF HintsBelow
        <3> QED BY <1>2, <3>1
    <2>2. \A x \in HintsBelow(n + 1) : HintAgain(x)
        BY <2>1, HintAgainStep DEF HintsBelow
    <2> QED BY <2>2
<1> HIDE DEF S
<1>3. Depth + 1 \in S
    BY <1>1, <1>2, SetInduction, AllBelow
<1> QED BY <1>3, AllBelow DEF S
-----------------------------------------------------------------------------
(* Arguments.                                                               *)

\* Wherever check is Done, its result is sound, and again finds it later.
Good(table) == IsTypes(table) /\ Symbols(table)
Repeats(check, again) ==
    \A c, table : Good(table) /\ c \in 0 .. Len(table) =>
        /\ Sound(check[c][table], table)
        /\ IsDone(check[c][table]) =>
             \A later : FoundAgain(check[c][table], later, again[c][later])

Arguments(after, checks, m, schema, r) ==
    /\ after[0] = [result |-> r, over |-> FALSE]
    /\ \A n \in 1 .. m : after[n] = CheckArgument(checks[n], n, schema, after[n - 1])
    /\ CheckArguments(checks, schema, r) = after[m].result
LEMMA ArgumentsRun ==
    ASSUME NEW checks, NEW schema, NEW r, NEW m \in Nat, Len(checks) = m
    PROVE  \E after : Arguments(after, checks, m, schema, r)
<1> DEFINE first == [result |-> r, over |-> FALSE]
           Body(f, n) == IF n = 0 THEN first ELSE CheckArgument(checks[n], n, schema, f[n - 1])
           Upto(k, f) == f = [n \in 0 .. k |-> Body(f, n)]
           S == {k \in Nat : \E f : Upto(k, f)}
           after == CHOOSE f : Upto(m, f)
<1>1. 0 \in S
    <2> DEFINE f == [n \in 0 .. 0 |-> first]
    <2>1. f = [n \in 0 .. 0 |-> Body(f, n)]
        <3> HIDE DEF first
        <3>1. \A n \in 0 .. 0 : Body(f, n) = first
            OBVIOUS
        <3> HIDE DEF Body
        <3> QED BY <3>1
    <2> HIDE DEF f, Body
    <2>2. \E g : Upto(0, g)
        BY <2>1
    <2> QED BY <2>2
<1>2. ASSUME NEW k \in Nat, k \in S
      PROVE  k + 1 \in S
    <2>1. PICK f : Upto(k, f)
        BY <1>2
    <2> DEFINE g == [n \in 0 .. k + 1 |-> Body(f, n)]
    <2>2. ASSUME NEW n \in 0 .. k + 1
          PROVE  Body(f, n) = Body(g, n)
        <3>1. CASE n = 0
            BY <3>1
        <3>2. CASE n # 0
            <4>1. n - 1 \in 0 .. k /\ n - 1 \in 0 .. k + 1
                BY <3>2
            <4>2. f[n - 1] = Body(f, n - 1)
                <5> HIDE DEF Body
                <5> QED BY <2>1, <4>1
            <4>3. g[n - 1] = Body(f, n - 1)
                <5> HIDE DEF Body
                <5> QED BY <4>1
            <4> HIDE DEF g
            <4>4. f[n - 1] = g[n - 1]
                BY <4>2, <4>3
            <4> QED BY <4>4
        <3> QED BY <3>1, <3>2
    <2> HIDE DEF Body
    <2>3. g = [n \in 0 .. k + 1 |-> Body(g, n)]
        BY <2>2
    <2>4. k + 1 \in Nat
        OBVIOUS
    <2> HIDE DEF g
    <2> QED BY <2>3, <2>4
<1> HIDE DEF S
<1>3. m \in S
    BY <1>1, <1>2, SetInduction
<1>4. Upto(m, after)
    <2>1. \E f : Upto(m, f)
        BY <1>3 DEF S
    <2> HIDE DEF Upto
    <2> QED BY <2>1
<1>5. CheckArguments(checks, schema, r) = after[m].result
    BY DEF CheckArguments
<1> HIDE DEF after, Body
<1>6. \A n \in 0 .. m : after[n] = Body(after, n)
    BY <1>4
<1>7. after[0] = first
    <2>1. 0 \in 0 .. m
        OBVIOUS
    <2> QED BY <1>6, <2>1 DEF Body
<1>8. ASSUME NEW n \in 1 .. m
      PROVE  after[n] = CheckArgument(checks[n], n, schema, after[n - 1])
    <2>1. n \in 0 .. m /\ n # 0
        OBVIOUS
    <2> QED BY <1>6, <2>1 DEF Body
<1>9. Arguments(after, checks, m, schema, r)
    BY <1>5, <1>7, <1>8 DEF Arguments
<1> QED BY <1>9

\* The call so far is a record, and stays one; once it is not Done it never is.
IsCall(call) ==
    /\ call = [result |-> call.result, over |-> call.over] /\ call.over \in BOOLEAN
    /\ call.over => ~IsDone(call.result)
LEMMA CallIs ==
    ASSUME NEW next, NEW r, NEW over \in BOOLEAN, over => ~IsDone(r), next = [result |-> r, over |-> over]
    PROVE  IsCall(next) /\ next.result = r
<1>1. next.result = r /\ next.over = over
    OBVIOUS
<1>2. next = [result |-> next.result, over |-> next.over]
    BY <1>1
<1> QED BY <1>1, <1>2 DEF IsCall
LEMMA CallEnds ==
    ASSUME NEW next, NEW r, ~IsDone(r), next = [result |-> r, over |-> TRUE]
    PROVE  IsCall(next) /\ next.result = r
<1> DEFINE over == TRUE
<1>1. next = [result |-> r, over |-> over] /\ over \in BOOLEAN
    OBVIOUS
<1> HIDE DEF over
<1> QED BY <1>1, CallIs
LEMMA CallGoesOn ==
    ASSUME NEW next, NEW r, next = [result |-> r, over |-> FALSE]
    PROVE  IsCall(next) /\ next.result = r
<1> DEFINE over == FALSE
<1>1. next = [result |-> r, over |-> over] /\ over \in BOOLEAN /\ ~over
    OBVIOUS
<1> HIDE DEF over
<1> QED BY <1>1, CallIs
LEMMA CallWith ==
    ASSUME NEW call, IsCall(call), NEW r
    PROVE  [call EXCEPT !.result = r] = [result |-> r, over |-> call.over]
BY DEF IsCall
LEMMA ArgumentNotDone ==
    ASSUME NEW check, NEW n, NEW schema, NEW call, IsCall(call), ~IsDone(call.result)
    PROVE  LET next == CheckArgument(check, n, schema, call)
           IN  IsCall(next) /\ ~IsDone(next.result)
<1> DEFINE next == CheckArgument(check, n, schema, call)
           sofar == call.result
           arg == check[IF HasParameter(n, schema) THEN schema.parameters[n] ELSE NoContext][sofar.types]
           bad == \/ arg.status = "Failed"
                  \/ HasParameter(n, schema) /\ sofar.status = "Done"
                       /\ ~TryCoerce(schema.parameters[n], arg.type, arg.types, TRUE)
           End(r) == [result |-> r, over |-> TRUE]
           status == IF bad THEN "Failed" ELSE sofar.status
           r == Result(status, sofar.type, arg.types)
<1>1. \/ next = call
      \/ next = End(Stop("Crashed", sofar.types))
      \/ next = End(arg) /\ arg.status \in {"Aborted", "Crashed"}
      \/ next = End(Failed(arg.types))
      \/ next = [call EXCEPT !.result = r]
    BY DEF CheckArgument
<1> SUFFICES IsCall(next) /\ ~IsDone(next.result)
    OBVIOUS
<1> HIDE DEF next, arg, bad
<1>2. CASE next = call
    BY <1>2
<1>3. CASE next = End(Stop("Crashed", sofar.types))
    <2>1. ~IsDone(Stop("Crashed", sofar.types))
        BY DEF Stop, Result, IsDone
    <2> QED BY <1>3, <2>1, CallEnds
<1>4. CASE next = End(arg) /\ arg.status \in {"Aborted", "Crashed"}
    <2>1. ~IsDone(arg)
        BY <1>4 DEF IsDone
    <2> QED BY <1>4, <2>1, CallEnds
<1>5. CASE next = End(Failed(arg.types))
    <2>1. ~IsDone(Failed(arg.types))
        BY DEF Failed, Stop, Result, IsDone
    <2> QED BY <1>5, <2>1, CallEnds
<1>6. CASE next = [call EXCEPT !.result = r]
    <2>1. r.status = status /\ status # "Done"
        BY DEF Result, IsDone
    <2> HIDE DEF r
    <2>2. next = [result |-> r, over |-> call.over]
        BY <1>6, CallWith
    <2>3. ~IsDone(r) /\ call.over \in BOOLEAN
        BY <2>1 DEF IsCall, IsDone
    <2> QED BY <2>2, <2>3, CallIs
<1> QED BY <1>1, <1>2, <1>3, <1>4, <1>5, <1>6

\* While it is Done, each argument is found again.
Going(id, table) == [result |-> Done(id, table), over |-> FALSE]
LEMMA ArgumentDone ==
    ASSUME NEW check, NEW again, Repeats(check, again), NEW n \in Nat, n >= 1, NEW schema,
           NEW id, NEW table, Good(table), schema.parameters \in Seq(DOMAIN table)
    PROVE  LET next == CheckArgument(check, n, schema, Going(id, table))
               t == next.result.types
           IN  /\ IsCall(next)
               /\ IsDone(next.result) =>
                    /\ next = Going(id, t)
                    /\ Good(t) /\ IsPrefix(table, t)
                    /\ \A later : IsTypes(later) /\ IsPrefix(t, later) =>
                         CheckArgument(again, n, schema, Going(id, later)) = Going(id, later)
<1> DEFINE call == Going(id, table)
           next == CheckArgument(check, n, schema, call)
           context == IF HasParameter(n, schema) THEN schema.parameters[n] ELSE NoContext
           arg == check[context][table]
           wrong == HasParameter(n, schema) /\ ~TryCoerce(schema.parameters[n], arg.type, arg.types, TRUE)
           status == IF arg.status = "Failed" \/ wrong THEN "Failed" ELSE "Done"
           End(r) == [result |-> r, over |-> TRUE]
           crash == HasParameter(n, schema) /\ n > Len(schema.parameters)
<1>0. IsCall(call)
    BY CallGoesOn DEF Going
<1>1. call.result = Done(id, table) /\ call.over = FALSE
      /\ call.result.status = "Done" /\ call.result.type = id /\ call.result.types = table
    BY DEF Going, Done, Result
<1>2. \A r : [call EXCEPT !.result = r] = [result |-> r, over |-> FALSE]
    <2> TAKE r
    <2> HIDE DEF call
    <2>1. [call EXCEPT !.result = r] = [result |-> r, over |-> call.over]
        BY <1>0, CallWith
    <2> QED BY <1>1, <2>1
<1> HIDE DEF call
<1>3. crash => next = End(Stop("Crashed", table))
    BY <1>1 DEF CheckArgument
<1>4. ~crash => next = CASE arg.status \in {"Aborted", "Crashed"} -> End(arg)
                         [] arg.status = "Done" /\ arg.type = NamespaceId -> End(Failed(arg.types))
                         [] OTHER -> [result |-> Result(status, id, arg.types), over |-> FALSE]
    BY <1>1, <1>2 DEF CheckArgument
<1> SUFFICES /\ IsCall(next)
             /\ IsDone(next.result) =>
                    /\ next = Going(id, next.result.types)
                    /\ Good(next.result.types) /\ IsPrefix(table, next.result.types)
                    /\ \A later : IsTypes(later) /\ IsPrefix(next.result.types, later) =>
                         CheckArgument(again, n, schema, Going(id, later)) = Going(id, later)
    BY DEF call
<1> HIDE DEF next
<1>5. CASE crash
    <2>1. ~IsDone(Stop("Crashed", table))
        BY DEF Stop, Result, IsDone
    <2> QED BY <1>3, <1>5, <2>1, CallEnds
<1>6. CASE ~crash /\ arg.status \in {"Aborted", "Crashed"}
    <2> HIDE DEF arg
    <2>1. next = End(arg) /\ ~IsDone(arg)
        BY <1>4, <1>6 DEF IsDone
    <2> QED BY <2>1, CallEnds
<1>7. CASE ~crash /\ arg.status = "Done" /\ arg.type = NamespaceId
    <2> HIDE DEF arg
    <2>1. next = End(Failed(arg.types))
        BY <1>4, <1>7
    <2>2. ~IsDone(Failed(arg.types))
        BY DEF Failed, Stop, Result, IsDone
    <2> QED BY <2>1, <2>2, CallEnds
<1>8. CASE ~crash /\ arg.status \notin {"Aborted", "Crashed"} /\ ~(arg.status = "Done" /\ arg.type = NamespaceId)
    <2>1. next = [result |-> Result(status, id, arg.types), over |-> FALSE]
        <3> HIDE DEF arg, status
        <3> QED BY <1>4, <1>8
    <2>2. IsCall(next) /\ next.result = Result(status, id, arg.types)
        BY <2>1, CallGoesOn
    <2>0. IsDone(next.result) => status = "Done"
        <3> HIDE DEF arg, status
        <3> QED BY <2>2 DEF IsDone, Result
    <2> SUFFICES ASSUME status = "Done"
                 PROVE  /\ next = Going(id, next.result.types)
                        /\ Good(next.result.types) /\ IsPrefix(table, next.result.types)
                        /\ \A later : IsTypes(later) /\ IsPrefix(next.result.types, later) =>
                             CheckArgument(again, n, schema, Going(id, later)) = Going(id, later)
        BY <2>0, <2>2
    <2>3. next = Going(id, arg.types) /\ next.result.types = arg.types
        <3> HIDE DEF arg, status
        <3> QED BY <2>1 DEF Going, Done, Result
    <2>4. ~wrong /\ arg.status # "Failed"
        OBVIOUS
    <2>5. Len(schema.parameters) \in Nat /\ (HasParameter(n, schema) => schema.parameters[n] \in DOMAIN table)
        BY <1>8
    <2>6. context \in 0 .. Len(table)
        <3>1. Len(table) \in Nat /\ DOMAIN table = 1 .. Len(table)
            BY TableIs DEF Good
        <3> QED BY <2>5, <3>1 DEF NoContext
    <2>7. Sound(arg, table)
        BY <2>6 DEF Repeats
    <2>8. IsDone(arg)
        <3> HIDE DEF arg
        <3> QED BY <1>8, <2>4, <2>7 DEF Sound, Results, IsDone
    <2>9. \A later : FoundAgain(arg, later, again[context][later])
        BY <2>6, <2>8 DEF Repeats
    <2> HIDE DEF arg, context
    <2>10. /\ Good(arg.types) /\ IsPrefix(table, arg.types) /\ DOMAIN table \subseteq DOMAIN arg.types
           /\ arg.type \in DOMAIN arg.types
        BY <2>7, <2>8, GoOn DEF Good
    <2>11. ASSUME NEW later, IsTypes(later), IsPrefix(arg.types, later)
           PROVE  CheckArgument(again, n, schema, Going(id, later)) = Going(id, later)
        <3> DEFINE call2 == Going(id, later)
                   arg2 == again[context][later]
        <3>1. call2.over = FALSE /\ call2.result.status = "Done" /\ call2.result.type = id
              /\ call2.result.types = later /\ call2 = [result |-> Done(id, later), over |-> FALSE]
              /\ call2.result = Done(id, later)
            BY DEF Going, Done, Result
        <3>2. \A r : [call2 EXCEPT !.result = r] = [result |-> r, over |-> FALSE]
            BY <3>1, CallGoesOn, CallWith
        <3> HIDE DEF call2
        <3>3. arg2 = Done(arg.type, later)
            BY <2>9, <2>11 DEF FoundAgain
        <3>4. arg2.status = "Done" /\ arg2.type = arg.type /\ arg2.types = later
            BY <3>3 DEF Done, Result
        <3>5. /\ DOMAIN arg.types \subseteq DOMAIN later
              /\ \A x \in DOMAIN arg.types : later[x] = arg.types[x]
            BY <2>10, <2>11, LaterTable DEF Good
        <3>6. HasParameter(n, schema) => TryCoerce(schema.parameters[n], arg.type, later, TRUE)
            BY <2>4, <2>5, <2>10, <3>5 DEF TryCoerce
        <3>7. arg.type # NamespaceId
            BY <1>8, <2>8 DEF IsDone
        <3>8. CheckArgument(again, n, schema, call2)
                = CASE arg2.status \in {"Aborted", "Crashed"} -> End(arg2)
                    [] arg2.status = "Done" /\ arg2.type = NamespaceId -> End(Failed(arg2.types))
                    [] OTHER -> [call2 EXCEPT !.result =
                         Result(IF \/ arg2.status = "Failed"
                                   \/ HasParameter(n, schema) /\ call2.result.status = "Done"
                                        /\ ~TryCoerce(schema.parameters[n], arg2.type, arg2.types, TRUE)
                                THEN "Failed" ELSE call2.result.status, call2.result.type, arg2.types)]
            BY <1>8, <3>1 DEF CheckArgument, context
        <3> HIDE DEF arg2
        <3>9. CheckArgument(again, n, schema, call2)
                = [call2 EXCEPT !.result = Result("Done", id, later)]
            BY <3>1, <3>4, <3>6, <3>7, <3>8
        <3>10. CheckArgument(again, n, schema, call2) = call2
            BY <3>1, <3>2, <3>9 DEF Done
        <3> QED BY <3>10 DEF call2
    <2> QED BY <2>3, <2>10, <2>11
<1> QED BY <1>5, <1>6, <1>7, <1>8

\* A call that was Done is Done again: its schema and its arguments are the same.
LEMMA ArgumentsAgain ==
    ASSUME NEW m \in Nat, NEW checks, NEW again, Len(checks) = m, Len(again) = m,
           \A n \in 1 .. m : Repeats(checks[n], again[n]),
           NEW table, Good(table), NEW schema, schema.parameters \in Seq(DOMAIN table),
           NEW status, NEW id, IsDone(CheckArguments(checks, schema, Result(status, id, table))),
           NEW later, IsTypes(later),
           IsPrefix(CheckArguments(checks, schema, Result(status, id, table)).types, later)
    PROVE  /\ status = "Done"
           /\ CheckArguments(checks, schema, Result(status, id, table)).type = id
           /\ CheckArguments(again, schema, Done(id, later)) = Done(id, later)
           /\ IsPrefix(table, later)
<1> DEFINE r == Result(status, id, table)
           q == Done(id, later)
<1> HIDE DEF r, q
<1>1. PICK a : /\ a[0] = [result |-> r, over |-> FALSE]
               /\ \A n \in 1 .. m : a[n] = CheckArgument(checks[n], n, schema, a[n - 1])
               /\ CheckArguments(checks, schema, r) = a[m].result
    <2>1. PICK a : Arguments(a, checks, m, schema, r)
        BY ArgumentsRun
    <2> QED BY <2>1 DEF Arguments
<1>2. PICK b : /\ b[0] = [result |-> q, over |-> FALSE]
               /\ \A n \in 1 .. m : b[n] = CheckArgument(again[n], n, schema, b[n - 1])
               /\ CheckArguments(again, schema, q) = b[m].result
    <2>1. PICK b : Arguments(b, again, m, schema, q)
        BY ArgumentsRun
    <2> QED BY <2>1 DEF Arguments
<1> DEFINE t(n) == a[n].result.types
           P(n) == n <= m =>
                     /\ IsCall(a[n])
                     /\ IsDone(a[n].result) =>
                          /\ status = "Done" /\ a[n] = Going(id, t(n))
                          /\ Good(t(n)) /\ IsPrefix(table, t(n))
                          /\ IsPrefix(t(n), later) => b[n] = Going(id, later)
           S == {n \in Nat : P(n)}
<1>3. 0 \in S
    <2>1. IsCall(a[0]) /\ a[0].result = r /\ t(0) = table
        <3>1. r.types = table
            BY DEF r, Result
        <3> QED BY <1>1, <3>1, CallGoesOn
    <2>2. IsPrefix(table, table)
        BY TableIs DEF Good
    <2>3. IsDone(r) => status = "Done" /\ a[0] = Going(id, table)
        BY <1>1 DEF IsDone, Result, Done, Going, r
    <2>4. b[0] = Going(id, later)
        BY <1>2 DEF Going, q
    <2> QED BY <2>1, <2>2, <2>3, <2>4
<1>4. ASSUME NEW n \in Nat, n \in S
      PROVE  n + 1 \in S
    <2> SUFFICES ASSUME n + 1 <= m
                 PROVE  P(n + 1)
        OBVIOUS
    <2>0. n <= m /\ n + 1 \in 1 .. m /\ (n + 1) - 1 = n /\ n + 1 >= 1 /\ n + 1 \in Nat
        OBVIOUS
    <2>1. /\ a[n + 1] = CheckArgument(checks[n + 1], n + 1, schema, a[n])
          /\ b[n + 1] = CheckArgument(again[n + 1], n + 1, schema, b[n])
        BY <1>1, <1>2, <2>0
    <2>2. P(n)
        BY <1>4
    <2>3. CASE ~IsDone(a[n].result)
        <3>1. IsCall(a[n + 1]) /\ ~IsDone(a[n + 1].result)
            BY <2>0, <2>1, <2>2, <2>3, ArgumentNotDone
        <3> QED BY <3>1
    <2>4. CASE IsDone(a[n].result)
        <3> DEFINE u == t(n)
                   next == a[n + 1]
        <3>1. /\ status = "Done" /\ a[n] = Going(id, u) /\ Good(u) /\ IsPrefix(table, u)
              /\ IsPrefix(u, later) => b[n] = Going(id, later)
            BY <2>0, <2>2, <2>4
        <3>2. schema.parameters \in Seq(DOMAIN u)
            <4>1. DOMAIN table \subseteq DOMAIN u
                BY <3>1, LaterTable DEF Good
            <4> HIDE DEF u
            <4> QED BY <4>1
        <3> HIDE DEF u
        <3>3. next = CheckArgument(checks[n + 1], n + 1, schema, Going(id, u))
            BY <2>1, <3>1
        <3> HIDE DEF next
        <3>4. /\ IsCall(next)
              /\ IsDone(next.result) =>
                    /\ next = Going(id, next.result.types)
                    /\ Good(next.result.types) /\ IsPrefix(u, next.result.types)
                    /\ \A x : IsTypes(x) /\ IsPrefix(next.result.types, x) =>
                         CheckArgument(again[n + 1], n + 1, schema, Going(id, x)) = Going(id, x)
            <4>1. Repeats(checks[n + 1], again[n + 1])
                BY <2>0
            <4> QED BY <2>0, <3>1, <3>2, <3>3, <4>1, ArgumentDone
        <3>5. ASSUME IsDone(next.result)
              PROVE  /\ IsPrefix(table, next.result.types)
                     /\ IsPrefix(next.result.types, later) => b[n + 1] = Going(id, later)
            <4>1. Good(next.result.types) /\ IsPrefix(u, next.result.types)
                BY <3>4, <3>5
            <4>2. IsPrefix(table, next.result.types)
                BY <3>1, <4>1, LaterStill DEF Good
            <4>3. ASSUME IsPrefix(next.result.types, later)
                  PROVE  b[n + 1] = Going(id, later)
                <5>1. IsPrefix(u, later)
                    BY <3>1, <4>1, <4>3, LaterStill DEF Good
                <5> QED BY <2>1, <3>1, <3>4, <3>5, <4>3, <5>1
            <4> QED BY <4>2, <4>3
        <3> QED BY <3>1, <3>4, <3>5 DEF next
    <2> QED BY <2>3, <2>4
<1> HIDE DEF S, P
<1>5. \A n \in Nat : n \in S
    BY <1>3, <1>4, SetInduction
<1>6. P(m)
    BY <1>5 DEF S
<1>7. IsDone(a[m].result) /\ IsPrefix(a[m].result.types, later)
    BY <1>1 DEF r
<1>8. status = "Done" /\ a[m] = Going(id, t(m)) /\ Good(t(m)) /\ IsPrefix(table, t(m)) /\ b[m] = Going(id, later)
    BY <1>6, <1>7 DEF P
<1>9. a[m].result = Done(id, t(m)) /\ b[m].result = q
    BY <1>8 DEF Going, q
<1>10. IsPrefix(table, later)
    BY <1>7, <1>8, LaterStill DEF Good
<1>11. a[m].result.type = id
    <2> HIDE DEF t
    <2> QED BY <1>9 DEF Done, Result
<1> QED BY <1>1, <1>2, <1>8, <1>9, <1>10, <1>11 DEF r, q
-----------------------------------------------------------------------------
(* Expressions, after a step.                                               *)

CheckAgain(e) == Repeats(CheckTree[e], CheckTree[e]')
LEMMA CheckAgainIs ==
    ASSUME NEW e \in Expressions,
           \A c, table : Good(table) /\ c \in 0 .. Len(table) /\ IsDone(CheckTree[e][c][table]) =>
             \A later : FoundAgain(CheckTree[e][c][table], later, CheckTree[e][c][later]')
    PROVE  CheckAgain(e)
<1>1. ASSUME NEW c, NEW table, Good(table), c \in 0 .. Len(table)
      PROVE  Sound(CheckTree[e][c][table], table)
    <2>1. Checks(Check(e, c, table), e, table)
        BY <1>1, CheckIsSound DEF Good
    <2> QED BY <2>1 DEF Checks, Check
<1> QED BY <1>1 DEF CheckAgain, Repeats

\* The same id is the same layout.
SameIds(table, later) == DOMAIN table \subseteq DOMAIN later /\ \A x \in DOMAIN table : later[x] = table[x]
LEMMA IdsAreTheSame ==
    ASSUME NEW table, Good(table), NEW later, IsTypes(later), IsPrefix(table, later)
    PROVE  SameIds(table, later)
BY LaterTable DEF Good, SameIds
LEMMA CoercesStrictly ==
    ASSUME NEW table, NEW later, SameIds(table, later), NEW a \in DOMAIN table, NEW b \in DOMAIN table
    PROVE  TryCoerce(a, b, later, TRUE) = TryCoerce(a, b, table, TRUE)
BY DEF SameIds, TryCoerce
LEMMA CoercesLoosely ==
    ASSUME NEW table, NEW later, SameIds(table, later), NEW a \in DOMAIN table, NEW b \in DOMAIN table
    PROVE  TryCoerce(a, b, later, FALSE) = TryCoerce(a, b, table, FALSE)
BY DEF SameIds, TryCoerce
LEMMA ElementAgain ==
    ASSUME NEW table, NEW later, SameIds(table, later), NEW id \in DOMAIN table
    PROVE  Element(id, later) = Element(id, table)
BY DEF SameIds, Element
LEMMA DoneAgain ==
    ASSUME NEW id, NEW table
    PROVE  /\ IsDone(Done(id, table)) /\ Done(id, table).type = id /\ Done(id, table).types = table
           /\ Done(id, table).status = "Done" /\ ~IsDone(Failed(table))
BY DEF IsDone, Done, Failed, Stop, Result
LEMMA TheOnlyAgain ==
    ASSUME NEW ids, NEW table, IsDone(TheOnly(ids, table))
    PROVE  TheOnly(ids, table).types = table
           /\ \A later : TheOnly(ids, later) = Done(TheOnly(ids, table).type, later)
<1>1. ids # {}
    BY DoneAgain DEF TheOnly
<1> QED BY <1>1, DoneAgain DEF TheOnly
LEMMA LvalueAgain ==
    ASSUME NEW e, NEW id, NEW table, NEW good, IsDone(LvalueOr(e, id, table, good))
    PROVE  LvalueOr(e, id, table, good) = good /\ \A later, better : LvalueOr(e, id, later, better) = better
<1>1. Lvalue(e, id) \in {"yes", "no", "abort"}
    BY DEF Lvalue
<1>2. Lvalue(e, id) = "yes"
    <2>1. ~IsDone(Stop("Aborted", table))
        BY DEF IsDone, Stop, Result
    <2> QED BY <1>1, <2>1, DoneAgain DEF LvalueOr
<1> QED BY <1>2 DEF LvalueOr
LEMMA MemberAgain ==
    ASSUME NEW e, NEW table, IsTypes(table), NEW id \in DOMAIN table, IsDone(CheckMember(e, id, table)),
           NEW later, SameIds(table, later)
    PROVE  /\ CheckMember(e, id, table).types = table
           /\ CheckMember(e, id, later) = Done(CheckMember(e, id, table).type, later)
<1>1. StructOf(id, table) \in DOMAIN table
    BY PointedAt DEF StructOf
<1>2. StructOf(id, later) = StructOf(id, table) /\ later[StructOf(id, table)] = table[StructOf(id, table)]
    BY <1>1 DEF SameIds, StructOf
<1> DEFINE struct == table[StructOf(id, table)]
<1>3. struct.kind = "Struct" /\ \E f \in ToSet(struct.fields) : f.name = e.member
    BY DoneAgain DEF CheckMember
<1>4. CheckMember(e, id, table) = Done(FieldOf(struct.fields, e.member).type, table)
    BY <1>3 DEF CheckMember
<1>5. CheckMember(e, id, later) = Done(FieldOf(struct.fields, e.member).type, later)
    BY <1>2, <1>3 DEF CheckMember
<1> QED BY <1>4, <1>5, DoneAgain
OperandsFound(e, left, right, table, later) ==
    CheckOperands(e, left, right, later)' = Done(CheckOperands(e, left, right, table).type, later)
LEMMA OperandsAgain ==
    ASSUME NamesStay, NEW e, NEW table, IsTypes(table), NEW left \in DOMAIN table, NEW right \in DOMAIN table,
           IsDone(CheckOperands(e, left, right, table)),
           e.left.kind = "Identifier" => e.left.symbol \in DOMAIN names,
           NEW later, SameIds(table, later)
    PROVE  /\ CheckOperands(e, left, right, table).types = table
           /\ OperandsFound(e, left, right, table, later)
<1> SUFFICES /\ CheckOperands(e, left, right, table).types = table
             /\ CheckOperands(e, left, right, later)' = Done(CheckOperands(e, left, right, table).type, later)
    BY DEF OperandsFound
<1> DEFINE r == CheckOperands(e, left, right, table)
           q == CheckOperands(e, left, right, later)'
<1>1. /\ TryCoerce(left, right, later, TRUE) = TryCoerce(left, right, table, TRUE)
      /\ TryCoerce(left, right, later, FALSE) = TryCoerce(left, right, table, FALSE)
    BY CoercesStrictly, CoercesLoosely
<1>2. CASE e.op = "Assign"
    <2> DEFINE good == UnlessConstant(e.left, left, table)
               better == UnlessConstant(e.left, left, later)'
    <2>1. TryCoerce(left, right, table, FALSE) /\ r = LvalueOr(e.left, left, table, good)
        <3> HIDE DEF good
        <3> QED BY <1>2, DoneAgain DEF CheckOperands, Equalities, good
    <2>2. TryCoerce(left, right, later, FALSE)
        BY <1>1, <2>1
    <2>3. q = LvalueOr(e.left, left, later, better)
        BY <1>2, <2>2 DEF CheckOperands, Equalities
    <2> HIDE DEF q
    <2>4. r = good /\ LvalueOr(e.left, left, later, better) = better
        <3> HIDE DEF good, better
        <3> QED BY <2>1, LvalueAgain
    <2>5. ~(e.left.kind = "Identifier" /\ names[e.left.symbol].sort = "Constant") /\ good = Done(left, table)
        BY <2>4, DoneAgain DEF UnlessConstant
    <2>6. better = Done(left, later)
        <3>1. CASE e.left.kind = "Identifier"
            <4>1. names'[e.left.symbol] = names[e.left.symbol]
                BY <3>1 DEF NamesStay
            <4> QED BY <2>5, <3>1, <4>1 DEF UnlessConstant
        <3>2. CASE e.left.kind # "Identifier"
            BY <3>2 DEF UnlessConstant
        <3> QED BY <3>1, <3>2
    <2> HIDE DEF better, good
    <2>7. q = Done(left, later) /\ r = Done(left, table)
        BY <2>3, <2>4, <2>5, <2>6
    <2> QED BY <2>7, DoneAgain DEF q
<1>3. CASE e.op \in Equalities
    <2>0. e.op # "Assign"
        BY <1>3 DEF Equalities
    <2>1. TryCoerce(left, right, table, TRUE) /\ left \in {IntId, CharId} /\ r = Done(BoolId, table)
        BY <1>3, <2>0, DoneAgain DEF CheckOperands
    <2>2. TryCoerce(left, right, later, TRUE)
        BY <1>1, <2>1
    <2>3. q = Done(BoolId, later)
        BY <1>3, <2>0, <2>1, <2>2 DEF CheckOperands
    <2> QED BY <2>1, <2>3, DoneAgain
<1>4. CASE e.op # "Assign" /\ e.op \notin Equalities
    <2>1. TryCoerce(left, right, table, TRUE) /\ r = Done(right, table)
        BY <1>4, DoneAgain DEF CheckOperands
    <2>2. TryCoerce(left, right, later, TRUE)
        BY <1>1, <2>1
    <2>3. q = Done(right, later)
        BY <1>4, <2>2 DEF CheckOperands
    <2> QED BY <2>1, <2>3, DoneAgain
<1> QED BY <1>2, <1>3, <1>4
LEMMA SoundDone ==
    ASSUME NEW r, Sound(r, r.types), IsDone(r)
    PROVE  r = Done(r.type, r.types) /\ r.type \in DOMAIN r.types /\ r.type \in Nat
BY DEF Sound, Results, IsDone, Done, Result

\* The callee was found again, and so is what the call makes of it.
LEMMA CallAgain ==
    ASSUME NamesStay, NEW e \in Expressions, e.kind = "Function_Call",
           \A o \in Operands(e) : CheckAgain(o),
           NEW v, Good(v.types), v.type \in DOMAIN v.types,
           e.callee.kind = "Identifier" => e.callee.symbol \in DOMAIN names,
           IsDone(CheckOn(CheckTree, e, v, NoContext)),
           NEW later, IsTypes(later), IsPrefix(v.types, later),
           IsPrefix(CheckOn(CheckTree, e, v, NoContext).types, later)
    PROVE  CheckOn(CheckTree, e, Done(v.type, later), NoContext)'
             = Done(CheckOn(CheckTree, e, v, NoContext).type, later)
<1> DEFINE table == v.types
           layout == table[v.type]
           symbol == names[e.callee.symbol]
           m == Len(e.arguments)
           enough == EnoughArguments(m, symbol.schema)
           status == IF enough THEN "Done" ELSE "Failed"
           checks == [n \in DOMAIN e.arguments |-> CheckTree[e.arguments[n]]]
           again == [n \in DOMAIN e.arguments |-> CheckTree[e.arguments[n]]']
           w == Done(v.type, later)
           r == CheckOn(CheckTree, e, v, NoContext)
           q == CheckOn(CheckTree, e, w, NoContext)'
<1>1. r = CheckFunctionCall(checks, e, v)
    BY DEF CheckOn
<1>2. q = CheckFunctionCall(checks, e, w)'
    BY DEF CheckOn
<1>3. w.type = v.type /\ w.types = later /\ w.status = "Done"
    BY DEF Done, Result
<1>4. IsDone(r) /\ IsPrefix(r.types, later)
    OBVIOUS
<1>5. r = CASE layout.kind # "Function" -> Failed(table)
            [] layout.kind = "Function" /\ (e.callee.kind # "Identifier" \/ symbol.sort # "Function") ->
                 Stop("Aborted", table)
            [] OTHER -> CheckArguments(checks, symbol.schema, Result(status, layout.return_type, table))
    <2> HIDE DEF checks, r
    <2> QED BY <1>1 DEF CheckFunctionCall
<1> DEFINE symbol2 == names'[e.callee.symbol]
           status2 == IF EnoughArguments(m, symbol2.schema) THEN "Done" ELSE "Failed"
<1>6. q = CASE later[v.type].kind # "Function" -> Failed(later)
            [] later[v.type].kind = "Function" /\ (e.callee.kind # "Identifier" \/ symbol2.sort # "Function") ->
                 Stop("Aborted", later)
            [] OTHER -> CheckArguments(again, symbol2.schema, Result(status2, later[v.type].return_type, later))
    <2> HIDE DEF q, w
    <2> QED BY <1>2, <1>3 DEF CheckFunctionCall
<1> SUFFICES q = Done(r.type, later)
    OBVIOUS
<1> HIDE DEF r, q, w
<1>7. /\ layout.kind = "Function" /\ e.callee.kind = "Identifier" /\ symbol.sort = "Function"
      /\ r = CheckArguments(checks, symbol.schema, Result(status, layout.return_type, table))
    <2>1. ~IsDone(Stop("Aborted", table)) /\ ~IsDone(Failed(table))
        BY DEF Stop, Failed, Result, IsDone
    <2> HIDE DEF checks, status, layout, table, symbol
    <2> QED BY <1>4, <1>5, <2>1
<1>8. symbol2 = symbol /\ later[v.type] = layout
    <2>1. SameIds(table, later)
        BY IdsAreTheSame
    <2> QED BY <1>7, <2>1 DEF NamesStay, SameIds
<1>9. q = CheckArguments(again, symbol.schema, Result(status, layout.return_type, later))
    <2> HIDE DEF again, layout, symbol2, symbol
    <2> QED BY <1>6, <1>7, <1>8
<1>10. symbol.schema.parameters \in Seq(DOMAIN table)
    <2>1. e.callee.symbol \in DOMAIN names
        BY <1>7
    <2>2. IsSymbol(symbol, table)
        BY <2>1 DEF Good, Symbols
    <2> QED BY <1>7, <2>2 DEF IsSymbol
<1>11. e.arguments \in Seq(Expressions) /\ m \in Nat /\ DOMAIN e.arguments = 1 .. m
    BY ExpressionForms
<1>12. Len(checks) = m /\ Len(again) = m
    BY <1>11
<1>13. ASSUME NEW n \in 1 .. m
       PROVE  Repeats(checks[n], again[n])
    <2>1. e.arguments[n] \in Operands(e)
        BY <1>11 DEF Operands, ToSet
    <2>2. CheckAgain(e.arguments[n])
        BY <2>1
    <2>3. checks[n] = CheckTree[e.arguments[n]] /\ again[n] = CheckTree[e.arguments[n]]'
        BY <1>11
    <2> HIDE DEF checks, again
    <2> QED BY <2>2, <2>3 DEF CheckAgain
<1> DEFINE schema == symbol.schema
           id == layout.return_type
<1>14. /\ schema.parameters \in Seq(DOMAIN table) /\ Good(table)
       /\ r = CheckArguments(checks, schema, Result(status, id, table))
       /\ q = CheckArguments(again, schema, Result(status, id, later))
    BY <1>7, <1>9, <1>10
<1> HIDE DEF schema, id, status, table, checks, again, m
<1>15. status = "Done" /\ r.type = id /\ CheckArguments(again, schema, Done(id, later)) = Done(id, later)
    <2>1. IsDone(CheckArguments(checks, schema, Result(status, id, table)))
          /\ IsPrefix(CheckArguments(checks, schema, Result(status, id, table)).types, later)
        BY <1>4, <1>14
    <2> QED BY <1>11, <1>12, <1>13, <1>14, <2>1, ArgumentsAgain
<1> QED BY <1>14, <1>15 DEF Done

LEMMA CastAgain ==
    ASSUME NamesStay, NEW e \in Expressions, e.kind = "Cast", CheckAgain(e.expr),
           NEW table, Good(table), NEW c \in 0 .. Len(table), IsDone(CheckCast(CheckTree, e, c, table)),
           NEW later, IsTypes(later), IsPrefix(CheckCast(CheckTree, e, c, table).types, later)
    PROVE  CheckCast(CheckTree, e, c, later)' = Done(CheckCast(CheckTree, e, c, table).type, later)
<1> DEFINE target == IF e.type # None THEN Resolve(e.type, table)
                     ELSE IF c # NoContext THEN Done(c, table) ELSE Failed(table)
           v == CheckTree[e.expr][NoContext][target.types]
           r == CheckCast(CheckTree, e, c, table)
           target2 == IF e.type # None THEN Resolve(e.type, later)'
                      ELSE IF c # NoContext THEN Done(c, later) ELSE Failed(later)
           q == CheckCast(CheckTree, e, c, later)'
<1>1. r = CASE ~IsDone(target) -> target
            [] IsDone(target) /\ ~IsDone(v) -> v
            [] OTHER -> IF v.type = target.type \/ TryCoerce(target.type, v.type, v.types, FALSE)
                        THEN Done(target.type, v.types) ELSE Failed(v.types)
    BY DEF CheckCast
<1>2. q = CASE ~IsDone(target2) -> target2
            [] IsDone(target2) /\ ~IsDone(CheckTree'[e.expr][NoContext][target2.types]) ->
                 CheckTree'[e.expr][NoContext][target2.types]
            [] OTHER -> LET x == CheckTree'[e.expr][NoContext][target2.types] IN
                        IF x.type = target2.type \/ TryCoerce(target2.type, x.type, x.types, FALSE)
                        THEN Done(target2.type, x.types) ELSE Failed(x.types)
    BY DEF CheckCast
<1>3. IsDone(r) /\ IsPrefix(r.types, later)
    OBVIOUS
<1> SUFFICES q = Done(r.type, later)
    OBVIOUS
<1>4. /\ IsDone(target) => Good(target.types) /\ target.type \in DOMAIN target.types
      /\ IsDone(target) => FoundAgain(target, later, target2)
    <2>1. CASE e.type # None
        <3>1. e.type \in Hints /\ target = Resolve(e.type, table) /\ target2 = Resolve(e.type, later)'
            BY <2>1, ExpressionForms
        <3>2. HintAgain(e.type) /\ Resolves(target, table)
            BY <3>1, HintsAgain, ResolveIsSound DEF Good
        <3> HIDE DEF target, target2
        <3>3. IsDone(target) => FoundAgain(target, later, target2)
            BY <3>1, <3>2 DEF HintAgain, Good
        <3> QED BY <3>2, <3>3, GoOn DEF Resolves, Good
    <2>2. CASE e.type = None /\ c # NoContext
        <3>1. c \in DOMAIN table
            <4>1. Len(table) \in Nat /\ DOMAIN table = 1 .. Len(table)
                BY TableIs DEF Good
            <4> QED BY <2>2, <4>1 DEF NoContext
        <3> QED BY <2>2, <3>1, DoneAgain DEF FoundAgain
    <2>3. CASE e.type = None /\ c = NoContext
        BY <2>3, DoneAgain
    <2> QED BY <2>1, <2>2, <2>3
<1> HIDE DEF target, target2, r, q
<1>5. IsDone(target) /\ IsDone(v) /\ r = Done(target.type, v.types)
      /\ (v.type = target.type \/ TryCoerce(target.type, v.type, v.types, FALSE))
    <2> HIDE DEF v
    <2> QED BY <1>1, <1>3, DoneAgain
<1>6. Good(target.types) /\ target.type \in DOMAIN target.types /\ NoContext \in 0 .. Len(target.types)
    <2>1. Len(target.types) \in Nat
        BY <1>4, <1>5, TableIs DEF Good
    <2> QED BY <1>4, <1>5, <2>1 DEF NoContext
<1>7. Sound(v, target.types) /\ FoundAgain(v, later, CheckTree[e.expr][NoContext][later]')
    BY <1>5, <1>6 DEF CheckAgain, Repeats
<1> HIDE DEF v
<1>8. r.types = v.types /\ r.type = target.type
    BY <1>5, DoneAgain
<1>9. /\ IsTypes(v.types) /\ IsPrefix(target.types, v.types) /\ IsPrefix(v.types, later) /\ IsPrefix(target.types, later)
      /\ v.type \in DOMAIN v.types /\ target.type \in DOMAIN v.types /\ Good(v.types)
    <2>1. /\ IsTypes(v.types) /\ IsPrefix(target.types, v.types) /\ IsPrefix(v.types, later)
          /\ v.type \in DOMAIN v.types /\ target.type \in DOMAIN v.types /\ Good(v.types)
        BY <1>3, <1>5, <1>6, <1>7, <1>8, GoOn DEF Good
    <2> QED BY <1>6, <2>1, LaterStill DEF Good
<1>10. target2 = Done(target.type, later) /\ CheckTree[e.expr][NoContext][later]' = Done(v.type, later)
    BY <1>4, <1>5, <1>7, <1>9 DEF FoundAgain
<1>11. target2.types = later /\ target2.type = target.type /\ IsDone(target2)
    BY <1>10, DoneAgain
<1>12. v.type = target.type \/ TryCoerce(target.type, v.type, later, FALSE)
    <2>1. SameIds(v.types, later)
        BY <1>9, IdsAreTheSame
    <2> QED BY <1>5, <1>9, <2>1, CoercesLoosely
<1> DEFINE x == CheckTree'[e.expr][NoContext][later]
<1>13. x.type = v.type /\ x.types = later /\ IsDone(x)
    BY <1>10, DoneAgain
<1>14. q = IF x.type = target2.type \/ TryCoerce(target2.type, x.type, x.types, FALSE)
           THEN Done(target2.type, x.types) ELSE Failed(x.types)
    BY <1>2, <1>11, <1>13
<1> HIDE DEF x
<1> QED BY <1>8, <1>11, <1>12, <1>13, <1>14
\* What was made of the operand checked first is made of it again.
LEMMA CheckOnAgain ==
    ASSUME NamesStay, NEW e \in Expressions,
           e.kind \notin {"Integer", "Float", "CString", "Identifier", "Cast"},
           \A o \in Operands(e) : CheckAgain(o),
           NEW v, Good(v.types), v.type \in DOMAIN v.types, NEW c \in 0 .. Len(v.types),
           First(e).kind = "Identifier" => First(e).symbol \in DOMAIN names,
           IsDone(CheckOn(CheckTree, e, v, c)),
           NEW later, IsTypes(later), IsPrefix(v.types, later),
           IsPrefix(CheckOn(CheckTree, e, v, c).types, later)
    PROVE  CheckOn(CheckTree, e, Done(v.type, later), c)' = Done(CheckOn(CheckTree, e, v, c).type, later)
<1> DEFINE id == v.type
           table == v.types
           r == CheckOn(CheckTree, e, v, c)
           w == Done(id, later)
           q == CheckOn(CheckTree, e, w, c)'
<1>1. w.type = id /\ w.types = later
    BY DEF Done, Result
<1>2. IsDone(r) /\ IsPrefix(r.types, later)
    OBVIOUS
<1>3. SameIds(table, later)
    BY IdsAreTheSame
<1>4. id \in DOMAIN table /\ id \in 0 .. Len(table) /\ id \in Nat
    <2>1. Len(table) \in Nat /\ DOMAIN table = 1 .. Len(table)
        BY TableIs DEF Good
    <2> QED BY <2>1
<1> SUFFICES q = Done(r.type, later)
    OBVIOUS
<1>5. CASE e.kind = "Dereference"
    <2> DEFINE Ids(t) == IF t[id].kind = "Pointer" THEN Element(id, t) ELSE {}
               ids == Ids(table)
    <2>1. r = TheOnly(Ids(table), table)
        BY <1>5 DEF CheckOn
    <2>2. q = TheOnly(Ids(later), later)
        <3> HIDE DEF w
        <3> QED BY <1>1, <1>5 DEF CheckOn
    <2>3. Ids(later) = ids
        <3>1. later[id] = table[id]
            BY <1>3, <1>4 DEF SameIds
        <3> HIDE DEF id
        <3> QED BY <1>3, <1>4, <3>1, ElementAgain
    <2> HIDE DEF r, q, Ids, ids
    <2> QED BY <1>2, <2>1, <2>2, <2>3, TheOnlyAgain DEF ids
<1>6. CASE e.kind = "AddressOf"
    <2> DEFINE lucky == TRUE
               layout == PointerType(FALSE, id)
               good == RegisterOrGet(layout, table, lucky)
               better == RegisterOrGet(layout, later, lucky)
    <2>1. r = LvalueOr(e.operand, id, table, good)
        BY <1>6 DEF CheckOn
    <2>2. q = LvalueOr(e.operand, id, later, better)
        <3> HIDE DEF w
        <3> QED BY <1>1, <1>6 DEF CheckOn
    <2>3. layout \in Layouts /\ layout.kind \in Composed
        <3> HIDE DEF id
        <3>1. layout \in [kind : {"Pointer"}, mutability : BOOLEAN, target_type : Nat]
            BY <1>4 DEF PointerType
        <3> QED BY <3>1 DEF PointerType, Layouts, Composed
    <2> HIDE DEF r, q, layout, lucky
    <2>4. r = good /\ q = better
        <3> HIDE DEF good, better
        <3> QED BY <1>2, <2>1, <2>2, LvalueAgain
    <2>5. IsTypes(table)
        BY DEF Good
    <2>6. better = Done(good.type, later)
        BY <1>2, <2>3, <2>4, <2>5, RegisterAgain
    <2> QED BY <2>4, <2>6
<1>7. CASE e.kind = "Subscript"
    <2> DEFINE i == CheckTree[e.index][c][table]
               j == CheckTree[e.index][c][later]'
               Ids(n, t) == IF TryCoerce(IntId, n, t, TRUE) THEN Element(id, t) ELSE {}
               ids == Ids(i.type, i.types)
    <2>1. r = IF ~IsDone(i) THEN i ELSE TheOnly(Ids(i.type, i.types), i.types)
        BY <1>7 DEF CheckOn
    <2>2. q = IF ~IsDone(j) THEN j ELSE TheOnly(Ids(j.type, j.types), j.types)
        <3> HIDE DEF w
        <3> QED BY <1>1, <1>7 DEF CheckOn
    <2>3. Sound(i, table) /\ (IsDone(i) => FoundAgain(i, later, j))
        <3>1. e.index \in Operands(e)
            BY <1>7 DEF Operands
        <3> QED BY <3>1 DEF CheckAgain, Repeats
    <2> HIDE DEF i, j, r, q, Ids
    <2>4. IsDone(i) /\ r = TheOnly(ids, i.types) /\ IsDone(TheOnly(ids, i.types))
        BY <1>2, <2>1
    <2>5. r.types = i.types
        <3> HIDE DEF ids
        <3> QED BY <2>4, TheOnlyAgain
    <2>6. Good(i.types) /\ i.type \in DOMAIN i.types /\ IsPrefix(i.types, later)
          /\ id \in DOMAIN i.types /\ IntId \in DOMAIN i.types
        <3>1. Good(i.types) /\ i.type \in DOMAIN i.types /\ IsPrefix(i.types, later) /\ id \in DOMAIN i.types
            BY <1>2, <1>4, <2>3, <2>4, <2>5, GoOn DEF Good
        <3>2. 1 .. 12 \subseteq DOMAIN i.types
            BY <3>1, TableIs DEF Good
        <3> QED BY <3>1, <3>2 DEF IntId
    <2>7. SameIds(i.types, later)
        BY <2>6, IdsAreTheSame
    <2>8. j = Done(i.type, later)
        BY <2>3, <2>4, <2>6 DEF FoundAgain
    <2>9. IsDone(j) /\ j.type = i.type /\ j.types = later
        BY <2>8, DoneAgain
    <2>10. Ids(i.type, later) = ids
        <3>1. Element(id, later) = Element(id, i.types)
            <4> HIDE DEF id
            <4> QED BY <2>6, <2>7, ElementAgain
        <3>2. TryCoerce(IntId, i.type, later, TRUE) = TryCoerce(IntId, i.type, i.types, TRUE)
            BY <2>6, <2>7, CoercesStrictly
        <3> QED BY <3>1, <3>2 DEF Ids
    <2>11. q = TheOnly(ids, later)
        <3> HIDE DEF ids
        <3> QED BY <2>2, <2>9, <2>10
    <2> HIDE DEF ids
    <2> QED BY <2>4, <2>11, TheOnlyAgain
<1>8. CASE e.kind = "Unary"
    <2>1. r = IF TryCoerce(BoolId, id, table, TRUE) THEN Done(BoolId, table) ELSE Failed(table)
        BY <1>8 DEF CheckOn
    <2>2. q = IF TryCoerce(BoolId, id, later, TRUE) THEN Done(BoolId, later) ELSE Failed(later)
        <3> HIDE DEF w
        <3> QED BY <1>1, <1>8 DEF CheckOn
    <2>3. BoolId \in DOMAIN table
        <3>1. 1 .. 12 \subseteq DOMAIN table
            BY TableIs DEF Good
        <3> QED BY <3>1 DEF BoolId
    <2> HIDE DEF r, q, id
    <2>4. TryCoerce(BoolId, id, table, TRUE) /\ r = Done(BoolId, table)
        BY <1>2, <2>1, DoneAgain
    <2>5. TryCoerce(BoolId, id, later, TRUE)
        BY <1>3, <1>4, <2>3, <2>4, CoercesStrictly
    <2> QED BY <2>2, <2>4, <2>5, DoneAgain
<1>9. CASE e.kind = "Member_Access"
    <2>1. r = CheckMember(e, id, table)
        BY <1>9 DEF CheckOn
    <2>2. q = CheckMember(e, id, later)
        <3> HIDE DEF w
        <3> QED BY <1>1, <1>9 DEF CheckOn
    <2>3. IsTypes(table)
        BY DEF Good
    <2> HIDE DEF r, q, id
    <2> QED BY <1>2, <1>3, <1>4, <2>1, <2>2, <2>3, MemberAgain
<1>10. CASE e.kind = "Binop"
    <2> DEFINE i == CheckTree[e.right][id][table]
               j == CheckTree[e.right][id][later]'
               Next2(right, t) ==
                 CASE e.op = "Assign" ->
                        IF ~TryCoerce(id, right, t, FALSE) THEN Failed(t)
                        ELSE LvalueOr(e.left, id, t,
                               IF e.left.kind = "Identifier" /\ names'[e.left.symbol].sort = "Constant"
                               THEN Failed(t) ELSE Done(id, t))
                   [] e.op \in Equalities ->
                        IF TryCoerce(id, right, t, TRUE) /\ id \in {IntId, CharId} THEN Done(BoolId, t)
                                                                               ELSE Failed(t)
                   [] OTHER -> IF TryCoerce(id, right, t, TRUE) THEN Done(right, t) ELSE Failed(t)
    <2>1. r = IF IsDone(i) THEN CheckOperands(e, id, i.type, i.types) ELSE i
        BY <1>10 DEF CheckOn
    <2>2. q = IF IsDone(j) THEN Next2(j.type, j.types) ELSE j
        <3> DEFINE x == CheckTree[e.right][id][later]
        <3>1. q = (IF IsDone(x) THEN CheckOperands(e, id, x.type, x.types) ELSE x)'
            <4> HIDE DEF w
            <4> QED BY <1>1, <1>10 DEF CheckOn
        <3>2. \A right, t : CheckOperands(e, id, right, t)' = Next2(right, t)
            BY DEF CheckOperands, UnlessConstant
        <3> HIDE DEF Next2, q
        <3> QED BY <3>1, <3>2
    <2>3. Sound(i, table) /\ (IsDone(i) => FoundAgain(i, later, j))
        <3>1. e.right \in Operands(e)
            BY <1>10 DEF Operands
        <3> QED BY <1>4, <3>1 DEF CheckAgain, Repeats
    <2>4. e.left.kind = "Identifier" => e.left.symbol \in DOMAIN names
        BY <1>10 DEF First
    <2>5. PICK left, right, mid : left = id /\ right = i.type /\ mid = i.types
        OBVIOUS
    <2>6. CheckOperands(e, left, right, later)' = Next2(right, later)
        BY <2>5 DEF CheckOperands, UnlessConstant
    <2> HIDE DEF r, q, i, j, Next2
    <2>7. IsDone(i) /\ r = CheckOperands(e, left, right, mid)
        BY <1>2, <2>1, <2>5
    <2>8. Good(mid) /\ right \in DOMAIN mid /\ left \in DOMAIN mid /\ IsTypes(mid)
        BY <1>4, <2>3, <2>5, <2>7, GoOn DEF Good
    <2>9. r.types = mid
        <3>1. SameIds(mid, mid)
            BY DEF SameIds
        <3> QED BY <1>2, <2>4, <2>7, <2>8, <3>1, OperandsAgain
    <2>10. SameIds(mid, later) /\ IsPrefix(mid, later)
        BY <1>2, <2>8, <2>9, IdsAreTheSame
    <2>11. CheckOperands(e, left, right, later)' = Done(r.type, later)
        <3>1. CheckOperands(e, left, right, later)' = Done(CheckOperands(e, left, right, mid).type, later)
            <4>1. IsDone(CheckOperands(e, left, right, mid))
                BY <1>2, <2>7
            <4>2. NamesStay /\ SameIds(mid, later)
                BY <2>10
            <4>3. OperandsFound(e, left, right, mid, later)
                BY <2>4, <2>8, <4>1, <4>2, OperandsAgain
            <4> QED BY <4>3 DEF OperandsFound
        <3> QED BY <2>7, <3>1
    <2>12. IsDone(j) /\ j.type = right /\ j.types = later
        <3>1. j = Done(right, later)
            BY <2>3, <2>5, <2>7, <2>10 DEF FoundAgain
        <3> QED BY <3>1, DoneAgain
    <2> QED BY <2>2, <2>6, <2>11, <2>12
<1>11. CASE e.kind = "Function_Call"
    <2>1. r = CheckOn(CheckTree, e, v, NoContext)
        BY <1>11 DEF CheckOn
    <2>2. q = CheckOn(CheckTree, e, w, NoContext)'
        BY <1>11 DEF CheckOn
    <2>3. e.callee.kind = "Identifier" => e.callee.symbol \in DOMAIN names
        BY <1>11 DEF First
    <2> HIDE DEF r, q
    <2> QED BY <1>2, <1>11, <2>1, <2>2, <2>3, CallAgain
<1>12. CASE e.kind = "Eval"
    <2>1. r = Stop("Aborted", table)
        BY <1>12 DEF CheckOn
    <2> HIDE DEF r
    <2> QED BY <1>2, <2>1 DEF Stop, Result, IsDone
<1> QED BY <1>5, <1>6, <1>7, <1>8, <1>9, <1>10, <1>11, <1>12, ExpressionForms
\* What a check that was Done goes by: its first operand was Done before it.
LEMMA FirstOf ==
    ASSUME NEW e \in Expressions, e.kind \notin {"Integer", "Float", "CString", "Identifier", "Cast"},
           NEW table, Good(table), NEW c \in 0 .. Len(table), IsDone(CheckTree[e][c][table])
    PROVE  LET v == CheckTree[First(e)][c][table]
               r == CheckTree[e][c][table]
           IN  /\ r = CheckOn(CheckTree, e, v, c)
               /\ IsDone(v) /\ Sound(v, table) /\ Good(v.types) /\ v.type \in DOMAIN v.types
               /\ c \in 0 .. Len(v.types)
               /\ First(e).kind = "Identifier" => First(e).symbol \in DOMAIN names
               /\ Sound(r, v.types) /\ IsTypes(r.types) /\ IsPrefix(v.types, r.types)
<1> DEFINE v == CheckTree[First(e)][c][table]
           r == CheckTree[e][c][table]
<1>0. Len(table) \in Nat /\ c \in Nat /\ IsTypes(table) /\ Symbols(table) /\ table \in Tables
    BY TableIs DEF Good, IsTypes
<1>1. First(e) \in Operands(e) /\ First(e) \in Expressions
    BY FirstIs, OperandsAre
<1>2. r = IF IsDone(v) THEN CheckOn(CheckTree, e, v, c) ELSE v
    BY <1>0, CheckIs DEF CheckBy
<1>3. Sound(v, table)
    <2>1. Checks(Check(First(e), c, table), First(e), table)
        BY <1>0, <1>1, CheckIsSound
    <2> QED BY <2>1 DEF Checks, Check
<1>4. IsDone(r)
    OBVIOUS
<1>5. First(e).kind = "Identifier" /\ IsDone(v) => First(e).symbol \in DOMAIN names
    <2> SUFFICES ASSUME IsDone(v), First(e).kind = "Identifier"
                 PROVE  First(e).symbol \in DOMAIN names
        OBVIOUS
    <2>1. v = CheckBy(CheckTree, First(e), c, table)
        BY <1>0, <1>1, CheckIs
    <2>2. v = CheckIdentifier(First(e).symbol, table)
        BY <2>1 DEF CheckBy
    <2> QED BY <2>2, DoneAgain DEF CheckIdentifier
<1>6. \A o \in Operands(e) : ChecksAlways(o)
    <2>1. ASSUME NEW o \in Operands(e), NEW t, NEW d, IsTypes(t), Symbols(t), d \in 0 .. Len(t)
          PROVE  Checks(CheckTree[o][d][t], o, t)
        <3>1. o \in Expressions
            BY OperandsAre
        <3>2. Checks(Check(o, d, t), o, t)
            BY <2>1, <3>1, CheckIsSound
        <3> QED BY <3>2 DEF Check
    <2> QED BY <2>1 DEF ChecksAlways
<1> HIDE DEF v, r
<1>7. IsDone(v) /\ r = CheckOn(CheckTree, e, v, c)
    BY <1>2, <1>4
<1>8. /\ IsTypes(v.types) /\ Symbols(v.types) /\ IsPrefix(table, v.types) /\ v.type \in DOMAIN v.types
      /\ IsPrefix(v.types, v.types) /\ v.type \in 0 .. Len(v.types)
    <2>1. /\ IsTypes(v.types) /\ Symbols(v.types) /\ IsPrefix(table, v.types) /\ v.type \in DOMAIN v.types
          /\ v.type \in 0 .. Len(v.types)
        BY <1>0, <1>3, <1>7, GoOn
    <2> QED BY <2>1, TableIs
<1>9. c \in 0 .. Len(v.types)
    <2>1. Len(table) <= Len(v.types) /\ Len(v.types) \in Nat
        BY <1>0, <1>8, LaterTable, TableIs
    <2> QED BY <1>0, <2>1
<1>10. Checks(v, e, v.types)
    BY <1>3, <1>7, <1>8 DEF Checks, Sound, Explained, IsDone
<1>11. Checks(r, e, v.types)
    <2> DEFINE t == v.types
    <2>1. IsTypes(t) /\ Symbols(t) /\ c \in 0 .. Len(t) /\ Checks(v, e, t)
        BY <1>8, <1>9, <1>10
    <2> HIDE DEF t
    <2>2. Checks(CheckOn(CheckTree, e, v, c), e, t)
        BY <1>5, <1>6, <1>7, <2>1, CheckOnChecks
    <2> QED BY <1>7, <2>2 DEF t
<1>12. Sound(r, v.types) /\ IsTypes(r.types) /\ IsPrefix(v.types, r.types)
    BY <1>11 DEF Checks, Sound
<1> QED BY <1>3, <1>5, <1>7, <1>8, <1>9, <1>12 DEF Good, v, r

LEMMA CheckAgainStep ==
    ASSUME NamesStay, NEW e \in Expressions, \A o \in Operands(e) : CheckAgain(o)
    PROVE  CheckAgain(e)
<1> SUFFICES ASSUME NEW c, NEW table, Good(table), c \in 0 .. Len(table), IsDone(CheckTree[e][c][table]),
                    NEW later, IsTypes(later), IsPrefix(CheckTree[e][c][table].types, later)
             PROVE  CheckTree[e][c][later]' = Done(CheckTree[e][c][table].type, later)
    BY CheckAgainIs DEF FoundAgain
<1> DEFINE r == CheckTree[e][c][table]
           q == CheckTree[e][c][later]'
<1>0. Len(table) \in Nat /\ c \in Nat /\ IsTypes(table) /\ table \in Tables /\ later \in Tables
    BY TableIs DEF Good, IsTypes
<1>1. r = CheckBy(CheckTree, e, c, table)
    BY <1>0, CheckIs
<1>2. q = CheckBy(CheckTree, e, c, later)'
    BY <1>0, CheckUnfoldsNext DEF CheckUnfolds
<1>3. IsDone(r) /\ IsPrefix(r.types, later)
    OBVIOUS
<1> SUFFICES q = Done(r.type, later)
    OBVIOUS
<1>4. CASE e.kind = "Integer"
    <2>1. r = Done(CheckInteger(c, table), table)
        BY <1>1, <1>4 DEF CheckBy
    <2>2. q = Done(CheckInteger(c, later), later)
        BY <1>2, <1>4 DEF CheckBy
    <2> HIDE DEF r, q
    <2>3. IsPrefix(table, later) /\ r.type = CheckInteger(c, table)
        BY <1>3, <2>1, DoneAgain
    <2>4. SameIds(table, later) /\ IntId \in DOMAIN table /\ (c # NoContext => c \in DOMAIN table)
        <3>1. 1 .. 12 \subseteq DOMAIN table /\ DOMAIN table = 1 .. Len(table)
            BY <1>0, TableIs
        <3> QED BY <1>0, <2>3, <3>1, IdsAreTheSame DEF IntId, NoContext
    <2>5. c # NoContext => TryCoerce(c, IntId, later, FALSE) = TryCoerce(c, IntId, table, FALSE)
        BY <2>4 DEF SameIds, TryCoerce
    <2>6. CheckInteger(c, later) = CheckInteger(c, table)
        BY <2>5 DEF CheckInteger
    <2> QED BY <2>2, <2>3, <2>6
<1>5. CASE e.kind = "Float"
    <2>1. r = Done(Float32Id, table)
        BY <1>1, <1>5 DEF CheckBy
    <2>2. q = Done(Float32Id, later)
        BY <1>2, <1>5 DEF CheckBy
    <2> QED BY <2>1, <2>2, DoneAgain
<1>6. CASE e.kind = "CString"
    <2> DEFINE layout == PointerType(TRUE, CharId)
               lucky == TRUE
    <2>1. r = RegisterOrGet(layout, table, lucky)
        BY <1>1, <1>6 DEF CheckBy
    <2>2. q = RegisterOrGet(layout, later, lucky)
        BY <1>2, <1>6 DEF CheckBy
    <2>3. layout \in Layouts /\ layout.kind \in Composed
        <3>1. layout \in [kind : {"Pointer"}, mutability : BOOLEAN, target_type : Nat]
            BY DEF PointerType, CharId
        <3> QED BY <3>1 DEF PointerType, Layouts, Composed
    <2> HIDE DEF r, q, layout, lucky
    <2> QED BY <1>0, <1>3, <2>1, <2>2, <2>3, RegisterAgain
<1>7. CASE e.kind = "Identifier"
    <2>1. r = CheckIdentifier(e.symbol, table)
        BY <1>1, <1>7 DEF CheckBy
    <2>2. q = CheckIdentifier(e.symbol, later)'
        BY <1>2, <1>7 DEF CheckBy
    <2> HIDE DEF r, q
    <2> QED BY <1>3, <2>1, <2>2, IdentifierAgain
<1>8. CASE e.kind = "Cast"
    <2>1. r = CheckCast(CheckTree, e, c, table)
        BY <1>1, <1>8 DEF CheckBy
    <2>2. q = CheckCast(CheckTree, e, c, later)'
        BY <1>2, <1>8 DEF CheckBy
    <2>3. CheckAgain(e.expr)
        BY <1>8 DEF Operands
    <2> HIDE DEF r, q
    <2> QED BY <1>3, <1>8, <2>1, <2>2, <2>3, CastAgain
<1>9. CASE e.kind \notin {"Integer", "Float", "CString", "Identifier", "Cast"}
    <2> DEFINE v == CheckTree[First(e)][c][table]
               w == CheckTree[First(e)][c][later]'
    <2>1. /\ r = CheckOn(CheckTree, e, v, c)
          /\ IsDone(v) /\ Good(v.types) /\ v.type \in DOMAIN v.types
          /\ c \in 0 .. Len(v.types)
          /\ First(e).kind = "Identifier" => First(e).symbol \in DOMAIN names
          /\ IsTypes(r.types) /\ IsPrefix(v.types, r.types)
        BY <1>3, <1>9, FirstOf
    <2>2. IsPrefix(v.types, later)
        <3> HIDE DEF r, v
        <3> QED BY <1>3, <2>1, LaterStill DEF Good
    <2>3. w = Done(v.type, later)
        <3>1. CheckAgain(First(e))
            BY <1>9, FirstIs
        <3> QED BY <2>1, <2>2, <3>1 DEF CheckAgain, Repeats, FoundAgain
    <2>4. PICK id, mid : id = v.type /\ mid = v.types
        OBVIOUS
    <2>5. v = Done(id, mid)
        <3>1. v \in Results
            BY <1>9, FirstOf DEF Sound
        <3> HIDE DEF v
        <3> QED BY <2>1, <2>4, <3>1 DEF Results, IsDone, Done, Result
    <2> DEFINE u == Done(id, mid)
    <2>6. u.type = id /\ u.types = mid
        BY DoneAgain
    <2>7. Good(u.types) /\ u.type \in DOMAIN u.types /\ c \in 0 .. Len(u.types) /\ IsPrefix(u.types, later)
        BY <2>1, <2>2, <2>4, <2>5
    <2>8. r = CheckOn(CheckTree, e, u, c)
        BY <2>1, <2>5
    <2>9. CheckOn(CheckTree, e, Done(id, later), c)' = Done(r.type, later)
        <3> HIDE DEF r, v, q, w
        <3>1. CheckOn(CheckTree, e, Done(u.type, later), c)' = Done(CheckOn(CheckTree, e, u, c).type, later)
            BY <1>3, <1>9, <2>1, <2>7, <2>8, CheckOnAgain
        <3> QED BY <2>6, <2>8, <3>1
    <2>10. q = (LET x == CheckTree[First(e)][c][later] IN IF IsDone(x) THEN CheckOn(CheckTree, e, x, c) ELSE x)'
        BY <1>2, <1>9 DEF CheckBy
    <2>11. w = Done(id, later) /\ IsDone(Done(id, later))
        BY <2>3, <2>4, DoneAgain
    <2> HIDE DEF q, r
    <2> QED BY <2>9, <2>10, <2>11
<1> QED BY <1>4, <1>5, <1>6, <1>7, <1>8, <1>9
\* A check that was Done has the same result after every later step.
LEMMA ChecksAgain ==
    ASSUME NamesStay, NEW e \in Expressions
    PROVE  CheckAgain(e)
<1> DEFINE S == {n \in Nat : \A x \in ExpressionsBelow(n) : CheckAgain(x)}
<1>1. 0 \in S
    BY DepthAssumption DEF ExpressionsBelow
<1>2. ASSUME NEW n \in Nat, n \in S
      PROVE  n + 1 \in S
    <2>1. ASSUME NEW x \in ExpressionsBelow(n + 1), NEW o \in Operands(x)
          PROVE  CheckAgain(o)
        <3>1. o \in ExpressionsBelow(n)
            BY <2>1, HeightOfOperands DEF ExpressionsBelow
        <3> QED BY <1>2, <3>1
    <2>2. \A x \in ExpressionsBelow(n + 1) : CheckAgain(x)
        BY <2>1, CheckAgainStep DEF ExpressionsBelow
    <2> QED BY <2>2
<1> HIDE DEF S
<1>3. Depth + 1 \in S
    BY <1>1, <1>2, SetInduction, AllBelow
<1> QED BY <1>3, AllBelow DEF S
-----------------------------------------------------------------------------
(* What a context changes.                                                  *)

LEMMA KindsAre ==
    ASSUME NEW table, IsTypes(table), NEW id \in DOMAIN table
    PROVE  /\ table[id].kind = "Int" <=> id = IntId
           /\ table[id].kind = "Bool" <=> id = BoolId
<1>1. Len(table) \in Nat /\ DOMAIN table = 1 .. Len(table)
    BY TableIs
<1>2. CASE id \in 1 .. 12
    <2>1. table[id] = TYPES[id]
        BY <1>2, TableIs
    <2>2. id \in {1, 2, 3, 4, 5, 6, 7, 8, 9, 10, 11, 12}
        BY <1>2
    <2> QED BY <2>1, <2>2 DEF TYPES, Plain, IntId, BoolId
<1>3. CASE id > 12
    <2>1. Len(TYPES) = 12
        BY DEF TYPES
    <2>2. id \in Len(TYPES) + 1 .. Len(table)
        BY <1>1, <1>3, <2>1
    <2>3. table[id].kind \in Composed
        BY <2>2 DEF IsTypes, IsTable
    <2> QED BY <1>3, <2>3 DEF Composed, IntId, BoolId
<1> QED BY <1>1, <1>2, <1>3

\* What was Done without a context is Done, with the same result, in any.
Unmoved(e) == \A table, c : Good(table) /\ c \in 0 .. Len(table) /\ IsDone(CheckTree[e][NoContext][table]) =>
                CheckTree[e][c][table] = CheckTree[e][NoContext][table]
HasLiteral(e) == \E i \in Parts[e] : i.kind = "Integer"

LEMMA CheckByContext ==
    ASSUME NEW e \in Expressions, NEW table, Good(table), NEW c \in 0 .. Len(table)
    PROVE  /\ CheckTree[e][c][table] = CheckBy(CheckTree, e, c, table)
           /\ CheckTree[e][NoContext][table] = CheckBy(CheckTree, e, NoContext, table)
           /\ NoContext \in 0 .. Len(table)
<1>1. Len(table) \in Nat /\ c \in Nat /\ NoContext \in Nat /\ table \in Tables /\ NoContext \in 0 .. Len(table)
    BY TableIs DEF Good, IsTypes, NoContext
<1> QED BY <1>1, CheckIs

LEMMA LeafUnmoved ==
    ASSUME NEW e \in Expressions, e.kind \in {"Float", "CString", "Identifier", "Cast"}
    PROVE  Unmoved(e)
<1> SUFFICES ASSUME NEW table, NEW c, Good(table), c \in 0 .. Len(table), IsDone(CheckTree[e][NoContext][table])
             PROVE  CheckTree[e][c][table] = CheckTree[e][NoContext][table]
    BY DEF Unmoved
<1> DEFINE r == CheckTree[e][NoContext][table]
           q == CheckTree[e][c][table]
<1>1. r = CheckBy(CheckTree, e, NoContext, table) /\ q = CheckBy(CheckTree, e, c, table) /\ IsDone(r)
    BY CheckByContext
<1> SUFFICES q = r
    OBVIOUS
<1> HIDE DEF r, q
<1>2. CASE e.kind \in {"Float", "CString", "Identifier"}
    BY <1>1, <1>2 DEF CheckBy
<1>3. CASE e.kind = "Cast"
    <2>1. r = CheckCast(CheckTree, e, NoContext, table) /\ q = CheckCast(CheckTree, e, c, table)
        BY <1>1, <1>3 DEF CheckBy
    <2>2. CASE e.type # None
        BY <2>1, <2>2 DEF CheckCast
    <2>3. CASE e.type = None
        <3>1. ~IsDone(Failed(table))
            BY DoneAgain
        <3>2. r = Failed(table)
            BY <2>1, <2>3, <3>1 DEF CheckCast
        <3> QED BY <1>1, <3>1, <3>2
    <2> QED BY <2>2, <2>3
<1> QED BY <1>2, <1>3

\* The operand checked first is what it was, and so is what is made of it; the
\* context goes on only to an index.
LEMMA UnmovedOn ==
    ASSUME NEW e \in Expressions, e.kind \notin {"Integer", "Float", "CString", "Identifier", "Cast"},
           e.kind = "Subscript" => Unmoved(e.index),
           NEW table, Good(table), NEW c \in 0 .. Len(table), IsDone(CheckTree[e][NoContext][table]),
           CheckTree[First(e)][c][table] = CheckTree[First(e)][NoContext][table]
    PROVE  CheckTree[e][c][table] = CheckTree[e][NoContext][table]
<1> DEFINE v == CheckTree[First(e)][NoContext][table]
           r == CheckTree[e][NoContext][table]
           q == CheckTree[e][c][table]
<1>1. NoContext \in 0 .. Len(table)
    BY CheckByContext
<1>2. /\ r = CheckOn(CheckTree, e, v, NoContext) /\ IsDone(v) /\ Good(v.types)
      /\ Sound(v, table)
    BY <1>1, FirstOf
<1>3. q = CheckOn(CheckTree, e, v, c)
    <2>1. q = CheckBy(CheckTree, e, c, table)
        BY CheckByContext
    <2>2. q = LET x == CheckTree[First(e)][c][table] IN IF IsDone(x) THEN CheckOn(CheckTree, e, x, c) ELSE x
        BY <2>1 DEF CheckBy
    <2>3. CheckTree[First(e)][c][table] = v
        OBVIOUS
    <2> HIDE DEF v, q
    <2> QED BY <1>2, <2>2, <2>3
<1>4. IsDone(r)
    OBVIOUS
<1> SUFFICES q = r
    OBVIOUS
<1> HIDE DEF r, q, v
<1>5. CASE e.kind # "Subscript"
    BY <1>2, <1>3, <1>5, ExpressionForms DEF CheckOn
<1>6. CASE e.kind = "Subscript"
    <2> DEFINE i == CheckTree[e.index][NoContext][v.types]
               j == CheckTree[e.index][c][v.types]
               Of(x) == IF ~IsDone(x) THEN x
                        ELSE TheOnly(IF TryCoerce(IntId, x.type, x.types, TRUE) THEN Element(v.type, x.types)
                                                                               ELSE {}, x.types)
    <2>1. r = Of(i) /\ q = Of(j)
        BY <1>2, <1>3, <1>6 DEF CheckOn
    <2>2. c \in 0 .. Len(v.types)
        <3>1. Len(table) \in Nat /\ Len(v.types) \in Nat /\ Len(table) <= Len(v.types)
            BY <1>2, TableIs, LaterTable DEF Good, Sound
        <3> QED BY <3>1
    <2>3. IsDone(i) => j = i
        BY <1>2, <1>6, <2>2 DEF Unmoved
    <2>4. IsDone(i)
        <3> HIDE DEF i
        <3> QED BY <1>4, <2>1
    <2> HIDE DEF i, j, Of
    <2> QED BY <2>1, <2>3, <2>4
<1> QED BY <1>5, <1>6
LEMMA UnmovedStep ==
    ASSUME NEW e \in Expressions, e.kind # "Integer", \A o \in Operands(e) : Unmoved(o)
    PROVE  Unmoved(e)
<1>1. CASE e.kind \in {"Float", "CString", "Identifier", "Cast"}
    BY <1>1, LeafUnmoved
<1>2. CASE e.kind \notin {"Integer", "Float", "CString", "Identifier", "Cast"}
    <2> SUFFICES ASSUME NEW table, NEW c, Good(table), c \in 0 .. Len(table), IsDone(CheckTree[e][NoContext][table])
                 PROVE  CheckTree[e][c][table] = CheckTree[e][NoContext][table]
        BY DEF Unmoved
    <2>1. IsDone(CheckTree[First(e)][NoContext][table])
        BY <1>2, FirstOf, CheckByContext
    <2>2. CheckTree[First(e)][c][table] = CheckTree[First(e)][NoContext][table]
        BY <1>2, <2>1, FirstIs DEF Unmoved
    <2>3. e.kind = "Subscript" => Unmoved(e.index)
        BY DEF Operands
    <2> QED BY <1>2, <2>2, <2>3, UnmovedOn
<1> QED BY <1>1, <1>2
LEMMA UnmovedWithoutLiterals ==
    ASSUME NEW e \in Expressions, ~HasLiteral(e)
    PROVE  Unmoved(e)
<1> DEFINE S == {n \in Nat : \A x \in ExpressionsBelow(n) : ~HasLiteral(x) => Unmoved(x)}
<1>1. 0 \in S
    BY DepthAssumption DEF ExpressionsBelow
<1>2. ASSUME NEW n \in Nat, n \in S
      PROVE  n + 1 \in S
    <2>1. ASSUME NEW x \in ExpressionsBelow(n + 1), ~HasLiteral(x), NEW o \in Operands(x)
          PROVE  Unmoved(o)
        <3>1. o \in ExpressionsBelow(n)
            BY <2>1, HeightOfOperands DEF ExpressionsBelow
        <3>2. ~HasLiteral(o)
            BY <2>1, PartsOfOperands DEF HasLiteral, ExpressionsBelow
        <3> QED BY <1>2, <3>1, <3>2
    <2>2. ASSUME NEW x \in ExpressionsBelow(n + 1), ~HasLiteral(x)
          PROVE  x \in Expressions /\ x.kind # "Integer"
        BY <2>2, PartsOfOperands DEF HasLiteral, ExpressionsBelow
    <2>3. \A x \in ExpressionsBelow(n + 1) : ~HasLiteral(x) => Unmoved(x)
        BY <2>1, <2>2, UnmovedStep
    <2> QED BY <2>3
<1> HIDE DEF S
<1>3. Depth + 1 \in S
    BY <1>1, <1>2, SetInduction, AllBelow
<1> QED BY <1>3, AllBelow DEF S

\* Where no index has a literal, what was Done without a context is the same in
\* any, but for a value, and a context that is not, of type int or bool.
Moved(e, c, r) == /\ r.type \in {IntId, BoolId} /\ c \notin {IntId, BoolId}
                  /\ e.kind \in {"Integer", "Unary", "Binop"}
Steady(e) == \A table, c : Good(table) /\ c \in 0 .. Len(table) /\ IsDone(CheckTree[e][NoContext][table]) =>
               \/ CheckTree[e][c][table] = CheckTree[e][NoContext][table]
               \/ Moved(e, c, CheckTree[e][NoContext][table])
\* what is made of an int or a bool that comes from a literal or an operator
LEMMA MovedOn ==
    ASSUME NEW e \in Expressions, e.kind \notin {"Integer", "Float", "CString", "Identifier", "Cast"},
           NEW table, Good(table), NEW c \in 0 .. Len(table), IsDone(CheckTree[e][NoContext][table]),
           Moved(First(e), c, CheckTree[First(e)][NoContext][table])
    PROVE  Moved(e, c, CheckTree[e][NoContext][table])
<1> DEFINE v == CheckTree[First(e)][NoContext][table]
           id == v.type
           r == CheckTree[e][NoContext][table]
           struct == StructOf(id, v.types)
<1>1. /\ r = CheckOn(CheckTree, e, v, NoContext) /\ IsDone(v) /\ Good(v.types)
      /\ id \in DOMAIN v.types /\ IsDone(r)
      /\ Sound(r, v.types)
    BY CheckByContext, FirstOf
<1>2. id \in {IntId, BoolId} /\ c \notin {IntId, BoolId} /\ First(e).kind \in {"Integer", "Unary", "Binop"}
    BY DEF Moved
<1>3. v.types[id].kind \in {"Int", "Bool"}
    BY <1>1, <1>2, KindsAre DEF Good
<1> SUFFICES Moved(e, c, r)
    OBVIOUS
<1> HIDE DEF v, r
<1>4. ~IsDone(Failed(v.types)) /\ ~IsDone(Stop("Aborted", v.types)) /\ ~IsDone(TheOnly({}, v.types))
    BY DEF Failed, Stop, Result, IsDone, TheOnly
<1>5. CASE e.kind = "Dereference"
    BY <1>1, <1>3, <1>4, <1>5 DEF CheckOn
<1>6. CASE e.kind = "AddressOf"
    <2> DEFINE good == RegisterOrGet(PointerType(FALSE, id), v.types, TRUE)
    <2>1. r = LvalueOr(e.operand, id, v.types, good)
        BY <1>1, <1>6 DEF CheckOn
    <2>2. Lvalue(e.operand, id) # "yes"
        BY <1>2, <1>6 DEF First, Lvalue
    <2> HIDE DEF good
    <2>3. r \in {Failed(v.types), Stop("Aborted", v.types)}
        <3>1. Lvalue(e.operand, id) \in {"yes", "no", "abort"}
            BY DEF Lvalue
        <3> QED BY <2>1, <2>2, <3>1 DEF LvalueOr
    <2> QED BY <1>1, <1>4, <2>3
<1>7. CASE e.kind = "Subscript"
    <2> DEFINE i == CheckTree[e.index][NoContext][v.types]
               ids == IF TryCoerce(IntId, i.type, i.types, TRUE) THEN Element(id, i.types) ELSE {}
    <2>1. r = IF ~IsDone(i) THEN i ELSE TheOnly(ids, i.types)
        BY <1>1, <1>7 DEF CheckOn
    <2>2. Sound(i, v.types)
        <3>0. NoContext \in 0 .. Len(v.types)
            <4>1. Len(v.types) \in Nat
                BY <1>1, TableIs DEF Good
            <4> QED BY <4>1 DEF NoContext
        <3>1. Checks(Check(e.index, NoContext, v.types), e.index, v.types)
            BY <1>1, <1>7, <3>0, ExpressionForms, CheckIsSound DEF Good
        <3> QED BY <3>1 DEF Checks, Check
    <2> HIDE DEF i
    <2>3. i.types[id] = v.types[id]
        BY <1>1, <2>2, LaterTable DEF Sound, Good
    <2>4. ids = {}
        <3> HIDE DEF id
        <3> QED BY <1>3, <2>3 DEF Element
    <2>5. ~IsDone(TheOnly({}, i.types))
        BY DoneAgain DEF TheOnly
    <2> HIDE DEF ids
    <2> QED BY <1>1, <2>1, <2>4, <2>5
<1>8. CASE e.kind = "Unary"
    <2>1. r = Done(BoolId, v.types)
        BY <1>1, <1>4, <1>8 DEF CheckOn
    <2> QED BY <1>2, <1>8, <2>1, DoneAgain DEF Moved
<1>9. CASE e.kind = "Member_Access"
    <2>1. r = CheckMember(e, id, v.types)
        BY <1>1, <1>9 DEF CheckOn
    <2>2. struct = id
        BY <1>3 DEF StructOf
    <2>3. CheckMember(e, id, v.types) = Failed(v.types)
        <3> HIDE DEF id
        <3> QED BY <1>3, <2>2 DEF CheckMember
    <2> QED BY <1>1, <1>4, <2>1, <2>3
<1>10. CASE e.kind = "Binop"
    <2> DEFINE i == CheckTree[e.right][id][v.types]
    <2>1. r = IF IsDone(i) THEN CheckOperands(e, id, i.type, i.types) ELSE i
        BY <1>1, <1>10 DEF CheckOn
    <2>2. Sound(i, v.types)
        <3>1. id \in 0 .. Len(v.types)
            <4>1. Len(v.types) \in Nat /\ DOMAIN v.types = 1 .. Len(v.types)
                BY <1>1, TableIs DEF Good
            <4> HIDE DEF id
            <4> QED BY <1>1, <4>1
        <3>2. Checks(Check(e.right, id, v.types), e.right, v.types)
            BY <1>1, <1>10, <3>1, ExpressionForms, CheckIsSound DEF Good
        <3> QED BY <3>2 DEF Checks, Check
    <2> HIDE DEF i
    <2>3. IsDone(i) /\ r = CheckOperands(e, id, i.type, i.types)
        BY <1>1, <2>1
    <2>4. i.types[id] = v.types[id] /\ i.type \in DOMAIN i.types /\ IsTypes(i.types)
        BY <1>1, <2>2, <2>3, LaterTable DEF Sound, Good
    <2>5. r.type \in {IntId, BoolId}
        <3>1. CASE e.op = "Assign"
            <4> DEFINE good == UnlessConstant(e.left, id, i.types)
            <4>1. r \in {Failed(i.types), LvalueOr(e.left, id, i.types, good)}
                <5> HIDE DEF good
                <5> QED BY <2>3, <3>1 DEF CheckOperands, Equalities, good
            <4>2. Lvalue(e.left, id) # "yes"
                BY <1>2, <1>10 DEF First, Lvalue
            <4> HIDE DEF good
            <4>3. LvalueOr(e.left, id, i.types, good) \in {Failed(i.types), Stop("Aborted", i.types)}
                <5>1. Lvalue(e.left, id) \in {"yes", "no", "abort"}
                    BY DEF Lvalue
                <5> QED BY <4>2, <5>1 DEF LvalueOr
            <4>4. ~IsDone(Failed(i.types)) /\ ~IsDone(Stop("Aborted", i.types))
                BY DEF Failed, Stop, Result, IsDone
            <4> QED BY <1>1, <4>1, <4>3, <4>4
        <3>2. CASE e.op \in Equalities
            <4>1. r \in {Failed(i.types), Done(BoolId, i.types)}
                BY <2>3, <3>2 DEF CheckOperands, Equalities
            <4> QED BY <1>1, <4>1, DoneAgain
        <3>3. CASE e.op # "Assign" /\ e.op \notin Equalities
            <4>0. r = IF TryCoerce(id, i.type, i.types, TRUE) THEN Done(i.type, i.types) ELSE Failed(i.types)
                BY <2>3, <3>3 DEF CheckOperands
            <4>1. TryCoerce(id, i.type, i.types, TRUE) /\ r = Done(i.type, i.types)
                <5>1. ~IsDone(Failed(i.types))
                    BY DoneAgain
                <5> HIDE DEF id
                <5> QED BY <1>1, <4>0, <5>1
            <4>2. i.types[i.type].kind = i.types[id].kind
                <5> HIDE DEF id
                <5> QED BY <1>3, <2>4, <4>1 DEF TryCoerce, CheckTypeCoercion, Signed, Unsigned, Floats, Fits
            <4>3. i.type \in {IntId, BoolId}
                <5> HIDE DEF id
                <5> QED BY <1>3, <2>4, <4>2, KindsAre
            <4> QED BY <4>1, <4>3, DoneAgain
        <3> QED BY <3>1, <3>2, <3>3
    <2> QED BY <1>2, <1>10, <2>5 DEF Moved
<1>11. CASE e.kind = "Function_Call"
    <2>1. v.types[v.type].kind # "Function"
        BY <1>3
    <2>2. r = Failed(v.types)
        BY <1>1, <1>11, <2>1 DEF CheckOn, CheckFunctionCall
    <2> QED BY <1>1, <1>4, <2>2
<1>12. CASE e.kind = "Eval"
    BY <1>1, <1>4, <1>12 DEF CheckOn
<1> QED BY <1>5, <1>6, <1>7, <1>8, <1>9, <1>10, <1>11, <1>12, ExpressionForms
LEMMA SteadyStep ==
    ASSUME NEW e \in Expressions, ~IndexIsLiteral(e), \A o \in Operands(e) : Steady(o)
    PROVE  Steady(e)
<1> SUFFICES ASSUME NEW table, NEW c, Good(table), c \in 0 .. Len(table), IsDone(CheckTree[e][NoContext][table])
             PROVE  \/ CheckTree[e][c][table] = CheckTree[e][NoContext][table]
                    \/ Moved(e, c, CheckTree[e][NoContext][table])
    BY DEF Steady
<1>1. CASE e.kind = "Integer"
    <2>1. /\ CheckTree[e][c][table] = Done(CheckInteger(c, table), table)
          /\ CheckTree[e][NoContext][table] = Done(CheckInteger(NoContext, table), table)
        BY <1>1, CheckByContext DEF CheckBy
    <2>2. CheckInteger(NoContext, table) = IntId
        BY DEF CheckInteger
    <2>3. CASE c \notin {IntId, BoolId}
        BY <1>1, <2>1, <2>2, <2>3, DoneAgain DEF Moved
    <2>4. CASE c \in {IntId, BoolId}
        <3>1. table[IntId].kind = "Int" /\ table[BoolId].kind = "Bool"
            <4>1. IsTypes(table) /\ 1 .. 12 \subseteq DOMAIN table
                BY TableIs DEF Good
            <4>2. IntId \in DOMAIN table /\ BoolId \in DOMAIN table
                BY <4>1 DEF IntId, BoolId
            <4> QED BY <4>1, <4>2, KindsAre
        <3>2. CheckTypeCoercion("Bool", "Int") = "Invalid"
            BY DEF CheckTypeCoercion, Signed, Unsigned, Floats
        <3>3. ~TryCoerce(BoolId, IntId, table, FALSE)
            BY <3>1, <3>2 DEF TryCoerce
        <3>4. CheckInteger(c, table) = IntId
            BY <2>4, <3>3 DEF CheckInteger
        <3> QED BY <2>1, <2>2, <3>4
    <2> QED BY <2>3, <2>4
<1>2. CASE e.kind \in {"Float", "CString", "Identifier", "Cast"}
    BY <1>2, LeafUnmoved DEF Unmoved
<1>3. CASE e.kind \notin {"Integer", "Float", "CString", "Identifier", "Cast"}
    <2>1. First(e) \in Operands(e)
        BY <1>3, FirstIs
    <2>2. IsDone(CheckTree[First(e)][NoContext][table])
        BY <1>3, FirstOf, CheckByContext
    <2>3. \/ CheckTree[First(e)][c][table] = CheckTree[First(e)][NoContext][table]
          \/ Moved(First(e), c, CheckTree[First(e)][NoContext][table])
        BY <2>1, <2>2 DEF Steady
    <2>4. e.kind = "Subscript" => Unmoved(e.index)
        <3> SUFFICES ASSUME e.kind = "Subscript"
                     PROVE  Unmoved(e.index)
            OBVIOUS
        <3>1. e.index \in Expressions /\ e \in Parts[e]
            BY ExpressionForms, PartsOfOperands
        <3>2. ~HasLiteral(e.index)
            BY <3>1 DEF IndexIsLiteral, HasLiteral
        <3> QED BY <3>1, <3>2, UnmovedWithoutLiterals
    <2> QED BY <1>3, <2>3, <2>4, UnmovedOn, MovedOn
<1> QED BY <1>1, <1>2, <1>3, ExpressionForms
LEMMA SteadyAlways ==
    ASSUME NEW e \in Expressions, ~IndexIsLiteral(e)
    PROVE  Steady(e)
<1> DEFINE S == {n \in Nat : \A x \in ExpressionsBelow(n) : ~IndexIsLiteral(x) => Steady(x)}
<1>1. 0 \in S
    BY DepthAssumption DEF ExpressionsBelow
<1>2. ASSUME NEW n \in Nat, n \in S
      PROVE  n + 1 \in S
    <2>1. ASSUME NEW x \in ExpressionsBelow(n + 1), ~IndexIsLiteral(x), NEW o \in Operands(x)
          PROVE  Steady(o)
        <3>1. o \in ExpressionsBelow(n)
            BY <2>1, HeightOfOperands DEF ExpressionsBelow
        <3>2. Parts[o] \subseteq Parts[x]
            BY <2>1, PartsOfOperands DEF ExpressionsBelow
        <3>3. ~IndexIsLiteral(o)
            BY <2>1, <3>2 DEF IndexIsLiteral
        <3> QED BY <1>2, <3>1, <3>3
    <2>2. \A x \in ExpressionsBelow(n + 1) : ~IndexIsLiteral(x) => Steady(x)
        BY <2>1, SteadyStep DEF ExpressionsBelow
    <2> QED BY <2>2
<1> HIDE DEF S
<1>3. Depth + 1 \in S
    BY <1>1, <1>2, SetInduction, AllBelow
<1> QED BY <1>3, AllBelow DEF S
-----------------------------------------------------------------------------
(* The statements that were accepted.                                       *)

LEMMA AcceptedAre ==
    ASSUME TypeOK
    PROVE  Accepted \subseteq Statements
<1>1. seen \in Seq(Statements) /\ Len(seen) \in Nat
    BY DEF TypeOK
<1>2. \A n \in 1 .. Len(seen) : seen[n] \in Statements
    BY <1>1
<1>3. ToSet(seen) \subseteq Statements
    BY <1>1, <1>2 DEF ToSet
<1>4. ToSet(Front(seen)) \subseteq Statements
    BY <1>1, <1>2 DEF ToSet, Front
<1> QED BY <1>3, <1>4 DEF Accepted
LEMMA AcceptedGrows ==
    ASSUME TypeOK, phase = "checking", NEW s, seen' = Append(seen, s)
    PROVE  /\ Accepted' \subseteq Accepted \cup {s}
           /\ phase' \notin {"checking", "accepted"} => Accepted' = Accepted
<1>1. seen \in Seq(Statements) /\ Len(seen) \in Nat
    BY DEF TypeOK
<1>2. /\ Len(seen') = Len(seen) + 1 /\ DOMAIN seen' = 1 .. Len(seen) + 1 /\ DOMAIN seen = 1 .. Len(seen)
      /\ \A n \in 1 .. Len(seen) : seen'[n] = seen[n]
      /\ seen'[Len(seen) + 1] = s
    BY <1>1
<1>3. ToSet(seen') \subseteq ToSet(seen) \cup {s}
    <2>1. \A n \in 1 .. Len(seen) + 1 : n \in 1 .. Len(seen) \/ n = Len(seen) + 1
        BY <1>1
    <2> QED BY <1>2, <2>1 DEF ToSet
<1>4. ToSet(Front(seen')) = ToSet(seen)
    <2>1. Front(seen') = SubSeq(seen', 1, Len(seen)) /\ seen' # <<>>
        BY <1>1, <1>2 DEF Front
    <2>2. DOMAIN Front(seen') = 1 .. Len(seen) /\ \A n \in 1 .. Len(seen) : Front(seen')[n] = seen[n]
        BY <1>2, <2>1
    <2> QED BY <1>2, <2>2 DEF ToSet
<1>5. Accepted = ToSet(seen)
    BY DEF Accepted
<1>6. Accepted' = ToSet(IF phase' \in {"checking", "accepted"} THEN seen' ELSE Front(seen'))
    BY DEF Accepted
<1> QED BY <1>3, <1>4, <1>5, <1>6
\* Each accepted variable without a typehint has the type of its initializer,
\* as it would be checked now.
Inferred(s) == s.kind = "Variable" /\ s.typehint = None
HasItsType(s) == /\ s.initializer \in Expressions
                 /\ s.name \in DOMAIN names
                 /\ CheckTree[s.initializer][NoContext][types] = Done(names[s.name].type, types)
InferredIsFound == \A s \in Accepted : Inferred(s) => HasItsType(s)

LEMMA StepIs ==
    ASSUME TypeOK, EndsWithAVerdict, [Next]_vars
    PROVE  /\ TypeOK' /\ EndsWithAVerdict' /\ NamesStay
           /\ Good(types) /\ IsTypes(types') /\ IsPrefix(types, types')
<1>1. TypeOK' /\ EndsWithAVerdict' /\ [IdsAndNamesStay]_vars
    BY NextKeeps
<1>2. Good(types) /\ IsTypes(types')
    BY <1>1 DEF TypeOK, Good, IsTypes, Symbols
<1>3. CASE IdsAndNamesStay
    BY <1>1, <1>2, <1>3 DEF IdsAndNamesStay, NamesStay
<1>4. CASE UNCHANGED vars
    <2>1. types' = types /\ names' = names
        BY <1>4 DEF vars
    <2> QED BY <1>1, <1>2, <2>1, TableIs DEF NamesStay, Good
<1> QED BY <1>1, <1>3, <1>4

\* What was found once, over the table of that time, is found after the step.
LEMMA FoundNext ==
    ASSUME NamesStay, NEW e \in Expressions, NEW table, Good(table), NEW c \in 0 .. Len(table),
           IsDone(CheckTree[e][c][table]), IsTypes(types'), IsPrefix(CheckTree[e][c][table].types, types')
    PROVE  CheckTree'[e][c][types'] = Done(CheckTree[e][c][table].type, types')
<1>1. PICK later : later = types'
    OBVIOUS
<1>2. CheckAgain(e)
    BY ChecksAgain
<1>3. CheckTree[e][c][later]' = Done(CheckTree[e][c][table].type, later)
    BY <1>1, <1>2 DEF CheckAgain, Repeats, FoundAgain
<1> QED BY <1>1, <1>3

LEMMA InferredStays ==
    ASSUME TypeOK, EndsWithAVerdict, [Next]_vars, NEW s, Inferred(s), HasItsType(s)
    PROVE  HasItsType(s)'
<1>1. NamesStay /\ Good(types) /\ IsTypes(types') /\ IsPrefix(types, types')
    BY StepIs
<1>2. /\ s.initializer \in Expressions /\ s.name \in DOMAIN names
      /\ CheckTree[s.initializer][NoContext][types] = Done(names[s.name].type, types)
    BY DEF HasItsType
<1>3. NoContext \in 0 .. Len(types)
    BY <1>1, TableIs DEF Good, NoContext
<1> DEFINE r == CheckTree[s.initializer][NoContext][types]
<1>4. IsDone(r) /\ r.type = names[s.name].type /\ r.types = types
    BY <1>2, DoneAgain
<1>5. CheckTree'[s.initializer][NoContext][types'] = Done(names[s.name].type, types')
    BY <1>1, <1>2, <1>3, <1>4, FoundNext
<1>6. s.name \in DOMAIN names' /\ names'[s.name] = names[s.name]
    BY <1>1, <1>2 DEF NamesStay
<1> QED BY <1>2, <1>5, <1>6 DEF HasItsType

LEMMA InferredStarts ==
    ASSUME TypeOK, EndsWithAVerdict, [Next]_vars,
           NEW s \in Statements, CheckInferredVariable(s), phase' \in {"checking", "accepted"}
    PROVE  HasItsType(s)'
<1> DEFINE v == CheckTree[s.initializer][NoContext][types]
           r == IF s.initializer = None THEN Failed(types) ELSE Fresh(s, Valued(s, v))
           declared == Named(s, "Variable", r.type)
<1>1. NamesStay /\ Good(types) /\ IsTypes(types')
    BY StepIs
<1>2. NoContext \in 0 .. Len(types) /\ IsPrefix(types', types')
    BY <1>1, TableIs DEF Good, NoContext
<1>3. Conclude(s, r, declared)
    BY DEF CheckInferredVariable, Check
<1>4. s.initializer \in Expressions \cup {None} /\ s.kind = "Variable"
    BY StatementForms DEF CheckInferredVariable
<1>5. s.initializer # None => v \in Results
    <2> SUFFICES ASSUME s.initializer # None
                 PROVE  v \in Results
        OBVIOUS
    <2>1. Checks(Check(s.initializer, NoContext, types), s.initializer, types)
        BY <1>1, <1>2, <1>4, CheckIsSound DEF Good
    <2> QED BY <2>1 DEF Checks, Sound, Check
<1> HIDE DEF v
<1>6. r.status \in {"Done", "Failed", "Aborted", "Crashed"}
      /\ (IsDone(r) => r = v /\ s.initializer # None /\ s.name \notin DOMAIN names)
    <2>1. r \in {Failed(types), Valued(s, v)} /\ (r = Failed(types) \/ (s.initializer # None /\ s.name \notin DOMAIN names))
        BY DEF Fresh
    <2>2. Valued(s, v) \in {v, Stop("Aborted", v.types)}
        BY DEF Valued
    <2> HIDE DEF r
    <2>3. Failed(types).status = "Failed" /\ Stop("Aborted", v.types).status = "Aborted"
        BY DEF Failed, Stop, Result
    <2> QED BY <1>5, <2>1, <2>2, <2>3 DEF Results, IsDone
<1> HIDE DEF r
<1>7. types' = r.types /\ phase' = Verdict[r.status] /\ (IsDone(r) => names' = With(declared))
    BY <1>3 DEF Conclude, IsDone
<1>8. IsDone(r)
    BY <1>6, <1>7 DEF Verdict, IsDone
<1>9. r = v /\ types' = v.types /\ s.initializer \in Expressions /\ IsDone(v)
    BY <1>4, <1>6, <1>7, <1>8
<1>10. s.name \in DOMAIN names' /\ names'[s.name].type = v.type
    BY <1>7, <1>8, <1>9 DEF With, Named
<1>11. CheckTree'[s.initializer][NoContext][types'] = Done(v.type, types')
    BY <1>1, <1>2, <1>9, FoundNext DEF v
<1> QED BY <1>9, <1>10, <1>11 DEF HasItsType

LEMMA InferredKept ==
    ASSUME TypeOK, EndsWithAVerdict, InferredIsFound, [Next]_vars
    PROVE  InferredIsFound'
<1> SUFFICES ASSUME NEW s \in Accepted', Inferred(s)
             PROVE  HasItsType(s)'
    BY DEF InferredIsFound, Inferred
<1>1. CASE s \in Accepted
    BY <1>1, InferredStays DEF InferredIsFound
<1>2. CASE s \notin Accepted
    <2>1. CASE UNCHANGED vars
        <3>1. phase' = phase /\ seen' = seen
            BY <2>1 DEF vars
        <3>2. Accepted' = Accepted
            BY <3>1 DEF Accepted
        <3> QED BY <1>2, <3>2
    <2>2. CASE Next
        <3>1. PICK n \in Programs[text][Len(seen) + 1] :
                  \/ CheckTypedVariable(n) \/ CheckInferredVariable(n)
                  \/ CheckExpression(n) \/ CheckCondition(n) \/ CheckReturn(n)
                  \/ CheckPrototype(n) \/ CheckStruct(n)
            BY <2>2 DEF Next
        <3>2. phase = "checking"
            BY <2>2 DEF Next
        <3>3. n \in Statements
            BY <3>2, NextStatement
        <3>4. seen' = Append(seen, n)
            BY <3>1 DEF Conclude, CheckTypedVariable, CheckInferredVariable, CheckExpression, CheckCondition,
                        CheckReturn, CheckPrototype, CheckStruct
        <3>5. s = n /\ phase' \in {"checking", "accepted"}
            BY <1>2, <3>2, <3>4, AcceptedGrows
        <3>6. CheckInferredVariable(n)
            BY <3>1, <3>5 DEF Inferred, CheckTypedVariable, CheckExpression, CheckCondition, CheckReturn,
                              CheckPrototype, CheckStruct
        <3> QED BY <3>3, <3>5, <3>6, InferredStarts
    <2> QED BY <2>1, <2>2
<1> QED BY <1>1, <1>2

LEMMA CoercesToItself ==
    ASSUME NEW id, NEW table
    PROVE  TryCoerce(id, id, table, TRUE)
<1>1. \A kind : CheckTypeCoercion(kind, kind) = "Ok"
    BY DEF CheckTypeCoercion, Signed, Unsigned, Floats, Fits
<1> QED BY <1>1 DEF TryCoerce

LEMMA FoundInAnyContext ==
    ASSUME TypeOK, InferredIsFound
    PROVE  ContextIsHarmless
<1> SUFFICES ASSUME NEW s \in Accepted, Inferred(s), ~IndexIsLiteral(s.initializer)
             PROVE  LET type == names[s.name].type
                        again == Check(s.initializer, type, types)
                    IN  again.status = "Done" /\ TryCoerce(type, again.type, types, TRUE)
    BY DEF ContextIsHarmless, Inferred
<1> DEFINE type == names[s.name].type
           again == Check(s.initializer, type, types)
           r == CheckTree[s.initializer][NoContext][types]
<1>1. s.initializer \in Expressions /\ s.name \in DOMAIN names /\ r = Done(type, types)
    BY DEF InferredIsFound, HasItsType
<1>2. Good(types)
    BY DEF TypeOK, Good, IsTypes, Symbols
<1>3. type \in 0 .. Len(types)
    <2>1. type \in DOMAIN types
        BY <1>1 DEF TypeOK, IsSymbol
    <2>2. Len(types) \in Nat /\ DOMAIN types = 1 .. Len(types)
        BY <1>2, TableIs DEF Good
    <2> HIDE DEF type
    <2> QED BY <2>1, <2>2
<1>4. IsDone(r) /\ r.type = type
    BY <1>1, DoneAgain
<1>5. again = CheckTree[s.initializer][type][types]
    BY DEF Check
<1>6. Steady(s.initializer)
    BY <1>1, SteadyAlways
<1> HIDE DEF type, r, again
<1>7. ~Moved(s.initializer, type, r)
    BY <1>4 DEF Moved
<1>8. again = Done(type, types)
    BY <1>1, <1>2, <1>3, <1>4, <1>5, <1>6, <1>7 DEF Steady, r
<1>9. TryCoerce(type, type, types, TRUE)
    BY CoercesToItself
<1>10. again.status = "Done" /\ TryCoerce(type, again.type, types, TRUE)
    BY <1>8, <1>9, DoneAgain
<1> QED BY <1>10 DEF type, again

\* The type that was inferred for a variable may be written down: whatever the
\* program, its initializer is accepted where that type is expected, and has it
\* there too, however many types were registered since.
THEOREM ContextsAreHarmless == Spec => []ContextIsHarmless
<1> USE DEF Spec
<1>1. Init => TypeOK /\ EndsWithAVerdict /\ InferredIsFound
    <2> SUFFICES ASSUME Init
                 PROVE  TypeOK /\ EndsWithAVerdict /\ InferredIsFound
        OBVIOUS
    <2>1. Accepted = {}
        BY DEF Init, Accepted, ToSet
    <2> QED BY <2>1, InitOK DEF InferredIsFound
<1>2. TypeOK /\ EndsWithAVerdict /\ InferredIsFound /\ [Next]_vars
        => TypeOK' /\ EndsWithAVerdict' /\ InferredIsFound'
    BY NextKeeps, InferredKept
<1>3. TypeOK /\ InferredIsFound => ContextIsHarmless
    BY FoundInAnyContext
<1> QED BY <1>1, <1>2, <1>3, PTL

-----------------------------------------------------------------------------
(* Ids and typehints, written out.                                         *)

\* The recursion that writes out the ids of a table goes to smaller ids.
IdsUpto(n, table) == {id \in DOMAIN table : id <= n}
ReadUpto(n, table, f) == f = [id \in IdsUpto(n, table) |-> ReadBy(f, table[id])]
\* What a layout says rests on what it refers to.
LEMMA ReadAgrees ==
    ASSUME NEW f, NEW g, NEW layout, \A r \in References(layout) : f[r] = g[r]
    PROVE  ReadBy(f, layout) = ReadBy(g, layout)
<1>1. CASE layout.kind = "Pointer"
    BY <1>1 DEF References, ReadBy
<1>2. CASE layout.kind = "Array"
    BY <1>2 DEF References, ReadBy
<1>3. CASE layout.kind = "Function"
    <2> DEFINE a == [n \in DOMAIN layout.parameters |-> f[layout.parameters[n]].shape]
               b == [n \in DOMAIN layout.parameters |-> g[layout.parameters[n]].shape]
    <2>1. References(layout) = ToSet(layout.parameters) \cup {layout.return_type}
        BY <1>3 DEF References
    <2>2. \A n \in DOMAIN layout.parameters : f[layout.parameters[n]] = g[layout.parameters[n]]
        BY <2>1 DEF ToSet
    <2>3. a = b
        BY <2>2
    <2>4. f[layout.return_type].shape = g[layout.return_type].shape
        BY <2>1
    <2>5. ReadBy(f, layout) = Written([kind |-> "Function", parameters |-> a, result |-> f[layout.return_type].shape])
        BY <1>3 DEF ReadBy
    <2>6. ReadBy(g, layout) = Written([kind |-> "Function", parameters |-> b, result |-> g[layout.return_type].shape])
        BY <1>3 DEF ReadBy
    <2> HIDE DEF a, b
    <2> QED BY <2>3, <2>4, <2>5, <2>6
<1>4. CASE layout.kind \notin {"Pointer", "Array", "Function"}
    BY <1>4 DEF ReadBy
<1> QED BY <1>1, <1>2, <1>3, <1>4
\* The ids up to a number, and what their layouts refer to.
LEMMA IdsAre ==
    ASSUME NEW table, IsTypes(table), NEW n \in Nat
    PROVE  /\ IdsUpto(0, table) = {}
           /\ \A id \in IdsUpto(n + 1, table) : \A r \in References(table[id]) :
                r \in IdsUpto(n, table) /\ r \in IdsUpto(n + 1, table)
           /\ IdsUpto(Len(table), table) = DOMAIN table
<1>1. Len(table) \in Nat /\ DOMAIN table = 1 .. Len(table)
    BY TableIs
<1>2. IdsUpto(0, table) = {} /\ IdsUpto(Len(table), table) = DOMAIN table
    BY <1>1 DEF IdsUpto
<1>3. ASSUME NEW id \in IdsUpto(n + 1, table), NEW r \in References(table[id])
      PROVE  r \in IdsUpto(n, table) /\ r \in IdsUpto(n + 1, table)
    <2>1. id \in 1 .. Len(table) /\ id <= n + 1
        BY <1>1, <1>3 DEF IdsUpto
    <2>2. r \in 1 .. id - 1
        BY <1>1, <1>3, <2>1 DEF IsTypes, IsTable
    <2>3. r \in 1 .. Len(table) /\ r <= n /\ r <= n + 1
        BY <1>1, <2>1, <2>2
    <2> QED BY <1>1, <2>3 DEF IdsUpto
<1> QED BY <1>2, <1>3
\* The function that writes out the ids exists, up to each of them.
LEMMA ReadingExists ==
    ASSUME NEW table, IsTypes(table), NEW n \in Nat
    PROVE  \E f : ReadUpto(n, table, f)
<1> DEFINE S == {m \in Nat : \E f : ReadUpto(m, table, f)}
<1>1. 0 \in S
    <2> DEFINE f == [id \in {} |-> {}]
    <2>1. ReadUpto(0, table, f)
        BY IdsAre DEF ReadUpto
    <2> QED BY <2>1
<1>2. ASSUME NEW m \in Nat, m \in S
      PROVE  m + 1 \in S
    <2>1. PICK f : ReadUpto(m, table, f)
        BY <1>2
    <2> DEFINE g == [id \in IdsUpto(m + 1, table) |-> ReadBy(f, table[id])]
    <2>2. ASSUME NEW id \in IdsUpto(m + 1, table)
          PROVE  ReadBy(f, table[id]) = ReadBy(g, table[id])
        <3>1. ASSUME NEW r \in References(table[id])
              PROVE  f[r] = g[r]
            <4>1. r \in IdsUpto(m, table) /\ r \in IdsUpto(m + 1, table)
                BY <2>2, <3>1, IdsAre
            <4> QED BY <2>1, <4>1 DEF ReadUpto
        <3> HIDE DEF g
        <3> QED BY <3>1, ReadAgrees
    <2>3. ReadUpto(m + 1, table, g)
        BY <2>2 DEF ReadUpto
    <2>4. m + 1 \in Nat
        OBVIOUS
    <2> HIDE DEF g
    <2> QED BY <2>3, <2>4
<1> HIDE DEF S
<1>3. n \in S
    BY <1>1, <1>2, SetInduction
<1> QED BY <1>3 DEF S
\* An id is written out as its layout is.
LEMMA ReadingIs ==
    ASSUME NEW table, IsTypes(table), NEW id \in DOMAIN table
    PROVE  Reading(table)[id] = ReadBy(Reading(table), table[id])
<1>1. Len(table) \in Nat
    BY TableIs
<1>2. \E f : ReadUpto(Len(table), table, f)
    BY <1>1, ReadingExists
<1>3. \E f : f = [x \in DOMAIN table |-> ReadBy(f, table[x])]
    BY <1>1, <1>2, IdsAre DEF ReadUpto
<1>4. Reading(table) = [x \in DOMAIN table |-> ReadBy(Reading(table), table[x])]
    BY <1>3 DEF Reading
<1> QED BY <1>4
\* An id says in a later table what it said before.
LEMMA ReadingStays ==
    ASSUME NEW s, IsTypes(s), NEW t, IsTypes(t), IsPrefix(s, t), NEW id \in DOMAIN s
    PROVE  Reading(t)[id] = Reading(s)[id]
<1> DEFINE S == {n \in Nat : \A x \in IdsUpto(n, s) : Reading(t)[x] = Reading(s)[x]}
<1>1. 0 \in S
    BY IdsAre
<1>2. ASSUME NEW n \in Nat, n \in S
      PROVE  n + 1 \in S
    <2>1. ASSUME NEW x \in IdsUpto(n + 1, s)
          PROVE  Reading(t)[x] = Reading(s)[x]
        <3>1. x \in DOMAIN s /\ x \in DOMAIN t /\ t[x] = s[x]
            BY LaterTable DEF IdsUpto
        <3>2. \A r \in References(s[x]) : Reading(t)[r] = Reading(s)[r]
            BY <1>2, IdsAre
        <3>3. ReadBy(Reading(t), s[x]) = ReadBy(Reading(s), s[x])
            BY <3>2, ReadAgrees
        <3> QED BY <3>1, <3>3, ReadingIs
    <2> QED BY <2>1
<1> HIDE DEF S
<1>3. Len(s) \in Nat
    BY TableIs
<1>4. Len(s) \in S
    BY <1>1, <1>2, <1>3, SetInduction
<1> QED BY <1>3, <1>4, IdsAre DEF S

\* The recursion over typehints.
SaidBelow(n, g) == g = [h \in HintsBelow(n) |-> SaidBy(g, h)]
\* What a typehint says rests on the typehint inside.
LEMMA SaidAgrees ==
    ASSUME NEW f, NEW g, NEW h \in Hints, h.kind \in {"Pointer", "Array"} => f[Target(h)] = g[Target(h)]
    PROVE  SaidBy(f, h) = SaidBy(g, h)
BY DEF SaidBy, Target
\* The function that writes out the typehints exists, up to each height.
LEMMA SaidExists ==
    ASSUME NEW n \in Nat
    PROVE  \E g : SaidBelow(n, g)
<1> DEFINE S == {m \in Nat : \E g : SaidBelow(m, g)}
<1>1. 0 \in S
    <2> DEFINE g == [h \in {} |-> {}]
    <2>1. HintsBelow(0) = {}
        BY DepthAssumption DEF HintsBelow
    <2>2. SaidBelow(0, g)
        BY <2>1 DEF SaidBelow
    <2> QED BY <2>2
<1>2. ASSUME NEW m \in Nat, m \in S
      PROVE  m + 1 \in S
    <2>1. PICK g : SaidBelow(m, g)
        BY <1>2
    <2> DEFINE f == [h \in HintsBelow(m + 1) |-> SaidBy(g, h)]
    <2>2. ASSUME NEW h \in HintsBelow(m + 1)
          PROVE  SaidBy(g, h) = SaidBy(f, h)
        <3>1. ASSUME h.kind \in {"Pointer", "Array"}
              PROVE  f[Target(h)] = g[Target(h)]
            <4>1. Target(h) \in HintsBelow(m) /\ Target(h) \in HintsBelow(m + 1)
                BY <2>2, <3>1, TargetIs DEF HintsBelow
            <4> QED BY <2>1, <4>1 DEF SaidBelow
        <3> HIDE DEF f
        <3> QED BY <3>1, SaidAgrees DEF HintsBelow
    <2>3. SaidBelow(m + 1, f)
        BY <2>2 DEF SaidBelow
    <2>4. m + 1 \in Nat
        OBVIOUS
    <2> HIDE DEF f
    <2> QED BY <2>3, <2>4
<1> HIDE DEF S
<1>3. n \in S
    BY <1>1, <1>2, SetInduction
<1> QED BY <1>3 DEF S
SaidUnfolds == \A h \in Hints : Said[h] = SaidBy(Said, h)
\* A typehint says what the typehint inside it says, put together; after a step too.
LEMMA SaidAlwaysUnfolds == SaidUnfolds
<1>1. \E g : SaidBelow(Depth + 1, g)
    BY AllBelow, SaidExists
<1>2. \E g : g = [h \in Hints |-> SaidBy(g, h)]
    BY <1>1, AllBelow DEF SaidBelow
<1>3. Said = [h \in Hints |-> SaidBy(Said, h)]
    BY <1>2 DEF Said
<1>4. \A h \in Hints : Said[h] = SaidBy(Said, h)
    BY <1>3
<1> QED BY <1>4 DEF SaidUnfolds
LEMMA SaidUnfoldsNext == SaidUnfolds'
BY SaidAlwaysUnfolds, PTL

\* A typehint that is found, step by step.
LEMMA HintIs ==
    ASSUME NEW h \in Hints, NEW table, Good(table), IsDone(CheckHint(h, table))
    PROVE  LET r == CheckHint(h, table)
               target == CheckHint(Target(h), table)
           IN  /\ Good(r.types) /\ IsPrefix(table, r.types)
               /\ r.type \in DOMAIN r.types /\ r.type \in Nat /\ r = Done(r.type, r.types)
               /\ h.kind = "Builtin" => r = Done(h.type, table)
               /\ h.kind = "Identifier" => h.symbol \in DOMAIN names /\ r = Done(names[h.symbol].type, table)
               /\ h.kind \in {"Pointer", "Array"} =>
                    /\ Target(h) \in Hints /\ IsDone(target)
                    /\ r = RegisterOrGet(Over(h, target.type), target.types, TRUE)
<1> DEFINE r == CheckHint(h, table)
<1>1. IsTypes(table) /\ Symbols(table) /\ table \in Tables
    BY DEF Good, IsTypes
<1>2. Resolves(r, table)
    BY <1>1, CheckHintIsSound
<1>3. /\ Good(r.types) /\ IsPrefix(table, r.types)
      /\ r.type \in DOMAIN r.types /\ r.type \in Nat /\ r = Done(r.type, r.types)
    <2> HIDE DEF r
    <2>1. IsDone(r)
        BY DEF r
    <2>2. Sound(r, table)
        BY <1>2 DEF Resolves
    <2>3. Good(r.types) /\ IsPrefix(table, r.types)
        BY <1>1, <2>2, GoOn DEF Good
    <2>4. Sound(r, r.types)
        BY <2>2, <2>3, TableIs DEF Sound, Good
    <2> QED BY <2>1, <2>3, <2>4, SoundDone
<1>4. h.kind # "Identifier" => r = ResolveBy(ResolveHint, h, table)
    BY <1>1, ResolveIs DEF CheckHint, CheckHintBy, Resolve
<1>5. h.kind = "Builtin" => r = Done(h.type, table)
    BY <1>4 DEF ResolveBy
<1>6. h.kind = "Identifier" => h.symbol \in DOMAIN names /\ r = Done(names[h.symbol].type, table)
    BY DEF CheckHint, CheckHintBy, CheckIdentifier, Failed, Stop, Result, IsDone
<1>7. ASSUME h.kind \in {"Pointer", "Array"}
      PROVE  LET target == CheckHint(Target(h), table)
             IN  /\ Target(h) \in Hints /\ IsDone(target)
                 /\ r = RegisterOrGet(Over(h, target.type), target.types, TRUE)
    <2> DEFINE target == CheckHint(Target(h), table)
               found == RegisterOrGet(Over(h, target.type), target.types, TRUE)
    <2>1. r = IF IsDone(target) THEN found ELSE target
        BY <1>4, <1>7 DEF ResolveBy, CheckHint
    <2> HIDE DEF target, found
    <2>2. IsDone(target) /\ r = found
        BY <2>1
    <2> QED BY <1>7, <2>2, TargetIs DEF target, found
<1> QED BY <1>3, <1>5, <1>6, <1>7
\* A typehint that can be resolved is checked the same way.
LEMMA ResolvedIsChecked ==
    ASSUME NEW h \in Hints, NEW table, Good(table), IsDone(Resolve(h, table))
    PROVE  CheckHint(h, table) = Resolve(h, table)
<1>1. h.kind # "Identifier" => CheckHint(h, table) = Resolve(h, table)
    BY DEF CheckHint, CheckHintBy, Resolve
<1>2. Resolve(h, table) = ResolveBy(ResolveHint, h, table)
    BY ResolveIs DEF Good, IsTypes
<1>3. h.kind = "Identifier" => CheckHint(h, table) = Resolve(h, table)
    BY <1>2 DEF CheckHint, CheckHintBy, CheckIdentifier, ResolveBy, Failed, Stop, Result, IsDone
<1> QED BY <1>1, <1>3
\* It is found again, and says what it said.
LEMMA HintFound ==
    ASSUME NamesStay, NEW h \in Hints, NEW table, Good(table), IsDone(CheckHint(h, table)),
           NEW later, IsTypes(later), IsPrefix(CheckHint(h, table).types, later)
    PROVE  CheckHint(h, later)' = Done(CheckHint(h, table).type, later)
<1>1. CASE h.kind = "Identifier"
    <2>1. CheckHint(h, table) = CheckIdentifier(h.symbol, table)
        BY <1>1 DEF CheckHint, CheckHintBy
    <2>2. CheckHint(h, later)' = CheckIdentifier(h.symbol, later)'
        BY <1>1 DEF CheckHint, CheckHintBy
    <2> QED BY <2>1, <2>2, IdentifierAgain
<1>2. CASE h.kind # "Identifier"
    <2>1. CheckHint(h, table) = Resolve(h, table)
        BY <1>2 DEF CheckHint, CheckHintBy, Resolve
    <2>2. CheckHint(h, later)' = Resolve(h, later)'
        BY <1>2 DEF CheckHint, CheckHintBy, Resolve
    <2> QED BY <2>1, <2>2, HintsAgain DEF HintAgain, FoundAgain, Good
<1> QED BY <1>1, <1>2
SaidAgain(h) == \A table : Good(table) /\ IsDone(CheckHint(h, table)) => Said'[h] = Said[h]
\* What was found says after a step what it said before: one typehint, if the one inside does.
LEMMA SaidAgainStep ==
    ASSUME NamesStay, Good(types), IsTypes(types'), IsPrefix(types, types'),
           NEW h \in Hints, h.kind \in {"Pointer", "Array"} => SaidAgain(Target(h))
    PROVE  SaidAgain(h)
<1> SUFFICES ASSUME NEW table, Good(table), IsDone(CheckHint(h, table))
             PROVE  Said'[h] = Said[h]
    BY DEF SaidAgain
<1>1. Said[h] = SaidBy(Said, h) /\ Said'[h] = SaidBy(Said, h)'
    BY SaidAlwaysUnfolds, SaidUnfoldsNext DEF SaidUnfolds
<1>2. CASE h.kind = "Builtin"
    BY <1>1, <1>2 DEF SaidBy
<1>3. CASE h.kind = "Identifier"
    <2> DEFINE id == names[h.symbol].type
    <2>1. h.symbol \in DOMAIN names
        BY <1>3, HintIs
    <2>2. names'[h.symbol].type = id /\ id \in DOMAIN types
        BY <2>1 DEF NamesStay, Good, Symbols, IsSymbol
    <2>3. Said[h] = Reading(types)[id]
        BY <1>1, <1>3 DEF SaidBy
    <2>4. Said'[h] = Reading(types')[id]
        BY <1>1, <1>3, <2>2 DEF SaidBy
    <2> HIDE DEF id
    <2> PICK later : later = types'
        OBVIOUS
    <2>5. Reading(later)[id] = Reading(types)[id]
        BY <2>2, ReadingStays DEF Good
    <2> QED BY <2>3, <2>4, <2>5
<1>4. CASE h.kind \in {"Pointer", "Array"}
    <2>1. Said'[Target(h)] = Said[Target(h)]
        BY <1>4, HintIs DEF SaidAgain
    <2> QED BY <1>1, <1>4, <2>1 DEF SaidBy, Target
<1> QED BY <1>2, <1>3, <1>4, HintForms
\* A typehint that was found says after a step what it said before.
LEMMA SaidStays ==
    ASSUME NamesStay, Good(types), IsTypes(types'), IsPrefix(types, types'),
           NEW h \in Hints, NEW table, Good(table), IsDone(CheckHint(h, table))
    PROVE  Said'[h] = Said[h]
<1> DEFINE S == {n \in Nat : \A x \in HintsBelow(n) : SaidAgain(x)}
<1>1. 0 \in S
    BY DepthAssumption DEF HintsBelow
<1>2. ASSUME NEW n \in Nat, n \in S
      PROVE  n + 1 \in S
    <2>1. ASSUME NEW x \in HintsBelow(n + 1), x.kind \in {"Pointer", "Array"}
          PROVE  SaidAgain(Target(x))
        <3>1. Target(x) \in HintsBelow(n)
            BY <2>1, TargetIs DEF HintsBelow
        <3> QED BY <1>2, <3>1
    <2>2. \A x \in HintsBelow(n + 1) : SaidAgain(x)
        BY <2>1, SaidAgainStep DEF HintsBelow
    <2> QED BY <2>2
<1> HIDE DEF S
<1>3. Depth + 1 \in S
    BY <1>1, <1>2, SetInduction, AllBelow
<1> QED BY <1>3, AllBelow DEF S, SaidAgain
-----------------------------------------------------------------------------
(* What a check registers.                                                 *)

LEMMA LayoutsAreFormed ==
    ASSUME NEW layout \in Layouts
    PROVE  Formed(layout)
BY DEF Layouts, Formed, PointerType, ArrayType, FunctionType, StructType, Plain
\* A type that is registered is there already, or is added alone.
LEMMA RegisterAdds ==
    ASSUME NEW table, Good(table), NEW layout \in Layouts, NEW lucky, layout.kind \in Composed,
           References(layout) \subseteq DOMAIN table
    PROVE  LET r == RegisterOrGet(layout, table, lucky)
           IN  /\ IsDone(r) /\ Good(r.types) /\ IsPrefix(table, r.types)
               /\ r.type \in DOMAIN r.types /\ r.types[r.type].kind = layout.kind
               /\ layout.kind = "Pointer" => r.types[r.type] = layout
               /\ \/ r.types = table
                  \/ /\ DOMAIN r.types = DOMAIN table \cup {r.type} /\ r.types[r.type] = layout
                     /\ \A id \in DOMAIN table : ~SameType(table[id], layout, lucky)
<1> DEFINE r == RegisterOrGet(layout, table, lucky)
           same == Same(layout, table, lucky)
<1>1. IsTypes(table) /\ Symbols(table) /\ table \in Seq(Layouts) /\ Len(table) \in Nat
      /\ DOMAIN table = 1 .. Len(table)
    BY TableIs DEF Good
<1>2. Sound(r, table) /\ IsDone(r) /\ r.types[r.type].kind = layout.kind
    BY <1>1, RegisterIsSound
<1>3. Good(r.types) /\ IsPrefix(table, r.types) /\ r.type \in DOMAIN r.types
    <2> HIDE DEF r
    <2> QED BY <1>1, <1>2, GoOn DEF Good
<1>4. layout.kind = "Pointer" => r.types[r.type] = layout
    <2>1. \A id \in DOMAIN table : Formed(table[id])
        BY <1>1, LayoutIs, LayoutsAreFormed
    <2> QED BY <1>1, <2>1, LayoutsAreFormed, SharedSaysTheSame
<1>5. CASE same # {}
    <2>1. r = Done(r.type, table)
        BY <1>1, <1>5, RegisterIs
    <2>2. r.types = table
        BY <2>1 DEF Done, Result
    <2> QED BY <1>2, <1>3, <1>4, <2>2
<1>6. CASE same = {}
    <2>1. r = Done(Len(table) + 1, Append(table, layout))
        BY <1>1, <1>6, RegisterIs
    <2>2. r.types = Append(table, layout) /\ r.type = Len(table) + 1
        BY <2>1 DEF Done, Result
    <2>3. DOMAIN r.types = DOMAIN table \cup {r.type} /\ r.types[r.type] = layout
        <3> HIDE DEF r
        <3> QED BY <1>1, <2>2
    <2>4. \A id \in DOMAIN table : ~SameType(table[id], layout, lucky)
        BY <1>6 DEF Same
    <2> QED BY <1>2, <1>3, <1>4, <2>3, <2>4
<1> QED BY <1>5, <1>6

\* A table over which the names say what they say; what a check may add to it:
\* pointers, and arrays that were written in one of its typehints.
Agrees(table) == \A x \in DOMAIN names : Reading(table)[names[x].type] = Reading(types)[names[x].type]
Known(table) == Good(table) /\ Agrees(table)
NewOnes(table, later, H) ==
    \A id \in DOMAIN later : id \notin DOMAIN table =>
        \/ later[id].kind = "Pointer"
        \/ later[id].kind = "Array" /\ \E h \in H : Reading(later)[id].shape \in Said[h].arrays
Seen(h, later) ==
    /\ h \in Hints
    /\ \E earlier : /\ Good(earlier) /\ IsDone(CheckHint(h, earlier))
                    /\ IsPrefix(CheckHint(h, earlier).types, later)
Adds(table, later, H) ==
    /\ Known(table) /\ Known(later) /\ IsPrefix(table, later)
    /\ NewOnes(table, later, H)
    /\ \A h \in H : Seen(h, later)
\* The names say over a later table what they said.
LEMMA AgreesLater ==
    ASSUME NEW table, Known(table), NEW later, Good(later), IsPrefix(table, later)
    PROVE  Known(later)
<1>1. ASSUME NEW x \in DOMAIN names
      PROVE  Reading(later)[names[x].type] = Reading(types)[names[x].type]
    <2>1. names[x].type \in DOMAIN table
        BY <1>1 DEF Known, Good, Symbols, IsSymbol
    <2>2. Reading(later)[names[x].type] = Reading(table)[names[x].type]
        BY <2>1, ReadingStays DEF Known, Good
    <2> QED BY <1>1, <2>2 DEF Known, Agrees
<1> QED BY <1>1 DEF Known, Agrees
\* What was seen, seen from a later table.
LEMMA SeenLater ==
    ASSUME NEW h, NEW table, Good(table), Seen(h, table), NEW later, Good(later), IsPrefix(table, later)
    PROVE  Seen(h, later)
<1>1. PICK earlier : /\ Good(earlier) /\ IsDone(CheckHint(h, earlier))
                     /\ IsPrefix(CheckHint(h, earlier).types, table)
    BY DEF Seen
<1> DEFINE u == CheckHint(h, earlier).types
<1>2. IsTypes(u)
    BY <1>1, HintIs DEF Seen, Good
<1>3. IsPrefix(u, table)
    BY <1>1
<1> HIDE DEF u
<1>4. IsPrefix(u, later)
    BY <1>2, <1>3, LaterStill DEF Good
<1> QED BY <1>1, <1>4 DEF Seen, u
\* A table adds nothing to itself.
LEMMA AddsNothing ==
    ASSUME NEW table, Known(table)
    PROVE  Adds(table, table, {})
BY TableIs DEF Adds, NewOnes, Known, Good
\* What two checks add, one after the other.
LEMMA AddsMore ==
    ASSUME NEW s, NEW t, NEW u, NEW G, NEW H, Adds(s, t, G), Adds(t, u, H)
    PROVE  Adds(s, u, G \cup H)
<1>1. IsTypes(s) /\ IsTypes(t) /\ IsTypes(u) /\ IsPrefix(s, t) /\ IsPrefix(t, u) /\ Good(t) /\ Good(u)
    BY DEF Adds, Known, Good
<1>2. IsPrefix(s, u)
    BY <1>1, LaterStill
<1>3. \A h \in G \cup H : Seen(h, u)
    BY <1>1, SeenLater DEF Adds
<1>4. ASSUME NEW id \in DOMAIN u, id \notin DOMAIN s
      PROVE  \/ u[id].kind = "Pointer"
             \/ u[id].kind = "Array" /\ \E h \in G \cup H : Reading(u)[id].shape \in Said[h].arrays
    <2>1. CASE id \in DOMAIN t
        <3>1. u[id] = t[id] /\ Reading(u)[id] = Reading(t)[id]
            BY <1>1, <2>1, LaterTable, ReadingStays
        <3> QED BY <1>4, <2>1, <3>1 DEF Adds, NewOnes
    <2>2. CASE id \notin DOMAIN t
        BY <1>4, <2>2 DEF Adds, NewOnes
    <2> QED BY <2>1, <2>2
<1> QED BY <1>2, <1>3, <1>4 DEF Adds, NewOnes
\* A pointer that is registered is all that is added.
LEMMA AddsPointer ==
    ASSUME NEW table, Known(table), NEW layout \in Layouts, layout.kind = "Pointer",
           References(layout) \subseteq DOMAIN table
    PROVE  Adds(table, RegisterOrGet(layout, table, TRUE).types, {})
<1> SUFFICES ASSUME NEW lucky
             PROVE  Adds(table, RegisterOrGet(layout, table, lucky).types, {})
    OBVIOUS
<1> DEFINE r == RegisterOrGet(layout, table, lucky)
<1>1. /\ Good(r.types) /\ IsPrefix(table, r.types)
      /\ \/ r.types = table
         \/ DOMAIN r.types = DOMAIN table \cup {r.type} /\ r.types[r.type] = layout
    <2>1. Good(table) /\ layout.kind \in Composed
        BY DEF Known, Composed
    <2>2. References(layout) \subseteq DOMAIN table
        OBVIOUS
    <2> QED BY <2>1, <2>2, RegisterAdds
<1> DEFINE t == r.types
<1>2. \A id \in DOMAIN t : id \notin DOMAIN table => t[id].kind = "Pointer"
    BY <1>1
<1>3. Good(t) /\ IsPrefix(table, t)
    BY <1>1
<1> HIDE DEF r, t
<1>4. Adds(table, t, {})
    BY <1>2, <1>3, AgreesLater DEF Adds, NewOnes
<1> QED BY <1>4 DEF t, r

-----------------------------------------------------------------------------
(* What a typehint that was found means.                                   *)

\* An array of the table is not one that the typehint has.
Differs(table, h) ==
    \E x \in DOMAIN table, a \in Said[h].arrays : table[x].kind = "Array" /\ Reading(table)[x].shape # a
Means(id, table, h) ==
    /\ Reading(table)[id].arrays = {} <=> Said[h].arrays = {}
    /\ Reading(table)[id].shape = Said[h].shape \/ Differs(table, h)
HintMeans(h) ==
    \A table : Known(table) /\ IsDone(CheckHint(h, table)) =>
        LET r == CheckHint(h, table) IN Means(r.type, r.types, h) /\ Adds(table, r.types, {h})
\* A typehint that is found has been seen.
LEMMA SeenItself ==
    ASSUME NEW h \in Hints, NEW table, Good(table), IsDone(CheckHint(h, table))
    PROVE  Seen(h, CheckHint(h, table).types)
<1> DEFINE u == CheckHint(h, table).types
<1>1. Good(u)
    BY HintIs
<1> HIDE DEF u
<1>2. IsPrefix(u, u)
    BY <1>1, TableIs DEF Good
<1> QED BY <1>2 DEF Seen, u
\* Builtin types and names mean what they say.
LEMMA LeafMeans ==
    ASSUME NEW h \in Hints, h.kind \in {"Builtin", "Identifier"}
    PROVE  HintMeans(h)
<1> SUFFICES ASSUME NEW table, Known(table), IsDone(CheckHint(h, table))
             PROVE  LET r == CheckHint(h, table) IN Means(r.type, r.types, h) /\ Adds(table, r.types, {h})
    BY DEF HintMeans
<1> DEFINE r == CheckHint(h, table)
<1>0. Good(table) /\ IsTypes(table)
    BY DEF Known, Good
<1>1. Said[h] = SaidBy(Said, h)
    BY SaidAlwaysUnfolds DEF SaidUnfolds
<1>2. ASSUME h.kind = "Builtin"
      PROVE  r.types = table /\ Means(r.type, r.types, h)
    <2>1. r = Done(h.type, table) /\ h.type \in 1 .. 12 /\ TYPES[h.type].kind \notin Composed
        <3>1. r = Done(h.type, table) /\ h.type \in DOMAIN TYPES
            BY <1>0, <1>2, HintIs, HintForms
        <3>2. DOMAIN TYPES = 1 .. 12 /\ \A id \in 1 .. 12 : TYPES[id].kind \notin Composed
            BY DEF TYPES, Plain, Composed
        <3> QED BY <3>1, <3>2
    <2>2. h.type \in DOMAIN table /\ table[h.type] = TYPES[h.type]
        BY <1>0, <2>1, TableIs
    <2>3. Reading(table)[h.type] = ReadBy(Reading(table), table[h.type])
        BY <1>0, <2>2, ReadingIs
    <2>4. ReadBy(Reading(table), TYPES[h.type]) = Written(TYPES[h.type])
        BY <2>1 DEF ReadBy, Composed
    <2>5. Said[h] = Written(TYPES[h.type])
        BY <1>1, <1>2 DEF SaidBy
    <2>6. r.type = h.type /\ r.types = table
        BY <2>1 DEF Done, Result
    <2> QED BY <2>2, <2>3, <2>4, <2>5, <2>6 DEF Means
<1>3. ASSUME h.kind = "Identifier"
      PROVE  r.types = table /\ Means(r.type, r.types, h)
    <2>1. h.symbol \in DOMAIN names /\ r = Done(names[h.symbol].type, table)
        BY <1>0, <1>3, HintIs
    <2>2. Said[h] = Reading(types)[names[h.symbol].type]
        BY <1>1, <1>3 DEF SaidBy
    <2>3. r.type = names[h.symbol].type /\ r.types = table
        BY <2>1 DEF Done, Result
    <2> QED BY <2>1, <2>2, <2>3 DEF Known, Agrees, Means
<1>4. r.types = table /\ Means(r.type, r.types, h)
    BY <1>2, <1>3
<1>5. Seen(h, r.types)
    BY <1>0, SeenItself
<1> HIDE DEF r
<1>6. Adds(table, r.types, {h})
    BY <1>0, <1>4, <1>5, TableIs DEF Adds, NewOnes
<1> QED BY <1>4, <1>6 DEF r
\* A pointer or an array says its own kind over what is inside; and so it is read.
LEMMA SaidOver ==
    ASSUME NEW h \in Hints, h.kind \in {"Pointer", "Array"}
    PROVE  /\ Target(h) \in Hints
           /\ h.kind = "Pointer" => Said[h] = PointerRead(h.mutability, Said[Target(h)])
           /\ h.kind = "Array" => Said[h] = ArrayRead(h.element_count, Said[Target(h)])
           /\ Said[Target(h)].arrays \subseteq Said[h].arrays
<1>1. Said[h] = SaidBy(Said, h)
    BY SaidAlwaysUnfolds DEF SaidUnfolds
<1>2. /\ h.kind = "Pointer" => Said[h] = PointerRead(h.mutability, Said[Target(h)])
      /\ h.kind = "Array" => Said[h] = ArrayRead(h.element_count, Said[Target(h)])
    BY <1>1 DEF SaidBy, Target
<1> QED BY <1>2, TargetIs DEF PointerRead, ArrayRead
LEMMA ReadingOver ==
    ASSUME NEW h \in Hints, h.kind \in {"Pointer", "Array"}, NEW t, IsTypes(t), NEW x \in DOMAIN t,
           NEW id, t[x] = Over(h, id)
    PROVE  Reading(t)[x] = IF h.kind = "Pointer" THEN PointerRead(h.mutability, Reading(t)[id])
                                                 ELSE ArrayRead(h.element_count, Reading(t)[id])
<1>1. Reading(t)[x] = ReadBy(Reading(t), Over(h, id))
    BY ReadingIs
<1>2. CASE h.kind = "Pointer"
    <2>1. Over(h, id) = PointerType(h.mutability, id)
        BY <1>2 DEF Over
    <2> QED BY <1>1, <1>2, <2>1 DEF ReadBy, PointerType
<1>3. CASE h.kind = "Array"
    <2>1. Over(h, id) = ArrayType(h.element_count, id)
        BY <1>3 DEF Over
    <2> QED BY <1>1, <1>3, <2>1 DEF ReadBy, ArrayType
<1> QED BY <1>2, <1>3
\* An array that differs still does in a later table.
LEMMA DiffersLater ==
    ASSUME NEW h, NEW g, NEW s, IsTypes(s), NEW t, IsTypes(t), IsPrefix(s, t), Differs(s, g),
           Said[g].arrays \subseteq Said[h].arrays
    PROVE  Differs(t, h)
<1>1. PICK x \in DOMAIN s, a \in Said[g].arrays : s[x].kind = "Array" /\ Reading(s)[x].shape # a
    BY DEF Differs
<1>2. x \in DOMAIN t /\ t[x] = s[x] /\ Reading(t)[x] = Reading(s)[x] /\ a \in Said[h].arrays
    BY <1>1, LaterTable, ReadingStays
<1> QED BY <1>1, <1>2 DEF Differs
\* What is registered for a pointer or an array over the id found inside.
LEMMA OverRegisters ==
    ASSUME NEW h \in Hints, h.kind \in {"Pointer", "Array"}, NEW t, Known(t), NEW id \in DOMAIN t, NEW lucky
    PROVE  LET r == RegisterOrGet(Over(h, id), t, lucky)
           IN  /\ Good(r.types) /\ IsPrefix(t, r.types)
               /\ r.type \in DOMAIN r.types /\ r.types[r.type].kind = h.kind
               /\ h.kind = "Pointer" => r.types[r.type] = Over(h, id)
               /\ \/ r.types = t
                  \/ /\ DOMAIN r.types = DOMAIN t \cup {r.type} /\ r.types[r.type] = Over(h, id)
                     /\ \A x \in DOMAIN t : ~SameType(t[x], Over(h, id), lucky)
<1> DEFINE layout == Over(h, id)
<1>1. Good(t) /\ id \in Nat
    <2>1. Good(t)
        BY DEF Known
    <2>2. Len(t) \in Nat /\ DOMAIN t = 1 .. Len(t)
        BY <2>1, TableIs DEF Good
    <2> QED BY <2>1, <2>2
<1>2. layout \in Layouts /\ layout.kind = h.kind /\ References(layout) = {id}
    BY <1>1, OverIs
<1>3. layout.kind \in Composed /\ References(layout) \subseteq DOMAIN t
    BY <1>2 DEF Composed
<1> HIDE DEF layout
<1>4. LET r == RegisterOrGet(layout, t, lucky)
      IN  /\ Good(r.types) /\ IsPrefix(t, r.types)
          /\ r.type \in DOMAIN r.types /\ r.types[r.type].kind = layout.kind
          /\ layout.kind = "Pointer" => r.types[r.type] = layout
          /\ \/ r.types = t
             \/ /\ DOMAIN r.types = DOMAIN t \cup {r.type} /\ r.types[r.type] = layout
                /\ \A x \in DOMAIN t : ~SameType(t[x], layout, lucky)
    BY <1>1, <1>2, <1>3, RegisterAdds
<1> QED BY <1>2, <1>4 DEF layout
\* A pointer typehint is found to be the pointer that it says.
LEMMA PointerMeans ==
    ASSUME NEW h \in Hints, h.kind = "Pointer", NEW t, Known(t), NEW id \in DOMAIN t, NEW lucky,
           Means(id, t, Target(h))
    PROVE  LET r == RegisterOrGet(Over(h, id), t, lucky)
           IN  Means(r.type, r.types, h) /\ NewOnes(t, r.types, {h})
<1> DEFINE r == RegisterOrGet(Over(h, id), t, lucky)
           u == r.types
           x == r.type
<1>1. /\ Good(u) /\ IsPrefix(t, u) /\ x \in DOMAIN u /\ u[x] = Over(h, id) /\ u[x].kind = "Pointer"
      /\ u = t \/ DOMAIN u = DOMAIN t \cup {x}
    BY OverRegisters
<1> HIDE DEF r, u, x
<1>2. Good(t) /\ IsTypes(t) /\ IsTypes(u)
    BY <1>1 DEF Known, Good
<1>3. Reading(u)[x] = PointerRead(h.mutability, Reading(t)[id])
    <2>1. Reading(u)[id] = Reading(t)[id]
        BY <1>1, <1>2, ReadingStays
    <2> QED BY <1>1, <1>2, <2>1, ReadingOver
<1>4. Said[h] = PointerRead(h.mutability, Said[Target(h)]) /\ Said[Target(h)].arrays \subseteq Said[h].arrays
    BY SaidOver
<1>5. Reading(u)[x].arrays = {} <=> Said[h].arrays = {}
    BY <1>3, <1>4 DEF Means, PointerRead
<1>6. Reading(u)[x].shape = Said[h].shape \/ Differs(u, h)
    <2>1. CASE Differs(t, Target(h))
        BY <1>1, <1>2, <1>4, <2>1, DiffersLater
    <2>2. CASE ~Differs(t, Target(h))
        BY <1>3, <1>4, <2>2 DEF Means, PointerRead
    <2> QED BY <2>1, <2>2
<1>7. NewOnes(t, u, {h})
    BY <1>1 DEF NewOnes
<1> QED BY <1>5, <1>6, <1>7 DEF Means, r, u, x
\* An array typehint is found to be the array that it says, or another array of the table.
LEMMA ArrayMeans ==
    ASSUME NEW h \in Hints, h.kind = "Array", NEW t, Known(t), NEW id \in DOMAIN t, NEW lucky,
           Means(id, t, Target(h))
    PROVE  LET r == RegisterOrGet(Over(h, id), t, lucky)
           IN  Means(r.type, r.types, h) /\ NewOnes(t, r.types, {h})
<1> DEFINE r == RegisterOrGet(Over(h, id), t, lucky)
           u == r.types
           x == r.type
<1>1. /\ Good(u) /\ IsPrefix(t, u) /\ x \in DOMAIN u /\ u[x].kind = "Array"
      /\ \/ u = t
         \/ /\ DOMAIN u = DOMAIN t \cup {x} /\ u[x] = Over(h, id)
            /\ \A y \in DOMAIN t : ~SameType(t[y], Over(h, id), lucky)
    BY OverRegisters
<1> HIDE DEF r, u, x
<1>2. Good(t) /\ IsTypes(t) /\ IsTypes(u)
    BY <1>1 DEF Known, Good
<1>3. /\ Said[h] = ArrayRead(h.element_count, Said[Target(h)]) /\ Said[h].shape \in Said[h].arrays
      /\ Said[Target(h)].arrays \subseteq Said[h].arrays
    BY SaidOver DEF ArrayRead
<1>4. Reading(u)[x].arrays # {} /\ Said[h].arrays # {}
    <2>1. u[x] \in Layouts
        BY <1>1, <1>2, LayoutIs
    <2>2. Reading(u)[x] = ArrayRead(u[x].element_count, Reading(u)[u[x].element_type])
        BY <1>1, <1>2, ReadingIs DEF ReadBy
    <2> QED BY <1>3, <2>2 DEF ArrayRead
<1>5. Reading(u)[x].shape = Said[h].shape \/ Differs(u, h)
    BY <1>1, <1>3 DEF Differs
<1>6. NewOnes(t, u, {h})
    <2>1. CASE u = t
        BY <2>1 DEF NewOnes
    <2>2. CASE u # t
        <3>1. /\ DOMAIN u = DOMAIN t \cup {x} /\ u[x] = Over(h, id)
              /\ \A y \in DOMAIN t : ~SameType(t[y], Over(h, id), lucky)
            BY <1>1, <2>2
        <3>2. \A y \in DOMAIN t : t[y].kind # "Array"
            BY <1>1, <3>1 DEF SameType
        <3>3. ~Differs(t, Target(h))
            BY <3>2 DEF Differs
        <3>4. Reading(t)[id].shape = Said[Target(h)].shape
            BY <3>3 DEF Means
        <3>5. Reading(u)[x] = ArrayRead(h.element_count, Reading(t)[id])
            <4>1. Reading(u)[id] = Reading(t)[id]
                BY <1>1, <1>2, ReadingStays
            <4> QED BY <1>1, <1>2, <3>1, <4>1, ReadingOver
        <3>6. Reading(u)[x].shape = Said[h].shape
            BY <1>3, <3>4, <3>5 DEF ArrayRead
        <3> QED BY <1>1, <1>3, <3>1, <3>6 DEF NewOnes
    <2> QED BY <2>1, <2>2
<1> QED BY <1>4, <1>5, <1>6 DEF Means, r, u, x
\* A pointer or an array means what it says if what is inside does.
LEMMA OverMeans ==
    ASSUME NEW h \in Hints, h.kind \in {"Pointer", "Array"}, HintMeans(Target(h))
    PROVE  HintMeans(h)
<1> SUFFICES ASSUME NEW table, Known(table), IsDone(CheckHint(h, table))
             PROVE  LET r == CheckHint(h, table) IN Means(r.type, r.types, h) /\ Adds(table, r.types, {h})
    BY DEF HintMeans
<1> DEFINE target == CheckHint(Target(h), table)
           t == target.types
           id == target.type
           r == CheckHint(h, table)
           u == r.types
<1>1. Good(table)
    BY DEF Known
<1>2. /\ Good(u) /\ IsPrefix(table, u) /\ IsDone(target) /\ Target(h) \in Hints
      /\ r = RegisterOrGet(Over(h, id), t, TRUE)
    BY <1>1, HintIs
<1>3. id \in DOMAIN t
    BY <1>1, <1>2, HintIs
<1>4. Means(id, t, Target(h)) /\ Adds(table, t, {Target(h)})
    BY <1>2 DEF HintMeans
<1>5. Known(t)
    BY <1>4 DEF Adds
<1>6. Seen(h, u)
    BY <1>1, SeenItself
<1> HIDE DEF t, id, r
<1>7. \A lucky : LET f == RegisterOrGet(Over(h, id), t, lucky)
                 IN  Means(f.type, f.types, h) /\ NewOnes(t, f.types, {h}) /\ Good(f.types) /\ IsPrefix(t, f.types)
    <2> SUFFICES ASSUME NEW lucky
                 PROVE  LET f == RegisterOrGet(Over(h, id), t, lucky)
                        IN  Means(f.type, f.types, h) /\ NewOnes(t, f.types, {h})
                              /\ Good(f.types) /\ IsPrefix(t, f.types)
        OBVIOUS
    <2> DEFINE f == RegisterOrGet(Over(h, id), t, lucky)
    <2>1. Good(f.types) /\ IsPrefix(t, f.types)
        BY <1>3, <1>5, OverRegisters
    <2>2. Means(f.type, f.types, h) /\ NewOnes(t, f.types, {h})
        <3>1. CASE h.kind = "Pointer"
            BY <1>3, <1>4, <1>5, <3>1, PointerMeans
        <3>2. CASE h.kind = "Array"
            BY <1>3, <1>4, <1>5, <3>2, ArrayMeans
        <3> QED BY <3>1, <3>2
    <2> QED BY <2>1, <2>2
<1>8. Means(r.type, u, h) /\ NewOnes(t, u, {h}) /\ IsPrefix(t, u)
    BY <1>2, <1>7
<1>9. NewOnes(table, u, {h})
    <2> SUFFICES ASSUME NEW x \in DOMAIN u, x \notin DOMAIN table
                 PROVE  u[x].kind = "Pointer" \/ (u[x].kind = "Array" /\ Reading(u)[x].shape \in Said[h].arrays)
        BY DEF NewOnes
    <2>1. CASE x \in DOMAIN t
        <3>1. u[x] = t[x] /\ Reading(u)[x] = Reading(t)[x]
            <4>1. IsTypes(t) /\ IsTypes(u) /\ IsPrefix(t, u)
                BY <1>2, <1>5, <1>8 DEF Known, Good
            <4> HIDE DEF u
            <4> QED BY <2>1, <4>1, LaterTable, ReadingStays
        <3>2. t[x].kind = "Pointer" \/ (t[x].kind = "Array" /\ Reading(t)[x].shape \in Said[Target(h)].arrays)
            BY <1>4, <2>1 DEF Adds, NewOnes
        <3> QED BY <3>1, <3>2, SaidOver
    <2>2. CASE x \notin DOMAIN t
        BY <1>8, <2>2 DEF NewOnes
    <2> QED BY <2>1, <2>2
<1>10. Adds(table, u, {h})
    BY <1>2, <1>6, <1>9, AgreesLater DEF Adds
<1> QED BY <1>8, <1>10 DEF r
\* A typehint that is found means what it says, unless an array stands for another.
LEMMA HintsMean ==
    ASSUME NEW h \in Hints
    PROVE  HintMeans(h)
<1> DEFINE S == {n \in Nat : \A x \in HintsBelow(n) : HintMeans(x)}
<1>1. 0 \in S
    BY DepthAssumption DEF HintsBelow
<1>2. ASSUME NEW n \in Nat, n \in S
      PROVE  n + 1 \in S
    <2>1. ASSUME NEW x \in HintsBelow(n + 1)
          PROVE  HintMeans(x)
        <3>1. CASE x.kind \in {"Pointer", "Array"}
            <4>1. Target(x) \in HintsBelow(n) /\ x \in Hints
                BY <2>1, <3>1, TargetIs DEF HintsBelow
            <4> QED BY <1>2, <3>1, <4>1, OverMeans
        <3>2. CASE x.kind \in {"Builtin", "Identifier"}
            BY <2>1, <3>2, LeafMeans DEF HintsBelow
        <3> QED BY <2>1, <3>1, <3>2, HintForms DEF HintsBelow
    <2> QED BY <2>1
<1> HIDE DEF S
<1>3. Depth + 1 \in S
    BY <1>1, <1>2, SetInduction, AllBelow
<1> QED BY <1>3, AllBelow DEF S

-----------------------------------------------------------------------------
(* What the check of an expression adds.                                   *)

CastHints(e) == {p.type : p \in {p \in Parts[e] : p.kind = "Cast"}} \ {None}
AddsAlways(check, H) ==
    \A c, table : Known(table) /\ c \in 0 .. Len(table) /\ IsDone(check[c][table]) =>
        Adds(table, check[c][table].types, H)
CheckAdds(e) == AddsAlways(CheckTree[e], CastHints(e))
Sounds(check) == \A c, table : Good(table) /\ c \in 0 .. Len(table) => Sound(check[c][table], table)
\* The checks of expressions are sound over every good table.
LEMMA ChecksAreSound ==
    ASSUME NEW e \in Expressions
    PROVE  Sounds(CheckTree[e])
<1>1. ASSUME NEW c, NEW table, Good(table), c \in 0 .. Len(table)
      PROVE  Sound(CheckTree[e][c][table], table)
    <2>1. Checks(Check(e, c, table), e, table)
        BY <1>1, CheckIsSound DEF Good
    <2> QED BY <2>1 DEF Checks, Check
<1> QED BY <1>1 DEF Sounds
\* The typehints of casts in an expression are those in its parts.
LEMMA CastHintsAre ==
    ASSUME NEW e \in Expressions
    PROVE  /\ e.kind # "Cast" => CastHints(e) = UNION {CastHints(o) : o \in Operands(e)}
           /\ e.kind = "Cast" => CastHints(e) = ({e.type} \ {None}) \cup CastHints(e.expr)
<1>1. Parts[e] = {e} \cup UNION {Parts[o] : o \in Operands(e)}
    BY PartsIs
<1>2. e.kind = "Cast" => Operands(e) = {e.expr}
    BY DEF Operands
<1> QED BY <1>1, <1>2 DEF CastHints

Strictly(x, y, table) == TryCoerce(x, y, table, TRUE)
Loosely(x, y, table) == TryCoerce(x, y, table, FALSE)
\* An argument that is Done leaves the table of its check.
LEMMA ArgumentIs ==
    ASSUME NEW check, Sounds(check), NEW n \in Nat, n >= 1, NEW schema,
           NEW id, NEW table, Good(table), schema.parameters \in Seq(DOMAIN table)
    PROVE  LET next == CheckArgument(check, n, schema, Going(id, table))
           IN  /\ IsCall(next)
               /\ IsDone(next.result) =>
                    \E c \in 0 .. Len(table) :
                      /\ IsDone(check[c][table])
                      /\ next = Going(id, check[c][table].types)
                      /\ HasParameter(n, schema) =>
                           Strictly(schema.parameters[n], check[c][table].type, check[c][table].types)
<1> DEFINE call == Going(id, table)
           next == CheckArgument(check, n, schema, call)
           context == IF HasParameter(n, schema) THEN schema.parameters[n] ELSE NoContext
           arg == check[context][table]
           wrong == HasParameter(n, schema) /\ ~TryCoerce(schema.parameters[n], arg.type, arg.types, TRUE)
           status == IF arg.status = "Failed" \/ wrong THEN "Failed" ELSE "Done"
           End(r) == [result |-> r, over |-> TRUE]
           crash == HasParameter(n, schema) /\ n > Len(schema.parameters)
<1>0. IsCall(call)
    BY CallGoesOn DEF Going
<1>1. call.result = Done(id, table) /\ call.over = FALSE
      /\ call.result.status = "Done" /\ call.result.type = id /\ call.result.types = table
    BY DEF Going, Done, Result
<1>2. \A r : [call EXCEPT !.result = r] = [result |-> r, over |-> FALSE]
    <2> TAKE r
    <2> HIDE DEF call
    <2>1. [call EXCEPT !.result = r] = [result |-> r, over |-> call.over]
        BY <1>0, CallWith
    <2> QED BY <1>1, <2>1
<1> HIDE DEF call
<1>3. crash => next = End(Stop("Crashed", table))
    BY <1>1 DEF CheckArgument
<1>4. ~crash => next = CASE arg.status \in {"Aborted", "Crashed"} -> End(arg)
                         [] arg.status = "Done" /\ arg.type = NamespaceId -> End(Failed(arg.types))
                         [] OTHER -> [result |-> Result(status, id, arg.types), over |-> FALSE]
    BY <1>1, <1>2 DEF CheckArgument
<1> SUFFICES /\ IsCall(next)
             /\ IsDone(next.result) =>
                    \E c \in 0 .. Len(table) :
                      /\ IsDone(check[c][table])
                      /\ next = Going(id, check[c][table].types)
                      /\ HasParameter(n, schema) =>
                           Strictly(schema.parameters[n], check[c][table].type, check[c][table].types)
    BY DEF call
<1> HIDE DEF next
<1>5. CASE crash
    <2>1. ~IsDone(Stop("Crashed", table))
        BY DEF Stop, Result, IsDone
    <2> QED BY <1>3, <1>5, <2>1, CallEnds
<1>6. CASE ~crash /\ arg.status \in {"Aborted", "Crashed"}
    <2> HIDE DEF arg
    <2>1. next = End(arg) /\ ~IsDone(arg)
        BY <1>4, <1>6 DEF IsDone
    <2> QED BY <2>1, CallEnds
<1>7. CASE ~crash /\ arg.status = "Done" /\ arg.type = NamespaceId
    <2> HIDE DEF arg
    <2>1. next = End(Failed(arg.types))
        BY <1>4, <1>7
    <2>2. ~IsDone(Failed(arg.types))
        BY DEF Failed, Stop, Result, IsDone
    <2> QED BY <2>1, <2>2, CallEnds
<1>8. CASE ~crash /\ arg.status \notin {"Aborted", "Crashed"} /\ ~(arg.status = "Done" /\ arg.type = NamespaceId)
    <2>1. next = [result |-> Result(status, id, arg.types), over |-> FALSE]
        <3> HIDE DEF arg, status
        <3> QED BY <1>4, <1>8
    <2>2. IsCall(next) /\ next.result = Result(status, id, arg.types)
        BY <2>1, CallGoesOn
    <2>3. context \in 0 .. Len(table)
        <3>1. Len(table) \in Nat /\ DOMAIN table = 1 .. Len(table)
            BY TableIs DEF Good
        <3>2. Len(schema.parameters) \in Nat /\ (HasParameter(n, schema) => schema.parameters[n] \in DOMAIN table)
            BY <1>8
        <3> QED BY <3>1, <3>2 DEF NoContext
    <2>4. Sound(arg, table)
        BY <2>3 DEF Sounds
    <2>5. ASSUME IsDone(next.result)
          PROVE  IsDone(arg) /\ next = Going(id, arg.types) /\ ~wrong
        <3>1. status = "Done"
            <4> HIDE DEF arg, status
            <4> QED BY <2>2, <2>5 DEF IsDone, Result
        <3>2. arg.status # "Failed" /\ ~wrong
            <4> HIDE DEF arg, wrong
            <4> QED BY <3>1
        <3> HIDE DEF arg, status, wrong
        <3>3. IsDone(arg)
            BY <1>8, <2>4, <3>2 DEF Sound, Results, IsDone
        <3> QED BY <2>1, <3>1, <3>2, <3>3 DEF Going, Done, Result
    <2>6. ~wrong => (HasParameter(n, schema) => Strictly(schema.parameters[n], arg.type, arg.types))
        BY DEF Strictly
    <2> HIDE DEF arg, wrong
    <2> QED BY <2>2, <2>3, <2>5, <2>6 DEF arg
<1> QED BY <1>5, <1>6, <1>7, <1>8
Together(H, m) == UNION {H[n] : n \in 1 .. m}
\* The arguments together add what each of them adds.
LEMMA ArgumentsAdd ==
    ASSUME NEW m \in Nat, NEW checks, Len(checks) = m, NEW H,
           \A n \in 1 .. m : Sounds(checks[n]) /\ AddsAlways(checks[n], H[n]),
           NEW table, Known(table), NEW schema, schema.parameters \in Seq(DOMAIN table),
           NEW status, NEW id, IsDone(CheckArguments(checks, schema, Result(status, id, table)))
    PROVE  Adds(table, CheckArguments(checks, schema, Result(status, id, table)).types, Together(H, m))
<1> DEFINE r == Result(status, id, table)
<1> HIDE DEF r
<1>1. PICK a : /\ a[0] = [result |-> r, over |-> FALSE]
               /\ \A n \in 1 .. m : a[n] = CheckArgument(checks[n], n, schema, a[n - 1])
               /\ CheckArguments(checks, schema, r) = a[m].result
    <2>1. PICK a : Arguments(a, checks, m, schema, r)
        BY ArgumentsRun
    <2> QED BY <2>1 DEF Arguments
<1> DEFINE t(n) == a[n].result.types
           All(n) == Together(H, n)
           P(n) == n <= m => /\ IsCall(a[n])
                             /\ IsDone(a[n].result) => a[n] = Going(id, t(n)) /\ Adds(table, t(n), All(n))
           S == {n \in Nat : P(n)}
<1>2. 0 \in S
    <2>1. IsCall(a[0]) /\ a[0].result = r /\ t(0) = table
        <3>1. r.types = table
            BY DEF r, Result
        <3> QED BY <1>1, <3>1, CallGoesOn
    <2>2. IsDone(r) => a[0] = Going(id, table)
        BY <1>1 DEF IsDone, Result, Done, Going, r
    <2>3. All(0) = {}
        BY DEF Together
    <2>4. Adds(table, table, {})
        BY AddsNothing
    <2> HIDE DEF All
    <2> QED BY <2>1, <2>2, <2>3, <2>4
<1>3. ASSUME NEW n \in Nat, n \in S
      PROVE  n + 1 \in S
    <2> SUFFICES ASSUME n + 1 <= m
                 PROVE  P(n + 1)
        OBVIOUS
    <2>0. n <= m /\ n + 1 \in 1 .. m /\ (n + 1) - 1 = n /\ n + 1 >= 1 /\ n + 1 \in Nat
        OBVIOUS
    <2>1. a[n + 1] = CheckArgument(checks[n + 1], n + 1, schema, a[n])
        BY <1>1, <2>0
    <2>2. P(n)
        BY <1>3
    <2>3. CASE ~IsDone(a[n].result)
        <3>1. IsCall(a[n + 1]) /\ ~IsDone(a[n + 1].result)
            BY <2>0, <2>1, <2>2, <2>3, ArgumentNotDone
        <3> QED BY <3>1
    <2>4. CASE IsDone(a[n].result)
        <3> DEFINE u == t(n)
                   next == a[n + 1]
                   check == checks[n + 1]
        <3>1. a[n] = Going(id, u) /\ Adds(table, u, All(n))
            BY <2>0, <2>2, <2>4
        <3> HIDE DEF All
        <3>2. Known(u) /\ Good(u) /\ IsPrefix(table, u)
            BY <3>1 DEF Adds, Known
        <3>3. schema.parameters \in Seq(DOMAIN u)
            <4>1. DOMAIN table \subseteq DOMAIN u
                BY <3>2, LaterTable DEF Known, Good
            <4> HIDE DEF u
            <4> QED BY <4>1
        <3> HIDE DEF u
        <3>4. next = CheckArgument(check, n + 1, schema, Going(id, u))
            BY <2>1, <3>1
        <3>5. Sounds(check) /\ AddsAlways(check, H[n + 1])
            BY <2>0
        <3> HIDE DEF next, check
        <3>6. /\ IsCall(next)
              /\ IsDone(next.result) =>
                   \E c \in 0 .. Len(u) : IsDone(check[c][u]) /\ next = Going(id, check[c][u].types)
            BY <2>0, <3>2, <3>3, <3>4, <3>5, ArgumentIs
        <3>7. ASSUME IsDone(next.result)
              PROVE  next = Going(id, next.result.types) /\ Adds(table, next.result.types, All(n + 1))
            <4>1. PICK c \in 0 .. Len(u) : IsDone(check[c][u]) /\ next = Going(id, check[c][u].types)
                BY <3>6, <3>7
            <4> DEFINE w == check[c][u].types
            <4>2. Adds(u, w, H[n + 1])
                BY <3>2, <3>5, <4>1 DEF AddsAlways
            <4>3. next = Going(id, w)
                BY <4>1
            <4> HIDE DEF w
            <4>4. next.result.types = w
                BY <4>3 DEF Going, Done, Result
            <4>5. Adds(table, w, All(n) \cup H[n + 1])
                BY <3>1, <4>2, AddsMore
            <4>6. All(n + 1) = All(n) \cup H[n + 1]
                <5>1. 1 .. n + 1 = (1 .. n) \cup {n + 1}
                    OBVIOUS
                <5> QED BY <5>1 DEF All, Together
            <4> QED BY <4>3, <4>4, <4>5, <4>6
        <3> QED BY <3>6, <3>7 DEF next
    <2> QED BY <2>3, <2>4
<1> HIDE DEF S, P, All
<1>4. \A n \in Nat : n \in S
    BY <1>2, <1>3, SetInduction
<1>5. P(m)
    BY <1>4 DEF S
<1>6. Adds(table, t(m), All(m))
    <2>1. IsDone(a[m].result)
        BY <1>1 DEF r
    <2> HIDE DEF t
    <2> QED BY <1>5, <2>1 DEF P
<1> QED BY <1>1, <1>6 DEF r, All
\* A call adds what the callee and the arguments add.
LEMMA CallAdds ==
    ASSUME NEW e \in Expressions, e.kind = "Function_Call", \A o \in Operands(e) : CheckAdds(o),
           NEW v, Known(v.types), v.type \in DOMAIN v.types,
           e.callee.kind = "Identifier" => e.callee.symbol \in DOMAIN names,
           NEW c, IsDone(CheckOn(CheckTree, e, v, c))
    PROVE  Adds(v.types, CheckOn(CheckTree, e, v, c).types, UNION {CastHints(e.arguments[n]) : n \in DOMAIN e.arguments})
<1> DEFINE table == v.types
           layout == table[v.type]
           symbol == names[e.callee.symbol]
           m == Len(e.arguments)
           enough == EnoughArguments(m, symbol.schema)
           status == IF enough THEN "Done" ELSE "Failed"
           checks == [n \in DOMAIN e.arguments |-> CheckTree[e.arguments[n]]]
           H == [n \in DOMAIN e.arguments |-> CastHints(e.arguments[n])]
           r == CheckOn(CheckTree, e, v, c)
<1>1. r = CheckFunctionCall(checks, e, v)
    BY DEF CheckOn
<1>2. IsDone(r)
    OBVIOUS
<1>3. r = CASE layout.kind # "Function" -> Failed(table)
            [] layout.kind = "Function" /\ (e.callee.kind # "Identifier" \/ symbol.sort # "Function") ->
                 Stop("Aborted", table)
            [] OTHER -> CheckArguments(checks, symbol.schema, Result(status, layout.return_type, table))
    <2> HIDE DEF checks, r
    <2> QED BY <1>1 DEF CheckFunctionCall
<1> SUFFICES Adds(table, r.types, UNION {CastHints(e.arguments[n]) : n \in DOMAIN e.arguments})
    OBVIOUS
<1> HIDE DEF r
<1>4. /\ layout.kind = "Function" /\ e.callee.kind = "Identifier" /\ symbol.sort = "Function"
      /\ r = CheckArguments(checks, symbol.schema, Result(status, layout.return_type, table))
    <2>1. ~IsDone(Stop("Aborted", table)) /\ ~IsDone(Failed(table))
        BY DEF Stop, Failed, Result, IsDone
    <2> HIDE DEF checks, status, layout, table, symbol
    <2> QED BY <1>2, <1>3, <2>1
<1>5. symbol.schema.parameters \in Seq(DOMAIN table)
    <2>1. e.callee.symbol \in DOMAIN names
        BY <1>4
    <2>2. IsSymbol(symbol, table)
        BY <2>1 DEF Known, Good, Symbols
    <2> QED BY <1>4, <2>2 DEF IsSymbol
<1>6. e.arguments \in Seq(Expressions) /\ m \in Nat /\ DOMAIN e.arguments = 1 .. m
    BY ExpressionForms
<1>7. Len(checks) = m
    BY <1>6
<1>8. ASSUME NEW n \in 1 .. m
      PROVE  Sounds(checks[n]) /\ AddsAlways(checks[n], H[n])
    <2>1. e.arguments[n] \in Operands(e)
        BY <1>6 DEF Operands, ToSet
    <2>2. CheckAdds(e.arguments[n]) /\ Sounds(CheckTree[e.arguments[n]])
        BY <2>1, OperandsAre, ChecksAreSound
    <2>3. checks[n] = CheckTree[e.arguments[n]] /\ H[n] = CastHints(e.arguments[n])
        BY <1>6
    <2> HIDE DEF checks, H
    <2> QED BY <2>2, <2>3 DEF CheckAdds
<1>9. Together(H, m) = UNION {CastHints(e.arguments[n]) : n \in DOMAIN e.arguments}
    BY <1>6 DEF Together
<1> DEFINE schema == symbol.schema
           id == layout.return_type
<1>10. /\ schema.parameters \in Seq(DOMAIN table) /\ Known(table)
       /\ r = CheckArguments(checks, schema, Result(status, id, table))
    BY <1>4, <1>5
<1> HIDE DEF schema, id, status, table, checks, m, H
<1>11. Adds(table, r.types, Together(H, m))
    <2> DEFINE q == CheckArguments(checks, schema, Result(status, id, table))
    <2>1. IsDone(q) /\ r = q
        BY <1>2, <1>10
    <2>2. Adds(table, q.types, Together(H, m))
        BY <1>6, <1>7, <1>8, <1>10, <2>1, ArgumentsAdd
    <2> HIDE DEF q
    <2> QED BY <2>1, <2>2
<1> QED BY <1>9, <1>11
\* A cast adds what its typehint and its operand add.
LEMMA CastAdds ==
    ASSUME NEW e \in Expressions, e.kind = "Cast", CheckAdds(e.expr),
           NEW table, Known(table), NEW c \in 0 .. Len(table), IsDone(CheckCast(CheckTree, e, c, table))
    PROVE  Adds(table, CheckCast(CheckTree, e, c, table).types, CastHints(e))
<1> DEFINE target == IF e.type # None THEN Resolve(e.type, table)
                     ELSE IF c # NoContext THEN Done(c, table) ELSE Failed(table)
           v == CheckTree[e.expr][NoContext][target.types]
           r == CheckCast(CheckTree, e, c, table)
           H == {e.type} \ {None}
<1>0. Good(table)
    BY DEF Known
<1>1. r = CASE ~IsDone(target) -> target
            [] IsDone(target) /\ ~IsDone(v) -> v
            [] OTHER -> IF v.type = target.type \/ TryCoerce(target.type, v.type, v.types, FALSE)
                        THEN Done(target.type, v.types) ELSE Failed(v.types)
    BY DEF CheckCast
<1>2. IsDone(r)
    OBVIOUS
<1> SUFFICES Adds(table, r.types, CastHints(e))
    OBVIOUS
<1>3. IsDone(target) => Adds(table, target.types, H)
    <2>1. CASE e.type # None
        <3>1. e.type \in Hints /\ target = Resolve(e.type, table) /\ H = {e.type}
            BY <2>1, ExpressionForms
        <3> HIDE DEF target, H
        <3>2. IsDone(target) => CheckHint(e.type, table) = target
            BY <1>0, <3>1, ResolvedIsChecked
        <3>3. HintMeans(e.type)
            BY <3>1, HintsMean
        <3> QED BY <3>1, <3>2, <3>3 DEF HintMeans
    <2>2. CASE e.type = None /\ c # NoContext
        <3>1. H = {} /\ target = Done(c, table)
            BY <2>2
        <3> HIDE DEF target, H
        <3>2. target.types = table
            BY <3>1, DoneAgain
        <3> QED BY <3>1, <3>2, AddsNothing
    <2>3. CASE e.type = None /\ c = NoContext
        BY <2>3, DoneAgain
    <2> QED BY <2>1, <2>2, <2>3
<1> HIDE DEF target, r
<1>4. IsDone(target) /\ IsDone(v) /\ r = Done(target.type, v.types)
    <2> HIDE DEF v
    <2> QED BY <1>1, <1>2, DoneAgain
<1>5. r.types = v.types
    <2> HIDE DEF v
    <2> QED BY <1>4, DoneAgain
<1>6. Known(target.types) /\ NoContext \in 0 .. Len(target.types)
    <2>1. Known(target.types)
        BY <1>3, <1>4 DEF Adds
    <2>2. Len(target.types) \in Nat
        BY <2>1, TableIs DEF Known, Good
    <2> QED BY <2>1, <2>2 DEF NoContext
<1>7. Adds(target.types, v.types, CastHints(e.expr))
    BY <1>4, <1>6 DEF CheckAdds, AddsAlways
<1>8. Adds(table, v.types, H \cup CastHints(e.expr))
    <2> HIDE DEF v, H
    <2> QED BY <1>3, <1>4, <1>7, AddsMore
<1>9. CastHints(e) = H \cup CastHints(e.expr)
    BY CastHintsAre
<1> QED BY <1>5, <1>8, <1>9
\* What is checked behind the operand that comes first.
Leaves == {"Integer", "Float", "CString", "Identifier", "Cast"}
RestHints(e) ==
    CASE e.kind = "Subscript" -> CastHints(e.index)
      [] e.kind = "Binop" -> CastHints(e.right)
      [] e.kind = "Function_Call" -> UNION {CastHints(e.arguments[n]) : n \in DOMAIN e.arguments}
      [] OTHER -> {}
\* The typehints inside an expression beside those of its first operand.
LEMMA RestIs ==
    ASSUME NEW e \in Expressions, e.kind \notin Leaves
    PROVE  CastHints(e) = CastHints(First(e)) \cup RestHints(e)
<1>1. CastHints(e) = UNION {CastHints(o) : o \in Operands(e)}
    BY CastHintsAre DEF Leaves
<1>2. CASE e.kind = "Function_Call"
    <2>1. Operands(e) = {e.callee} \cup ToSet(e.arguments) /\ First(e) = e.callee
        BY <1>2 DEF Operands, First
    <2> QED BY <1>1, <1>2, <2>1 DEF RestHints, ToSet
<1>3. CASE e.kind = "Subscript"
    BY <1>1, <1>3 DEF Operands, First, RestHints
<1>4. CASE e.kind = "Binop"
    BY <1>1, <1>4 DEF Operands, First, RestHints
<1>5. CASE e.kind \notin {"Function_Call", "Subscript", "Binop"}
    <2>1. Operands(e) = {First(e)}
        BY <1>5, ExpressionForms DEF Operands, First, Leaves
    <2> QED BY <1>1, <1>5, <2>1 DEF RestHints
<1> QED BY <1>2, <1>3, <1>4, <1>5
\* The operands of a binary operator leave the table as it is.
LEMMA OperandsLeaveTable ==
    ASSUME NEW e, NEW left, NEW right, NEW table, IsDone(CheckOperands(e, left, right, table))
    PROVE  CheckOperands(e, left, right, table).types = table
<1> DEFINE r == CheckOperands(e, left, right, table)
           good == UnlessConstant(e.left, left, table)
<1>1. \/ r = Failed(table) \/ r = Done(BoolId, table) \/ r = Done(right, table)
      \/ r = LvalueOr(e.left, left, table, good)
    <2>1. CASE e.op = "Assign"
        <3>1. r = IF ~TryCoerce(left, right, table, FALSE) THEN Failed(table) ELSE LvalueOr(e.left, left, table, good)
            <4> HIDE DEF good
            <4> QED BY <2>1 DEF CheckOperands, Equalities, good
        <3> HIDE DEF r, good
        <3> QED BY <3>1
    <2>2. CASE e.op \in Equalities
        <3>1. e.op # "Assign"
            BY <2>2 DEF Equalities
        <3> HIDE DEF good
        <3> QED BY <2>2, <3>1 DEF CheckOperands
    <2>3. CASE e.op # "Assign" /\ e.op \notin Equalities
        <3> HIDE DEF good
        <3> QED BY <2>3 DEF CheckOperands
    <2> QED BY <2>1, <2>2, <2>3
<1>2. good = Failed(table) \/ good = Done(left, table)
    BY DEF UnlessConstant
<1>3. IsDone(r)
    OBVIOUS
<1> HIDE DEF r, good
<1>4. r \in {Done(BoolId, table), Done(right, table), Done(left, table)}
    BY <1>1, <1>2, <1>3, LvalueAgain, DoneAgain
<1> QED BY <1>4, DoneAgain DEF r
\* What is checked over its first operand adds what the others add, and pointers.
LEMMA OnAdds ==
    ASSUME NEW e \in Expressions, e.kind \notin Leaves, \A o \in Operands(e) : CheckAdds(o),
           NEW v, Known(v.types), v.type \in DOMAIN v.types, NEW c \in 0 .. Len(v.types),
           First(e).kind = "Identifier" => First(e).symbol \in DOMAIN names,
           IsDone(CheckOn(CheckTree, e, v, c))
    PROVE  Adds(v.types, CheckOn(CheckTree, e, v, c).types, RestHints(e))
<1> DEFINE id == v.type
           table == v.types
           r == CheckOn(CheckTree, e, v, c)
<1>0. Good(table) /\ id \in DOMAIN table /\ id \in 0 .. Len(table) /\ id \in Nat
    <2>1. Good(table)
        BY DEF Known
    <2>2. Len(table) \in Nat /\ DOMAIN table = 1 .. Len(table)
        BY <2>1, TableIs DEF Good
    <2> QED BY <2>1, <2>2
<1>1. IsDone(r)
    OBVIOUS
<1> SUFFICES Adds(table, r.types, RestHints(e))
    OBVIOUS
<1>2. CASE e.kind = "Dereference"
    <2> DEFINE ids == IF table[id].kind = "Pointer" THEN Element(id, table) ELSE {}
    <2>1. r = TheOnly(ids, table)
        BY <1>2 DEF CheckOn
    <2> HIDE DEF r, ids
    <2>2. r.types = table /\ RestHints(e) = {}
        BY <1>1, <1>2, <2>1, TheOnlyAgain DEF RestHints
    <2> QED BY <2>2, AddsNothing
<1>3. CASE e.kind = "AddressOf"
    <2> DEFINE layout == PointerType(FALSE, id)
               good == RegisterOrGet(layout, table, TRUE)
    <2>1. r = LvalueOr(e.operand, id, table, good)
        BY <1>3 DEF CheckOn
    <2>2. layout \in Layouts /\ layout.kind = "Pointer" /\ References(layout) = {id}
        <3> HIDE DEF id
        <3>1. layout \in [kind : {"Pointer"}, mutability : BOOLEAN, target_type : Nat]
            BY <1>0 DEF PointerType
        <3> QED BY <3>1 DEF PointerType, Layouts, References
    <2> HIDE DEF r, layout
    <2>3. Adds(table, good.types, {})
        BY <1>0, <2>2, AddsPointer
    <2>4. r = good
        <3> HIDE DEF good
        <3> QED BY <1>1, <2>1, LvalueAgain
    <2>5. RestHints(e) = {}
        BY <1>3 DEF RestHints
    <2> QED BY <2>3, <2>4, <2>5
<1>4. CASE e.kind = "Subscript"
    <2> DEFINE i == CheckTree[e.index][c][table]
               ids == IF TryCoerce(IntId, i.type, i.types, TRUE) THEN Element(id, i.types) ELSE {}
    <2>1. r = IF ~IsDone(i) THEN i ELSE TheOnly(ids, i.types)
        BY <1>4 DEF CheckOn
    <2>2. IsDone(i) => Adds(table, i.types, RestHints(e))
        <3>1. e.index \in Operands(e) /\ RestHints(e) = CastHints(e.index)
            BY <1>4 DEF Operands, RestHints
        <3> QED BY <3>1 DEF CheckAdds, AddsAlways
    <2> HIDE DEF i, r, ids
    <2>3. IsDone(i) /\ r = TheOnly(ids, i.types) /\ r.types = i.types
        BY <1>1, <2>1, TheOnlyAgain
    <2> QED BY <2>2, <2>3
<1>5. CASE e.kind = "Unary"
    <2>1. r = IF TryCoerce(BoolId, id, table, TRUE) THEN Done(BoolId, table) ELSE Failed(table)
        BY <1>5 DEF CheckOn
    <2> HIDE DEF r
    <2>2. r = Done(BoolId, table)
        BY <1>1, <2>1, DoneAgain
    <2>3. r.types = table /\ RestHints(e) = {}
        BY <1>5, <2>2, DoneAgain DEF RestHints
    <2> QED BY <2>3, AddsNothing
<1>6. CASE e.kind = "Member_Access"
    <2>1. r = CheckMember(e, id, table)
        BY <1>6 DEF CheckOn
    <2> HIDE DEF r
    <2>2. IsTypes(table) /\ SameIds(table, table)
        BY <1>0 DEF Good, SameIds
    <2>3. r.types = table /\ RestHints(e) = {}
        BY <1>0, <1>1, <1>6, <2>1, <2>2, MemberAgain DEF RestHints
    <2> QED BY <2>3, AddsNothing
<1>7. CASE e.kind = "Binop"
    <2> DEFINE i == CheckTree[e.right][id][table]
               q == CheckOperands(e, id, i.type, i.types)
    <2>1. r = IF IsDone(i) THEN q ELSE i
        BY <1>7 DEF CheckOn
    <2>2. e.right \in Operands(e) /\ e.right \in Expressions /\ RestHints(e) = CastHints(e.right)
          /\ First(e) = e.left
        BY <1>7, ExpressionForms DEF Operands, RestHints, First
    <2>3. IsDone(i) => Adds(table, i.types, RestHints(e))
        BY <1>0, <2>2 DEF CheckAdds, AddsAlways
    <2>4. Sound(i, table)
        BY <1>0, <2>2, ChecksAreSound DEF Sounds
    <2> HIDE DEF i, r
    <2>5. IsDone(i) /\ r = q
        BY <1>1, <2>1
    <2>6. IsTypes(i.types) /\ i.type \in DOMAIN i.types /\ id \in DOMAIN i.types
        <3>1. Good(i.types) /\ i.type \in DOMAIN i.types /\ DOMAIN table \subseteq DOMAIN i.types
            BY <1>0, <2>4, <2>5, GoOn DEF Good
        <3> QED BY <1>0, <3>1 DEF Good
    <2>7. q.types = i.types
        BY <1>1, <2>5, OperandsLeaveTable
    <2> QED BY <2>3, <2>5, <2>7
<1>8. CASE e.kind = "Function_Call"
    <2>1. RestHints(e) = UNION {CastHints(e.arguments[n]) : n \in DOMAIN e.arguments} /\ First(e) = e.callee
        BY <1>8 DEF RestHints, First
    <2> HIDE DEF r
    <2>2. Adds(table, r.types, UNION {CastHints(e.arguments[n]) : n \in DOMAIN e.arguments})
        BY <1>0, <1>8, <2>1, CallAdds DEF r
    <2> QED BY <2>1, <2>2
<1>9. CASE e.kind = "Eval"
    <2>1. r = Stop("Aborted", table)
        BY <1>9 DEF CheckOn
    <2> HIDE DEF r
    <2> QED BY <1>1, <2>1 DEF Stop, Result, IsDone
<1> QED BY <1>2, <1>3, <1>4, <1>5, <1>6, <1>7, <1>8, <1>9, ExpressionForms DEF Leaves
\* An expression adds what it should if its operands do.
LEMMA CheckAddsStep ==
    ASSUME NEW e \in Expressions, \A o \in Operands(e) : CheckAdds(o)
    PROVE  CheckAdds(e)
<1> SUFFICES ASSUME NEW c, NEW table, Known(table), c \in 0 .. Len(table), IsDone(CheckTree[e][c][table])
             PROVE  Adds(table, CheckTree[e][c][table].types, CastHints(e))
    BY DEF CheckAdds, AddsAlways
<1> DEFINE r == CheckTree[e][c][table]
<1>0. Good(table) /\ IsDone(r)
    BY DEF Known
<1> SUFFICES Adds(table, r.types, CastHints(e))
    OBVIOUS
<1>1. r = CheckBy(CheckTree, e, c, table)
    BY <1>0, CheckByContext
<1>2. ASSUME e.kind \in {"Integer", "Float", "Identifier"}
      PROVE  r.types = table
    <2>1. CASE e.kind = "Integer"
        <3>1. r = Done(CheckInteger(c, table), table)
            BY <1>1, <2>1 DEF CheckBy
        <3> HIDE DEF r
        <3> QED BY <3>1, DoneAgain
    <2>2. CASE e.kind = "Float"
        <3>1. r = Done(Float32Id, table)
            BY <1>1, <2>2 DEF CheckBy
        <3> HIDE DEF r
        <3> QED BY <3>1, DoneAgain
    <2>3. CASE e.kind = "Identifier"
        <3>1. r = CheckIdentifier(e.symbol, table)
            BY <1>1, <2>3 DEF CheckBy
        <3> HIDE DEF r
        <3> QED BY <1>0, <3>1, DoneAgain DEF CheckIdentifier
    <2> QED BY <1>2, <2>1, <2>2, <2>3
<1>3. CASE e.kind = "CString"
    <2> DEFINE layout == PointerType(TRUE, CharId)
    <2>1. r = RegisterOrGet(layout, table, TRUE)
        BY <1>1, <1>3 DEF CheckBy
    <2>2. layout \in Layouts /\ layout.kind = "Pointer" /\ References(layout) \subseteq DOMAIN table
        <3>1. layout \in [kind : {"Pointer"}, mutability : BOOLEAN, target_type : Nat]
            BY DEF PointerType, CharId
        <3>2. References(layout) = {6} /\ 1 .. 12 \subseteq DOMAIN table
            <4>1. References(layout) = {6}
                BY DEF References, PointerType, CharId
            <4>2. IsTypes(table)
                BY <1>0 DEF Good
            <4>3. 1 .. 12 \subseteq DOMAIN table
                BY <4>2, TableIs
            <4> HIDE DEF layout
            <4> QED BY <4>1, <4>3
        <3>3. layout \in Layouts /\ layout.kind = "Pointer"
            BY <3>1 DEF PointerType, Layouts
        <3> HIDE DEF layout
        <3>4. 6 \in 1 .. 12
            OBVIOUS
        <3> QED BY <3>2, <3>3, <3>4
    <2>3. CastHints(e) = {}
        BY <1>3, CastHintsAre DEF Operands
    <2> HIDE DEF layout, r
    <2>4. Adds(table, RegisterOrGet(layout, table, TRUE).types, {})
        BY <2>2, AddsPointer
    <2> QED BY <2>1, <2>3, <2>4
<1>4. CASE e.kind = "Cast"
    <2>1. r = CheckCast(CheckTree, e, c, table)
        BY <1>1, <1>4 DEF CheckBy
    <2>2. e.expr \in Operands(e)
        BY <1>4 DEF Operands
    <2> HIDE DEF r
    <2>3. IsDone(CheckCast(CheckTree, e, c, table)) /\ CheckAdds(e.expr)
        BY <1>0, <2>1, <2>2
    <2>4. Adds(table, CheckCast(CheckTree, e, c, table).types, CastHints(e))
        BY <1>4, <2>3, CastAdds
    <2> QED BY <2>1, <2>4
<1>5. CASE e.kind \notin Leaves
    <2> DEFINE v == CheckTree[First(e)][c][table]
    <2>1. /\ r = CheckOn(CheckTree, e, v, c)
          /\ IsDone(v) /\ v.type \in DOMAIN v.types
          /\ c \in 0 .. Len(v.types)
          /\ First(e).kind = "Identifier" => First(e).symbol \in DOMAIN names
        BY <1>0, <1>5, FirstOf DEF Leaves
    <2>2. Adds(table, v.types, CastHints(First(e)))
        <3>1. First(e) \in Operands(e)
            BY <1>5, FirstIs DEF Leaves
        <3> QED BY <2>1, <3>1 DEF CheckAdds, AddsAlways
    <2>3. Known(v.types)
        BY <2>2 DEF Adds
    <2> HIDE DEF v, r
    <2>4. Adds(v.types, r.types, RestHints(e))
        BY <1>0, <1>5, <2>1, <2>3, OnAdds
    <2>5. Adds(table, r.types, CastHints(First(e)) \cup RestHints(e))
        BY <2>2, <2>4, AddsMore
    <2> QED BY <1>5, <2>5, RestIs DEF r
<1>6. ASSUME r.types = table, e.kind \in {"Integer", "Float", "Identifier"}
      PROVE  Adds(table, r.types, CastHints(e))
    <2>1. CastHints(e) = {}
        BY <1>6, CastHintsAre DEF Operands
    <2> HIDE DEF r
    <2> QED BY <1>6, <2>1, AddsNothing
<1> QED BY <1>2, <1>3, <1>4, <1>5, <1>6, ExpressionForms DEF Leaves
\* A check that is Done adds pointers, and the arrays of its casts.
LEMMA ChecksAdd ==
    ASSUME NEW e \in Expressions
    PROVE  CheckAdds(e)
<1> DEFINE S == {n \in Nat : \A x \in ExpressionsBelow(n) : CheckAdds(x)}
<1>1. 0 \in S
    BY DepthAssumption DEF ExpressionsBelow
<1>2. ASSUME NEW n \in Nat, n \in S
      PROVE  n + 1 \in S
    <2>1. ASSUME NEW x \in ExpressionsBelow(n + 1)
          PROVE  CheckAdds(x)
        <3>1. x \in Expressions /\ Height[x] < n + 1
            BY DEF ExpressionsBelow
        <3>2. ASSUME NEW o \in Operands(x)
              PROVE  CheckAdds(o)
            <4>1. o \in ExpressionsBelow(n)
                BY <3>1, <3>2, HeightOfOperands DEF ExpressionsBelow
            <4> QED BY <1>2, <4>1
        <3> QED BY <3>1, <3>2, CheckAddsStep
    <2> QED BY <2>1
<1> HIDE DEF S
<1>3. Depth + 1 \in S
    BY <1>1, <1>2, SetInduction, AllBelow
<1> QED BY <1>3, AllBelow DEF S

-----------------------------------------------------------------------------
(* What is kept of the statements that were accepted.                      *)

\* A typehint was found to be an id before a table was what it is.
SeenAs(h, id, later) ==
    /\ h \in Hints
    /\ \E earlier : /\ Good(earlier) /\ IsDone(CheckHint(h, earlier)) /\ CheckHint(h, earlier).type = id
                    /\ IsPrefix(CheckHint(h, earlier).types, later)
\* A function's layout is a prototype's own, or one that goes with it; a struct's is its fields.
LaidOut(p, layout, t) ==
    /\ p.kind = "Prototype" /\ Len(p.parameters) = Len(layout.parameters)
    /\ SeenAs(p.return_type, layout.return_type, t)
    /\ \A n \in 1 .. Len(p.parameters) : SeenAs(p.parameters[n], layout.parameters[n], t)
Matches(p, layout, t) ==
    /\ layout.kind = "Function"
    /\ SeenAs(p.return_type, layout.return_type, t)
    /\ \A n \in 1 .. Len(p.parameters) : n \in DOMAIN layout.parameters =>
         SeenAs(p.parameters[n], layout.parameters[n], t)
Filled(s, layout, t) ==
    /\ layout.kind = "Struct"
    /\ \E ids \in Seq(Nat) :
         /\ Len(ids) = Len(s.fields) /\ layout.fields = FieldData(s.fields, ids)
         /\ \A g \in 1 .. Len(ids) : SeenAs(s.fields[g].typehint, ids[g], t)
Declares(s) == s.kind \in {"Prototype", "Struct"} \/ (s.kind = "Variable" /\ s.typehint # None)
Stands(s, id, t) ==
    /\ id \in DOMAIN t
    /\ s.kind = "Variable" => SeenAs(s.typehint, id, t)
    /\ s.kind = "Prototype" => Matches(s, t[id], t)
    /\ s.kind = "Struct" => Filled(s, t[id], t)
WrittenIn(s) == HintsOf(s) \cup CastsOf(s)

HintsKept(t) == \A s \in Accepted : \A h \in WrittenIn(s) : Seen(h, t)
ArraysKept(t) == \A x \in DOMAIN t : t[x].kind = "Array" => Reading(t)[x].shape \in ArraysWritten
FunctionsKept(t) == \A x \in DOMAIN t : t[x].kind = "Function" => \E p \in Accepted : LaidOut(p, t[x], t)
StructsKept(t) == \A x \in DOMAIN t : t[x].kind = "Struct" => t[x].name \in DOMAIN names
NamesKept(t) == \A s \in Accepted : Declares(s) => s.name \in DOMAIN names /\ Stands(s, names[s.name].type, t)
Keeps(t) == HintsKept(t) /\ ArraysKept(t) /\ FunctionsKept(t) /\ StructsKept(t) /\ NamesKept(t)
\* The table that the accepted statements left; one that is rejected may add to it.
Kept == \E t : /\ Good(t) /\ IsPrefix(t, types) /\ Keeps(t)
               /\ phase \in {"checking", "accepted"} => t = types

\* A typehint that was seen to be an id means what it says in the table as it is.
LEMMA SeenMeans ==
    ASSUME NEW t, Good(t), Good(types), IsPrefix(t, types), NEW h, NEW id, SeenAs(h, id, t)
    PROVE  h \in Hints /\ id \in DOMAIN t /\ Means(id, t, h)
<1>0. h \in Hints
    BY DEF SeenAs
<1>1. PICK earlier : /\ Good(earlier) /\ IsDone(CheckHint(h, earlier)) /\ CheckHint(h, earlier).type = id
                     /\ IsPrefix(CheckHint(h, earlier).types, t)
    BY DEF SeenAs
<1> DEFINE u == CheckHint(h, earlier).types
<1>2. Good(u) /\ IsPrefix(earlier, u) /\ id \in DOMAIN u
    BY <1>0, <1>1, HintIs
<1>3. IsPrefix(u, t)
    BY <1>1
<1>4. Known(earlier) => Means(id, u, h)
    BY <1>0, <1>1, HintsMean DEF HintMeans
<1> HIDE DEF u
<1>5. IsTypes(earlier) /\ IsTypes(u) /\ IsTypes(t) /\ IsTypes(types)
    BY <1>1, <1>2 DEF Good
<1>6. IsPrefix(earlier, t)
    BY <1>2, <1>3, <1>5, LaterStill
<1>7. IsPrefix(earlier, types)
    BY <1>5, <1>6, LaterStill
<1>8. Known(earlier)
    <2>1. ASSUME NEW x \in DOMAIN names
          PROVE  Reading(earlier)[names[x].type] = Reading(types)[names[x].type]
        <3>1. names[x].type \in DOMAIN earlier
            BY <1>1 DEF Good, Symbols, IsSymbol
        <3> QED BY <1>5, <1>7, <3>1, ReadingStays
    <2> QED BY <1>1, <2>1 DEF Known, Agrees
<1>9. id \in DOMAIN t /\ Reading(t)[id] = Reading(u)[id]
    BY <1>2, <1>3, <1>5, LaterTable, ReadingStays
<1>10. Differs(u, h) => Differs(t, h)
    BY <1>3, <1>5, DiffersLater
<1> QED BY <1>0, <1>4, <1>8, <1>9, <1>10 DEF Means
\* What was seen, seen from a later table.
LEMMA SeenAsLater ==
    ASSUME NEW h, NEW id, NEW table, Good(table), SeenAs(h, id, table),
           NEW later, Good(later), IsPrefix(table, later)
    PROVE  SeenAs(h, id, later)
<1>1. PICK earlier : /\ Good(earlier) /\ IsDone(CheckHint(h, earlier)) /\ CheckHint(h, earlier).type = id
                     /\ IsPrefix(CheckHint(h, earlier).types, table)
    BY DEF SeenAs
<1> DEFINE u == CheckHint(h, earlier).types
<1>2. IsTypes(u)
    BY <1>1, HintIs DEF SeenAs, Good
<1>3. IsPrefix(u, table)
    BY <1>1
<1> HIDE DEF u
<1>4. IsPrefix(u, later)
    BY <1>2, <1>3, LaterStill DEF Good
<1> QED BY <1>1, <1>4 DEF SeenAs, u
\* A typehint that is found is seen to be the id it was found to be.
LEMMA SeenAsItself ==
    ASSUME NEW h \in Hints, NEW table, Good(table), IsDone(CheckHint(h, table))
    PROVE  SeenAs(h, CheckHint(h, table).type, CheckHint(h, table).types)
<1> DEFINE u == CheckHint(h, table).types
<1>1. Good(u)
    BY HintIs
<1> HIDE DEF u
<1>2. IsPrefix(u, u)
    BY <1>1, TableIs DEF Good
<1> QED BY <1>2 DEF SeenAs, u
\* What was seen was seen as some id.
LEMMA SeenIs ==
    ASSUME NEW h, NEW t
    PROVE  Seen(h, t) <=> \E id : SeenAs(h, id, t)
BY DEF Seen, SeenAs
\* What was seen is seen after a step.
LEMMA SeenAsStays ==
    ASSUME NamesStay, NEW h, NEW id, NEW t, Good(t), SeenAs(h, id, t),
           NEW u, IsTypes(u), Good(u)', IsPrefix(t, u)
    PROVE  SeenAs(h, id, u)'
<1>0. h \in Hints
    BY DEF SeenAs
<1>1. PICK earlier : /\ Good(earlier) /\ IsDone(CheckHint(h, earlier)) /\ CheckHint(h, earlier).type = id
                     /\ IsPrefix(CheckHint(h, earlier).types, t)
    BY DEF SeenAs
<1> DEFINE w == CheckHint(h, earlier).types
<1>2. IsTypes(w) /\ IsPrefix(w, t)
    BY <1>0, <1>1, HintIs DEF Good
<1> HIDE DEF w
<1>3. IsPrefix(w, u)
    BY <1>2, LaterStill DEF Good
<1>4. CheckHint(h, u)' = Done(id, u)
    BY <1>0, <1>1, <1>3, HintFound DEF w
<1>5. IsDone(CheckHint(h, u)') /\ CheckHint(h, u)'.type = id /\ CheckHint(h, u)'.types = u
    BY <1>4, DoneAgain
<1>6. IsPrefix(u, u)
    BY TableIs
<1>7. \E x : Good(x)' /\ IsDone(CheckHint(h, x)') /\ CheckHint(h, x)'.type = id /\ IsPrefix(CheckHint(h, x)'.types, u)
    BY <1>5, <1>6
<1> QED BY <1>0, <1>7 DEF SeenAs, IsDone

-----------------------------------------------------------------------------
(* Lists of groups, put together.                                          *)

\* An element of the first n lists, and where the g-th of them starts in all of them.
FromFirst(x, seqs, n) == \E k \in 1 .. n : \E y \in 1 .. Len(seqs[k]) : x = seqs[k][y]
Starts(fs, seqs, g) ==
    \E i \in 1 .. Len(fs) : fs[i] = seqs[g][1] /\ \A j \in 1 .. i - 1 : FromFirst(fs[j], seqs, g - 1)
\* One more list, put behind the first n.
LEMMA ConcatStarts ==
    ASSUME NEW S, NEW seqs, NEW n \in Nat, NEW fs \in Seq(S), seqs[n + 1] \in Seq(S), seqs[n + 1] # <<>>,
           \A j \in 1 .. Len(fs) : FromFirst(fs[j], seqs, n),
           \A g \in 1 .. n : Starts(fs, seqs, g)
    PROVE  /\ fs \o seqs[n + 1] \in Seq(S)
           /\ \A j \in 1 .. Len(fs \o seqs[n + 1]) : FromFirst((fs \o seqs[n + 1])[j], seqs, n + 1)
           /\ \A g \in 1 .. n + 1 : Starts(fs \o seqs[n + 1], seqs, g)
<1> DEFINE s == seqs[n + 1]
           u == fs \o s
<1>1. /\ u \in Seq(S) /\ Len(u) = Len(fs) + Len(s) /\ Len(fs) \in Nat /\ Len(s) \in Nat /\ Len(s) # 0
      /\ \A j \in 1 .. Len(fs) : u[j] = fs[j]
      /\ \A j \in Len(fs) + 1 .. Len(fs) + Len(s) : u[j] = s[j - Len(fs)]
    <2>1. s \in Seq(S) /\ s # <<>>
        OBVIOUS
    <2> HIDE DEF s
    <2>2. Len(s) # 0
        BY <2>1, EmptySeq
    <2>3. /\ u \in Seq(S) /\ Len(u) = Len(fs) + Len(s)
          /\ \A j \in 1 .. Len(fs) + Len(s) : u[j] = IF j <= Len(fs) THEN fs[j] ELSE s[j - Len(fs)]
        BY <2>1, ConcatProperties
    <2>4. Len(fs) \in Nat /\ Len(s) \in Nat
        BY <2>1
    <2> HIDE DEF u
    <2> QED BY <2>2, <2>3, <2>4
<1> SUFFICES /\ \A j \in 1 .. Len(u) : FromFirst(u[j], seqs, n + 1)
             /\ \A g \in 1 .. n + 1 : Starts(u, seqs, g)
    BY <1>1
<1>2. \A j \in 1 .. Len(fs) + Len(s) : j \in 1 .. Len(fs) \/ j \in Len(fs) + 1 .. Len(fs) + Len(s)
    BY <1>1
<1>3. \A j \in Len(fs) + 1 .. Len(fs) + Len(s) : j - Len(fs) \in 1 .. Len(s)
    BY <1>1
<1> HIDE DEF u
<1>4. ASSUME NEW x, FromFirst(x, seqs, n)
      PROVE  FromFirst(x, seqs, n + 1)
    <2>1. 1 .. n \subseteq 1 .. n + 1
        OBVIOUS
    <2> QED BY <1>4, <2>1 DEF FromFirst
<1>5. ASSUME NEW j \in 1 .. Len(u)
      PROVE  FromFirst(u[j], seqs, n + 1)
    <2>1. CASE j \in 1 .. Len(fs)
        BY <1>1, <1>4, <2>1
    <2>2. CASE j \in Len(fs) + 1 .. Len(fs) + Len(s)
        <3>1. u[j] = s[j - Len(fs)] /\ j - Len(fs) \in 1 .. Len(s) /\ n + 1 \in 1 .. n + 1
            BY <1>1, <1>3, <2>2
        <3> QED BY <3>1 DEF FromFirst
    <2> QED BY <1>1, <1>2, <2>1, <2>2
<1>6. ASSUME NEW g \in 1 .. n
      PROVE  Starts(u, seqs, g)
    <2>1. PICK i \in 1 .. Len(fs) : fs[i] = seqs[g][1] /\ \A j \in 1 .. i - 1 : FromFirst(fs[j], seqs, g - 1)
        BY <1>6 DEF Starts
    <2>2. i \in 1 .. Len(u) /\ u[i] = fs[i] /\ \A j \in 1 .. i - 1 : u[j] = fs[j]
        BY <1>1
    <2> QED BY <2>1, <2>2 DEF Starts
<1>7. Starts(u, seqs, n + 1)
    <2> DEFINE i == Len(fs) + 1
    <2>1. i \in 1 .. Len(u) /\ i \in Len(fs) + 1 .. Len(fs) + Len(s) /\ i - Len(fs) = 1 /\ i - 1 = Len(fs)
        BY <1>1
    <2>2. u[i] = s[1]
        BY <1>1, <2>1
    <2>3. \A j \in 1 .. i - 1 : FromFirst(u[j], seqs, n)
        BY <1>1, <2>1
    <2>4. (n + 1) - 1 = n
        OBVIOUS
    <2> HIDE DEF i
    <2> QED BY <2>1, <2>2, <2>3, <2>4 DEF Starts
<1>8. \A g \in 1 .. n + 1 : g \in 1 .. n \/ g = n + 1
    OBVIOUS
<1> QED BY <1>5, <1>6, <1>7, <1>8
\* In lists put together, each begins behind elements of those before it.
LEMMA FlattenStarts ==
    ASSUME NEW S, NEW seqs \in Seq(Seq(S)), \A k \in 1 .. Len(seqs) : seqs[k] # <<>>,
           NEW g \in 1 .. Len(seqs)
    PROVE  Starts(FlattenSeq(seqs), seqs, g)
<1> DEFINE m == Len(seqs)
<1>1. m \in Nat /\ m # 0 /\ g \in 1 .. m /\ \A k \in 1 .. m : seqs[k] \in Seq(S) /\ seqs[k] # <<>>
    OBVIOUS
<1>2. PICK f : Flattens(f, seqs, m) /\ FlattenSeq(seqs) = f[m]
    BY <1>1, FlattenIs
<1> HIDE DEF m
<1>3. \A i \in 1 .. m : f[i] = IF i = 1 THEN seqs[i] ELSE f[i - 1] \o seqs[i]
    BY <1>2 DEF Flattens
<1> DEFINE P(n) == /\ f[n] \in Seq(S)
                   /\ \A j \in 1 .. Len(f[n]) : FromFirst(f[n][j], seqs, n)
                   /\ \A k \in 1 .. n : Starts(f[n], seqs, k)
           T == {n \in Nat : n \in 1 .. m => P(n)}
<1>4. 0 \in T
    OBVIOUS
<1>5. ASSUME NEW n \in Nat, n \in T
      PROVE  n + 1 \in T
    <2> SUFFICES ASSUME n + 1 \in 1 .. m
                 PROVE  P(n + 1)
        OBVIOUS
    <2>1. CASE n = 0
        <3>1. f[1] = seqs[1] /\ seqs[1] \in Seq(S) /\ seqs[1] # <<>> /\ n + 1 = 1
            BY <1>1, <1>3, <2>1
        <3> DEFINE s == seqs[1]
        <3>2. s \in Seq(S) /\ s # <<>>
            BY <3>1
        <3> HIDE DEF s
        <3>3. Len(s) \in Nat /\ Len(s) # 0
            BY <3>2, EmptySeq
        <3>4. \A j \in 1 .. Len(s) : FromFirst(s[j], seqs, 1)
            BY DEF FromFirst, s
        <3>5. Starts(s, seqs, 1)
            <4>1. 1 \in 1 .. Len(s) /\ 1 .. 1 - 1 = {}
                BY <3>3
            <4> QED BY <4>1 DEF Starts, s
        <3>6. \A k \in 1 .. 1 : k = 1
            OBVIOUS
        <3> QED BY <3>1, <3>2, <3>4, <3>5, <3>6 DEF s
    <2>2. CASE n # 0
        <3>1. n \in 1 .. m /\ n + 1 # 1 /\ (n + 1) - 1 = n
            BY <1>1, <2>2
        <3>2. P(n)
            BY <1>5, <3>1
        <3>3. f[n + 1] = f[n] \o seqs[n + 1] /\ seqs[n + 1] \in Seq(S) /\ seqs[n + 1] # <<>>
            BY <1>1, <1>3, <3>1
        <3> QED BY <3>2, <3>3, ConcatStarts
    <2> QED BY <2>1, <2>2
<1> HIDE DEF T, P
<1>6. m \in T
    BY <1>1, <1>4, <1>5, SetInduction
<1>7. m \in 1 .. m
    BY <1>1
<1> QED BY <1>1, <1>2, <1>6, <1>7 DEF T, P

-----------------------------------------------------------------------------
(* What must hold of the names follows from what is kept.                  *)

\* An array of the table that a typehint of an accepted statement does not have is one more.
LEMMA MixedIs ==
    ASSUME NEW t, ArraysKept(t), NEW s \in Accepted, NEW h \in WrittenIn(s), Differs(t, h)
    PROVE  ArraysMixed(h)
<1>1. PICK x \in DOMAIN t, a \in Said[h].arrays : t[x].kind = "Array" /\ Reading(t)[x].shape # a
    BY DEF Differs
<1>2. Said[h].arrays \subseteq ArraysWritten
    BY DEF ArraysWritten, WrittenIn, ArraysIn
<1>3. Reading(t)[x].shape \in ArraysWritten
    BY <1>1 DEF ArraysKept
<1> QED BY <1>1, <1>2, <1>3 DEF ArraysMixed, ArraysIn
\* An id that was found for a typehint of an accepted statement is what that says.
LEMMA HintSays ==
    ASSUME NEW t, Good(t), Good(types), IsPrefix(t, types), ArraysKept(t),
           NEW s \in Accepted, NEW h \in WrittenIn(s), NEW id, SeenAs(h, id, t)
    PROVE  /\ id \in DOMAIN t /\ Shape(id) = Reading(t)[id].shape
           /\ Shape(id) = Meant(h) \/ ArraysMixed(h)
           /\ Reading(t)[id].arrays = {} <=> ArraysIn(h) = {}
<1>1. id \in DOMAIN t /\ Means(id, t, h)
    BY SeenMeans
<1>2. Reading(types)[id] = Reading(t)[id]
    BY <1>1, ReadingStays DEF Good
<1>3. Differs(t, h) => ArraysMixed(h)
    BY MixedIs
<1> QED BY <1>1, <1>2, <1>3 DEF Means, Shape, Meant, ArraysIn
\* Two of them that were found to be one id say the same.
LEMMA HintsSayTheSame ==
    ASSUME NEW t, Good(t), Good(types), IsPrefix(t, types), ArraysKept(t),
           NEW s \in Accepted, NEW h \in WrittenIn(s), ~ArraysMixed(h),
           NEW p \in Accepted, NEW g \in WrittenIn(p), NEW id, SeenAs(h, id, t), SeenAs(g, id, t)
    PROVE  Meant(g) = Meant(h)
<1>1. Shape(id) = Meant(h)
    BY HintSays
<1>2. Shape(id) = Meant(g) \/ ArraysMixed(g)
    BY HintSays
<1>3. ArraysIn(g) = {} <=> ArraysIn(h) = {}
    BY HintSays
<1>4. ~ArraysMixed(g)
    BY <1>3 DEF ArraysMixed
<1> QED BY <1>1, <1>2, <1>4
\* The function type of a prototype is what the prototype says.
LEMMA PrototypeMeans ==
    ASSUME NEW t, Good(t), Good(types), IsPrefix(t, types), Keeps(t), Accepted \subseteq Statements,
           NEW s \in Accepted, s.kind = "Prototype", \A h \in HintsOf(s) : ~ArraysMixed(h)
    PROVE  \/ Shape(names[s.name].type) = MeantOf(s)
           \/ \E other \in Accepted : other.kind = "Prototype" /\ Extends(s, other)
<1> DEFINE id == names[s.name].type
           layout == t[id]
           ids == layout.parameters
<1>1. id \in DOMAIN t /\ Matches(s, layout, t)
    BY DEF Keeps, NamesKept, Declares, Stands
<1>2. PICK p \in Accepted : LaidOut(p, layout, t)
    BY <1>1 DEF Keeps, FunctionsKept, Matches
<1>3. IsTypes(t) /\ IsTypes(types) /\ ArraysKept(t)
    BY DEF Good, Keeps
<1>4. Shape(id) = [kind |-> "Function", parameters |-> [n \in DOMAIN ids |-> Reading(t)[ids[n]].shape],
                   result |-> Reading(t)[layout.return_type].shape]
    <2>1. Reading(types)[id] = Reading(t)[id]
        BY <1>1, <1>3, ReadingStays
    <2>2. Reading(t)[id] = ReadBy(Reading(t), layout)
        BY <1>1, <1>3, ReadingIs
    <2>3. layout.kind = "Function"
        BY <1>1 DEF Matches
    <2> HIDE DEF id, layout, ids
    <2> QED BY <2>1, <2>2, <2>3 DEF Shape, ReadBy, Written, ids
<1>5. /\ s.parameters \in Seq(Hints) /\ s.return_type \in Hints
      /\ p.kind = "Prototype" /\ p.parameters \in Seq(Hints) /\ p.return_type \in Hints
    BY <1>2, StatementForms DEF LaidOut
<1>6. ids \in Seq(Nat)
    <2>1. layout \in Layouts /\ layout.kind = "Function"
        BY <1>1, <1>3, LayoutIs DEF Matches
    <2> HIDE DEF layout
    <2> QED BY <2>1 DEF Layouts
<1> DEFINE a == s.parameters
           b == p.parameters
<1>7. /\ Len(ids) \in Nat /\ DOMAIN ids = 1 .. Len(ids) /\ Len(a) \in Nat /\ DOMAIN a = 1 .. Len(a)
      /\ Len(b) = Len(ids) /\ DOMAIN b = 1 .. Len(b)
    BY <1>2, <1>5, <1>6 DEF LaidOut
<1>8. /\ \A n \in 1 .. Len(a) : a[n] \in HintsOf(s) /\ a[n] \in WrittenIn(s)
      /\ \A n \in 1 .. Len(b) : b[n] \in WrittenIn(p)
      /\ s.return_type \in HintsOf(s) /\ s.return_type \in WrittenIn(s) /\ p.return_type \in WrittenIn(p)
    BY <1>5, <1>7 DEF HintsOf, WrittenIn, ToSet
<1>9. ASSUME NEW n \in 1 .. Len(a), n \in 1 .. Len(b)
      PROVE  Reading(t)[ids[n]].shape = Meant(a[n]) /\ Meant(b[n]) = Meant(a[n])
    <2>1. SeenAs(a[n], ids[n], t) /\ SeenAs(b[n], ids[n], t)
        BY <1>1, <1>2, <1>7, <1>9 DEF Matches, LaidOut
    <2> DEFINE i == ids[n]
               h == a[n]
               g == b[n]
    <2>2. h \in WrittenIn(s) /\ ~ArraysMixed(h) /\ g \in WrittenIn(p)
        BY <1>8, <1>9
    <2>3. SeenAs(h, i, t) /\ SeenAs(g, i, t)
        BY <2>1
    <2> HIDE DEF i, h, g
    <2>4. Shape(i) = Reading(t)[i].shape /\ Shape(i) = Meant(h)
        BY <1>3, <2>2, <2>3, HintSays
    <2>5. Meant(g) = Meant(h)
        BY <1>3, <2>2, <2>3, HintsSayTheSame
    <2> QED BY <2>4, <2>5 DEF i, h, g
<1>10. Reading(t)[layout.return_type].shape = Meant(s.return_type) /\ Meant(p.return_type) = Meant(s.return_type)
    <2> DEFINE i == layout.return_type
               h == s.return_type
               g == p.return_type
    <2>2. h \in WrittenIn(s) /\ ~ArraysMixed(h) /\ g \in WrittenIn(p)
        BY <1>8
    <2>3. SeenAs(h, i, t) /\ SeenAs(g, i, t)
        BY <1>1, <1>2 DEF Matches, LaidOut
    <2> HIDE DEF i, h, g
    <2>4. Shape(i) = Reading(t)[i].shape /\ Shape(i) = Meant(h)
        BY <1>3, <2>2, <2>3, HintSays
    <2>5. Meant(g) = Meant(h)
        BY <1>3, <2>2, <2>3, HintsSayTheSame
    <2> QED BY <2>4, <2>5 DEF i, h, g
<1> HIDE DEF id, layout, ids
<1>11. CASE Len(a) = Len(b)
    <2>1. [n \in DOMAIN ids |-> Reading(t)[ids[n]].shape] = [n \in DOMAIN a |-> Meant(a[n])]
        BY <1>7, <1>9, <1>11
    <2> QED BY <1>4, <1>10, <2>1 DEF MeantOf, id
<1>12. CASE Len(a) # Len(b)
    <2> DEFINE f == [n \in DOMAIN a |-> Meant(a[n])]
               g == [n \in DOMAIN b |-> Meant(b[n])]
               S == {Meant(h) : h \in Hints}
    <2>1. f \in Seq(S) /\ g \in Seq(S) /\ Len(f) = Len(a) /\ Len(g) = Len(b)
        <3>1. \A n \in 1 .. Len(a) : Meant(a[n]) \in S
            BY <1>5
        <3>2. \A n \in 1 .. Len(b) : Meant(b[n]) \in S
            BY <1>5
        <3> HIDE DEF S
        <3> QED BY <1>7, <3>1, <3>2
    <2>2. \A n \in 1 .. Len(f) : n \in 1 .. Len(g) => f[n] = g[n]
        <3> HIDE DEF S
        <3> QED BY <1>7, <1>9, <2>1
    <2> DEFINE u == MeantOf(s)
               v == MeantOf(p)
    <2>3. u.parameters = f /\ v.parameters = g /\ u.result = v.result
        BY <1>10 DEF MeantOf
    <2> HIDE DEF f, g, S, a, b, u, v
    <2>4. IsPrefix(f, g) \/ IsPrefix(g, f)
        <3>1. Len(f) \in Nat /\ Len(g) \in Nat
            BY <1>7, <2>1
        <3>2. CASE Len(f) <= Len(g)
            <4>1. \A n \in 1 .. Len(f) : f[n] = g[n]
                BY <2>2, <3>1, <3>2
            <4> QED BY <2>1, <3>2, <4>1, PrefixIs
        <3>3. CASE Len(g) <= Len(f)
            <4>1. \A n \in 1 .. Len(g) : g[n] = f[n]
                BY <2>2, <3>1, <3>3
            <4> QED BY <2>1, <3>3, <4>1, PrefixIs
        <3> QED BY <3>1, <3>2, <3>3
    <2>5. f # g
        BY <1>12, <2>1
    <2>6. u # v
        BY <2>3, <2>5
    <2>7. Extends(s, p)
        BY <2>3, <2>4, <2>6 DEF Extends, u, v
    <2> QED BY <1>5, <2>7
<1> QED BY <1>11, <1>12
\* The member that is found under a group's first name, new there, is the group's.
FieldGroups == Seq([names : Seq(STRING) \ {<<>>}, typehint : Hints])
\* The first name of a group finds a member of the type of that group, unless an earlier group begins with it.
LEMMA FieldFound ==
    ASSUME NEW groups \in FieldGroups, NEW ids \in Seq(Nat), Len(ids) = Len(groups),
           NEW g \in 1 .. Len(groups), \A k \in 1 .. g - 1 : groups[k].names[1] # groups[g].names[1]
    PROVE  FieldOf(FieldData(groups, ids), groups[g].names[1]).type = ids[g]
<1> DEFINE F == [name : STRING, type : Nat]
           list(k) == [n \in DOMAIN groups[k].names |-> [name |-> groups[k].names[1], type |-> ids[k]]]
           seqs == [k \in DOMAIN groups |-> list(k)]
           fs == FieldData(groups, ids)
           first == groups[g].names[1]
<1>1. Len(groups) \in Nat /\ DOMAIN groups = 1 .. Len(groups)
    BY DEF FieldGroups
<1>2. ASSUME NEW k \in 1 .. Len(groups)
      PROVE  /\ list(k) \in Seq(F) /\ list(k) # <<>>
             /\ \A n \in 1 .. Len(list(k)) : list(k)[n] = [name |-> groups[k].names[1], type |-> ids[k]]
    <2>1. groups[k] \in [names : Seq(STRING) \ {<<>>}, typehint : Hints] /\ ids[k] \in Nat
        BY <1>2, ElementOfSeq DEF FieldGroups
    <2> DEFINE ns == groups[k].names
               id == ids[k]
               x == [name |-> ns[1], type |-> id]
    <2> HIDE DEF ns, id
    <2>2. ns \in Seq(STRING) /\ ns # <<>> /\ id \in Nat
        BY <2>1 DEF ns, id
    <2>3. DOMAIN ns = 1 .. Len(ns) /\ Len(ns) \in Nat /\ Len(ns) # 0
        BY <2>2, EmptySeq
    <2>4. ns[1] \in STRING
        BY <2>2, <2>3
    <2>5. x \in F
        BY <2>2, <2>4
    <2> HIDE DEF F, x
    <2> DEFINE q == [n \in 1 .. Len(ns) |-> x]
    <2>6. q \in Seq(F) /\ Len(q) = Len(ns) /\ \A n \in 1 .. Len(q) : q[n] = x
        BY <2>3, <2>5
    <2> HIDE DEF q
    <2>7. q # <<>>
        BY <2>3, <2>6
    <2>8. list(k) = q
        BY <2>3 DEF q, x, ns, id
    <2> QED BY <2>6, <2>7, <2>8 DEF x, ns, id
<1> HIDE DEF list, F
<1>3. seqs \in Seq(Seq(F)) /\ Len(seqs) = Len(groups) /\ \A k \in 1 .. Len(seqs) : seqs[k] # <<>> /\ seqs[k] = list(k)
    <2> DEFINE Q == Seq(F)
    <2>1. \A k \in 1 .. Len(groups) : list(k) \in Q /\ list(k) # <<>>
        BY <1>2
    <2> HIDE DEF Q
    <2>2. seqs = [k \in 1 .. Len(groups) |-> list(k)]
        BY <1>1
    <2> HIDE DEF seqs
    <2>3. seqs \in Seq(Q) /\ Len(seqs) = Len(groups) /\ \A k \in 1 .. Len(groups) : seqs[k] = list(k)
        BY <1>1, <2>1, <2>2
    <2> QED BY <2>1, <2>3 DEF Q
<1>4. fs = FlattenSeq(seqs)
    BY DEF FieldData, fs, seqs, list
<1> HIDE DEF seqs, fs
<1>5. fs \in Seq(F) /\ Starts(fs, seqs, g)
    BY <1>3, <1>4, FlattenType, FlattenStarts
<1>6. Len(fs) \in Nat /\ DOMAIN fs = 1 .. Len(fs)
    BY <1>5
<1>7. PICK i \in 1 .. Len(fs) : fs[i] = seqs[g][1] /\ \A j \in 1 .. i - 1 : FromFirst(fs[j], seqs, g - 1)
    BY <1>5 DEF Starts
<1>8. fs[i].name = first /\ fs[i].type = ids[g]
    <2>1. list(g) \in Seq(F) /\ list(g) # <<>>
        BY <1>2
    <2> DEFINE q == list(g)
    <2>2. q \in Seq(F) /\ q # <<>>
        BY <2>1
    <2> HIDE DEF q
    <2>3. 1 \in 1 .. Len(q)
        BY <2>2, EmptySeq
    <2>4. seqs[g][1] = [name |-> first, type |-> ids[g]]
        BY <1>2, <1>3, <2>3 DEF q
    <2> QED BY <1>7, <2>4
<1>9. ASSUME NEW j \in 1 .. i - 1
      PROVE  fs[j].name # first
    <2>1. PICK k \in 1 .. g - 1 : \E y \in 1 .. Len(seqs[k]) : fs[j] = seqs[k][y]
        BY <1>7, <1>9 DEF FromFirst
    <2>2. k \in 1 .. Len(groups)
        BY <1>1
    <2>3. fs[j] = [name |-> groups[k].names[1], type |-> ids[k]]
        BY <1>2, <1>3, <2>1, <2>2
    <2> QED BY <2>3
<1> DEFINE T == {j \in DOMAIN fs : fs[j].name = first}
<1>10. T \subseteq Nat /\ i \in T
    BY <1>6, <1>7, <1>8
<1>11. Min(T) \in T /\ \A y \in T : Min(T) <= y
    BY <1>10, LeastOf
<1>12. Min(T) = i
    <2>1. Min(T) \in 1 .. Len(fs) /\ Min(T) <= i /\ fs[Min(T)].name = first
        BY <1>6, <1>10, <1>11
    <2> HIDE DEF T
    <2>2. ~(Min(T) \in 1 .. i - 1)
        BY <1>9, <2>1
    <2> QED BY <1>6, <2>1, <2>2
<1>13. FieldOf(fs, first) = fs[i]
    BY <1>12 DEF FieldOf
<1> QED BY <1>8, <1>13 DEF fs
\* The member of a struct is what its typehint says.
LEMMA StructMeans ==
    ASSUME NEW t, Good(t), Good(types), IsPrefix(t, types), Keeps(t), Accepted \subseteq Statements,
           NEW s \in Accepted, s.kind = "Struct", NEW g \in DOMAIN s.fields,
           \A k \in 1 .. g - 1 : s.fields[k].names[1] # s.fields[g].names[1]
    PROVE  LET h == s.fields[g].typehint
               first == s.fields[g].names[1]
           IN  Shape(FieldOf(types[names[s.name].type].fields, first).type) = Meant(h) \/ ArraysMixed(h)
<1> DEFINE id == names[s.name].type
           h == s.fields[g].typehint
           first == s.fields[g].names[1]
<1>1. id \in DOMAIN t /\ Filled(s, t[id], t)
    BY DEF Keeps, NamesKept, Declares, Stands
<1>2. types[id] = t[id]
    BY <1>1, LaterTable DEF Good
<1>3. PICK ids \in Seq(Nat) : /\ Len(ids) = Len(s.fields) /\ t[id].fields = FieldData(s.fields, ids)
                              /\ \A k \in 1 .. Len(ids) : SeenAs(s.fields[k].typehint, ids[k], t)
    BY <1>1 DEF Filled
<1> DEFINE groups == s.fields
<1>4. groups \in FieldGroups /\ DOMAIN groups = 1 .. Len(groups)
    <2>1. groups \in FieldGroups
        BY StatementForms DEF FieldGroups
    <2> HIDE DEF groups
    <2> QED BY <2>1 DEF FieldGroups
<1>5. FieldOf(t[id].fields, first).type = ids[g]
    <2>1. \A k \in 1 .. g - 1 : groups[k].names[1] # groups[g].names[1]
        OBVIOUS
    <2>2. g \in 1 .. Len(groups) /\ Len(ids) = Len(groups)
        BY <1>3, <1>4
    <2>3. t[id].fields = FieldData(groups, ids) /\ first = groups[g].names[1]
        BY <1>3
    <2> HIDE DEF groups, id, first
    <2>4. FieldOf(FieldData(groups, ids), groups[g].names[1]).type = ids[g]
        BY <1>4, <2>1, <2>2, FieldFound
    <2> QED BY <2>3, <2>4
<1>6. SeenAs(h, ids[g], t)
    BY <1>3, <1>4
<1>7. h \in WrittenIn(s)
    <2>1. s.fields[g] \in ToSet(s.fields)
        BY DEF ToSet
    <2> QED BY <2>1 DEF WrittenIn, HintsOf
<1> HIDE DEF id, h, first
<1>8. Shape(ids[g]) = Meant(h) \/ ArraysMixed(h)
    BY <1>6, <1>7, HintSays DEF Keeps
<1> QED BY <1>2, <1>5, <1>8 DEF id, h, first
\* What is kept is what must hold of the names.
LEMMA NamesMean ==
    ASSUME TypeOK, Kept
    PROVE  NamesKeepTheirType
<1>1. PICK t : Good(t) /\ IsPrefix(t, types) /\ Keeps(t)
    BY DEF Kept
<1>2. Good(types) /\ Accepted \subseteq Statements
    BY AcceptedAre DEF TypeOK, Good, IsTypes, Symbols
<1>3. ASSUME NEW s \in Accepted, s.kind = "Variable", s.typehint # None
      PROVE  Shape(names[s.name].type) = Meant(s.typehint) \/ ArraysMixed(s.typehint)
    <2>1. SeenAs(s.typehint, names[s.name].type, t)
        BY <1>1, <1>3 DEF Keeps, NamesKept, Declares, Stands
    <2>2. s.typehint \in WrittenIn(s)
        BY <1>3 DEF WrittenIn, HintsOf
    <2> QED BY <1>1, <1>2, <2>1, <2>2, HintSays DEF Keeps
<1>4. ASSUME NEW s \in Accepted, s.kind = "Prototype"
      PROVE  \/ Shape(names[s.name].type) = MeantOf(s)
             \/ \E h \in HintsOf(s) : ArraysMixed(h)
             \/ \E other \in Accepted : other.kind = "Prototype" /\ Extends(s, other)
    BY <1>1, <1>2, <1>4, PrototypeMeans
<1>5. ASSUME NEW s \in Accepted, s.kind = "Struct", NEW g \in DOMAIN s.fields
      PROVE  LET h == s.fields[g].typehint
                 first == s.fields[g].names[1]
                 earlier == \E k \in 1 .. g - 1 : s.fields[k].names[1] = first
             IN  Shape(FieldOf(types[names[s.name].type].fields, first).type) = Meant(h)
                   \/ earlier \/ ArraysMixed(h)
    BY <1>1, <1>2, <1>5, StructMeans
<1> QED BY <1>3, <1>4, <1>5 DEF NamesKeepTheirType

-----------------------------------------------------------------------------
(* What a statement brings.                                                *)

Statuses == {"Done", "Failed", "Aborted", "Crashed"}
\* The types that a statement that is Done adds, and what its name is made.
NewTypes(s, later) ==
    \A x \in DOMAIN later : x \notin DOMAIN types =>
        \/ later[x].kind = "Pointer"
        \/ later[x].kind = "Array" /\ \E h \in WrittenIn(s) : Reading(later)[x].shape \in Said[h].arrays
        \/ later[x].kind = "Function" /\ LaidOut(s, later[x], later)
        \/ later[x].kind = "Struct" /\ s.kind = "Struct" /\ later[x].name = s.name
Brings(s, later) ==
    /\ Good(later) /\ IsPrefix(types, later)
    /\ \A h \in WrittenIn(s) : Seen(h, later)
    /\ NewTypes(s, later)
\* x is the only struct that is added.
OnlyStruct(x, later) == \A y \in DOMAIN later : y \notin DOMAIN types /\ later[y].kind = "Struct" => y = x
Declared(s, r, declared) ==
    /\ Brings(s, r.types)
    /\ Declares(s) => DOMAIN declared = {s.name} /\ Stands(s, declared[s.name].type, r.types)
    /\ s.kind = "Struct" => OnlyStruct(declared[s.name].type, r.types)
Concludes(s, r, declared) ==
    /\ Conclude(s, r, declared)
    /\ r.status \in Statuses
    /\ IsDone(r) => Declared(s, r, declared)

\* The table as it is agrees with itself.
LEMMA TypesKnown ==
    ASSUME Good(types)
    PROVE  Known(types)
BY DEF Known, Agrees
\* What only checks of typehints and expressions add may be brought.
LEMMA AddsBrings ==
    ASSUME NEW s, NEW later, Adds(types, later, WrittenIn(s))
    PROVE  Brings(s, later)
BY DEF Adds, NewOnes, Known, Brings, NewTypes
\* The casts of a statement are those of its one expression.
LEMMA CastsAre ==
    ASSUME NEW s
    PROVE  /\ \A e : ExpressionsOf(s) = {e} => CastsOf(s) = CastHints(e)
           /\ ExpressionsOf(s) = {} => CastsOf(s) = {}
BY DEF CastsOf, PartsOf, CastHints
\* Neither a new name nor a value adds to what was found.
LEMMA FreshIs ==
    ASSUME NEW s, NEW r, r.status \in Statuses
    PROVE  /\ Fresh(s, r).status \in Statuses
           /\ IsDone(Fresh(s, r)) => Fresh(s, r) = r /\ IsDone(r) /\ s.name \notin DOMAIN names
BY DEF Fresh, Failed, Stop, Result, IsDone, Statuses
LEMMA ValuedIs ==
    ASSUME NEW s, NEW r, r.status \in Statuses
    PROVE  /\ Valued(s, r).status \in Statuses
           /\ IsDone(Valued(s, r)) => Valued(s, r) = r /\ IsDone(r)
BY DEF Valued, Stop, Result, IsDone, Statuses
\* Each check comes to one of the four statuses.
LEMMA CheckStatus ==
    ASSUME NEW e \in Expressions, NEW table, Good(table), NEW c \in 0 .. Len(table)
    PROVE  Check(e, c, table).status \in Statuses
<1>1. Sound(CheckTree[e][c][table], table)
    BY ChecksAreSound DEF Sounds
<1> QED BY <1>1 DEF Sound, Results, Statuses, Check
LEMMA ResolveStatus ==
    ASSUME NEW h \in Hints, NEW table, Good(table)
    PROVE  Resolve(h, table).status \in Statuses
BY ResolveIsSound DEF Good, Resolves, Statuses
\* No context is a context.
LEMMA NoContextIs ==
    ASSUME NEW table, Good(table)
    PROVE  NoContext \in 0 .. Len(table)
BY TableIs DEF Good, NoContext
\* The one expression of a statement is checked over the table its typehints left.
LEMMA ExpressionAdds ==
    ASSUME Good(types), NEW s, NEW e \in Expressions, ExpressionsOf(s) = {e},
           NEW table, Adds(types, table, HintsOf(s)), NEW c \in 0 .. Len(table), IsDone(Check(e, c, table))
    PROVE  Brings(s, Check(e, c, table).types) /\ IsPrefix(table, Check(e, c, table).types)
<1> DEFINE v == Check(e, c, table)
           u == v.types
<1>1. v = CheckTree[e][c][table]
    BY DEF Check
<1>2. Known(table)
    BY DEF Adds
<1>3. Adds(table, u, CastHints(e))
    BY <1>1, <1>2, ChecksAdd DEF CheckAdds, AddsAlways
<1> HIDE DEF u
<1>4. Adds(types, u, WrittenIn(s))
    <2>1. WrittenIn(s) = HintsOf(s) \cup CastHints(e)
        BY CastsAre DEF WrittenIn
    <2> QED BY <1>3, <2>1, AddsMore
<1>5. Brings(s, u) /\ IsPrefix(table, u)
    BY <1>3, <1>4, AddsBrings DEF Adds
<1> QED BY <1>5 DEF u
\* What a typehint of a statement adds, and what it is seen as.
LEMMA ResolveAdds ==
    ASSUME NEW h \in Hints, NEW table, Known(table), IsDone(Resolve(h, table))
    PROVE  LET r == Resolve(h, table)
           IN  /\ Adds(table, r.types, {h}) /\ SeenAs(h, r.type, r.types) /\ Good(r.types)
               /\ r.type \in DOMAIN r.types /\ r.type \in 0 .. Len(r.types)
<1> DEFINE r == Resolve(h, table)
<1>1. r = CheckHint(h, table) /\ IsDone(r)
    BY ResolvedIsChecked DEF Known
<1> HIDE DEF r
<1>2. Adds(table, r.types, {h})
    BY <1>1, HintsMean DEF HintMeans
<1>3. Good(r.types) /\ r.type \in DOMAIN r.types
    BY <1>1, HintIs DEF Known
<1>4. SeenAs(h, r.type, r.types)
    BY <1>1, SeenAsItself DEF Known
<1>5. r.type \in 0 .. Len(r.types)
    <2>1. Len(r.types) \in Nat /\ DOMAIN r.types = 1 .. Len(r.types)
        BY <1>3, TableIs DEF Good
    <2> QED BY <1>3, <2>1
<1> QED BY <1>2, <1>3, <1>4, <1>5 DEF r

\* What each kind of statement brings, beginning with a variable with a typehint.
LEMMA TypedVariableBrings ==
    ASSUME NEW s \in Statements, Good(types), CheckTypedVariable(s)
    PROVE  \E r, declared : Concludes(s, r, declared)
<1> DEFINE h == Resolve(s.typehint, types)
           v == Check(s.initializer, h.type, h.types)
           r == CASE ~IsDone(h) \/ s.initializer = None -> h
                  [] IsDone(h) /\ s.initializer # None /\ ~IsDone(v) -> v
                  [] OTHER -> IF TryCoerce(h.type, v.type, v.types, TRUE)
                              THEN Done(h.type, v.types) ELSE Failed(v.types)
           f == Fresh(s, Valued(s, r))
           declared == Named(s, "Variable", r.type)
<1>1. /\ s.kind = "Variable" /\ s.typehint \in Hints /\ s.typehint # None
      /\ s.initializer \in Expressions \cup {None}
    BY StatementForms DEF CheckTypedVariable
<1>2. Conclude(s, f, declared)
    BY DEF CheckTypedVariable
<1>3. HintsOf(s) = {s.typehint} /\ ExpressionsOf(s) = {s.initializer} \ {None} /\ Declares(s)
    BY <1>1 DEF HintsOf, ExpressionsOf, Declares
<1>4. h.status \in Statuses
    BY <1>1, ResolveStatus
<1>5. IsDone(h) => /\ Adds(types, h.types, {s.typehint}) /\ SeenAs(s.typehint, h.type, h.types) /\ Good(h.types)
                   /\ h.type \in DOMAIN h.types /\ h.type \in 0 .. Len(h.types)
    BY <1>1, TypesKnown, ResolveAdds
<1> HIDE DEF h
<1>6. IsDone(h) /\ s.initializer # None => v.status \in Statuses
    BY <1>1, <1>5, CheckStatus
<1>7. IsDone(h) /\ s.initializer # None /\ IsDone(v) => Brings(s, v.types) /\ IsPrefix(h.types, v.types)
    <2> SUFFICES ASSUME IsDone(h), s.initializer # None, IsDone(v)
                 PROVE  Brings(s, v.types) /\ IsPrefix(h.types, v.types)
        OBVIOUS
    <2>1. s.initializer \in Expressions /\ ExpressionsOf(s) = {s.initializer}
        BY <1>1, <1>3
    <2> QED BY <1>3, <1>5, <2>1, ExpressionAdds
<1> HIDE DEF v
<1>8. r.status \in Statuses /\ (IsDone(r) => Brings(s, r.types) /\ Stands(s, r.type, r.types))
    <2>1. CASE ~IsDone(h)
        BY <1>4, <2>1
    <2>2. CASE IsDone(h) /\ s.initializer = None
        <3>1. r = h
            BY <2>2
        <3> HIDE DEF r
        <3>2. WrittenIn(s) = {s.typehint}
            BY <1>3, <2>2, CastsAre DEF WrittenIn
        <3>3. Brings(s, h.types)
            BY <1>5, <2>2, <3>2, AddsBrings
        <3> QED BY <1>1, <1>4, <1>5, <2>2, <3>1, <3>3 DEF Stands
    <2>3. CASE IsDone(h) /\ s.initializer # None /\ ~IsDone(v)
        BY <1>6, <2>3
    <2>4. CASE IsDone(h) /\ s.initializer # None /\ IsDone(v)
        <3>1. r \in {Done(h.type, v.types), Failed(v.types)}
            BY <2>4
        <3> HIDE DEF r
        <3>2. r.status \in Statuses /\ (IsDone(r) => r = Done(h.type, v.types))
            BY <3>1 DEF Done, Failed, Stop, Result, IsDone, Statuses
        <3>3. IsDone(r) => r.type = h.type /\ r.types = v.types
            BY <3>2, DoneAgain
        <3>4. Brings(s, v.types) /\ IsPrefix(h.types, v.types) /\ Good(v.types)
            BY <1>7, <2>4 DEF Brings
        <3>5. SeenAs(s.typehint, h.type, v.types) /\ h.type \in DOMAIN v.types
            BY <1>5, <2>4, <3>4, SeenAsLater, LaterTable DEF Good
        <3> QED BY <1>1, <3>2, <3>3, <3>4, <3>5 DEF Stands
    <2> QED BY <2>1, <2>2, <2>3, <2>4
<1> HIDE DEF r
<1>9. f.status \in Statuses /\ (IsDone(f) => f = r /\ IsDone(r))
    BY <1>8, FreshIs, ValuedIs
<1>10. DOMAIN declared = {s.name} /\ declared[s.name].type = r.type
    BY DEF Named
<1> HIDE DEF f, declared
<1>11. Concludes(s, f, declared)
    BY <1>1, <1>2, <1>3, <1>8, <1>9, <1>10 DEF Concludes, Declared
<1> QED BY <1>11
LEMMA InferredVariableBrings ==
    ASSUME NEW s \in Statements, Good(types), CheckInferredVariable(s)
    PROVE  \E r, declared : Concludes(s, r, declared)
<1> DEFINE v == Check(s.initializer, NoContext, types)
           f == Fresh(s, Valued(s, v))
           r == IF s.initializer = None THEN Failed(types) ELSE f
           declared == Named(s, "Variable", r.type)
<1>1. /\ s.kind = "Variable" /\ s.typehint = None
      /\ s.initializer \in Expressions \cup {None}
    BY StatementForms DEF CheckInferredVariable
<1>2. Conclude(s, r, declared)
    BY DEF CheckInferredVariable
<1>3. HintsOf(s) = {} /\ ExpressionsOf(s) = {s.initializer} \ {None} /\ ~Declares(s)
    BY <1>1 DEF HintsOf, ExpressionsOf, Declares
<1>4. CASE s.initializer = None
    <2>1. r = Failed(types)
        BY <1>4
    <2>2. r.status \in Statuses /\ ~IsDone(r)
        BY <2>1 DEF Failed, Stop, Result, IsDone, Statuses
    <2> QED BY <1>2, <2>2 DEF Concludes
<1>5. CASE s.initializer # None
    <2>1. s.initializer \in Expressions /\ ExpressionsOf(s) = {s.initializer}
        BY <1>1, <1>3, <1>5
    <2>2. v.status \in Statuses
        BY <2>1, NoContextIs, CheckStatus
    <2>3. IsDone(v) => Brings(s, v.types)
        <3>1. Adds(types, types, HintsOf(s))
            BY <1>3, TypesKnown, AddsNothing
        <3> QED BY <2>1, <3>1, NoContextIs, ExpressionAdds
    <2>4. r = f
        BY <1>5
    <2> HIDE DEF v
    <2>5. f.status \in Statuses /\ (IsDone(f) => f = v /\ IsDone(v))
        BY <2>2, FreshIs, ValuedIs
    <2> HIDE DEF f, r
    <2>6. Concludes(s, r, declared)
        <3> HIDE DEF declared
        <3> QED BY <1>1, <1>2, <1>3, <2>3, <2>4, <2>5 DEF Concludes, Declared
    <2> QED BY <2>6
<1> QED BY <1>4, <1>5
\* A statement that only checks an expression.
LEMMA OnlyChecks ==
    ASSUME Good(types), NEW s, NEW e \in Expressions, ExpressionsOf(s) = {e}, HintsOf(s) = {}, ~Declares(s),
           Conclude(s, Check(e, NoContext, types), <<>>)
    PROVE  \E r, declared : Concludes(s, r, declared)
<1> DEFINE v == Check(e, NoContext, types)
<1>1. v.status \in Statuses
    BY NoContextIs, CheckStatus
<1>2. IsDone(v) => Brings(s, v.types)
    <2>1. Adds(types, types, HintsOf(s))
        BY TypesKnown, AddsNothing
    <2> QED BY <2>1, NoContextIs, ExpressionAdds
<1>3. Concludes(s, v, <<>>)
    <2>1. Conclude(s, v, <<>>)
        OBVIOUS
    <2> HIDE DEF v
    <2> QED BY <1>1, <1>2, <2>1 DEF Concludes, Declared, Declares
<1> QED BY <1>3
LEMMA ExpressionBrings ==
    ASSUME NEW s \in Statements, Good(types), CheckExpression(s) \/ CheckCondition(s)
    PROVE  \E r, declared : Concludes(s, r, declared)
<1>1. CASE CheckExpression(s)
    <2>1. s.expr \in Expressions /\ s.kind = "Expr"
        BY <1>1, StatementForms DEF CheckExpression
    <2>2. ExpressionsOf(s) = {s.expr} /\ HintsOf(s) = {} /\ ~Declares(s)
        BY <2>1 DEF ExpressionsOf, HintsOf, Declares
    <2> QED BY <1>1, <2>1, <2>2, OnlyChecks DEF CheckExpression
<1>2. CASE CheckCondition(s)
    <2>1. s.condition \in Expressions /\ s.kind = "If"
        BY <1>2, StatementForms DEF CheckCondition
    <2>2. ExpressionsOf(s) = {s.condition} /\ HintsOf(s) = {} /\ ~Declares(s)
        BY <2>1 DEF ExpressionsOf, HintsOf, Declares
    <2> QED BY <1>2, <2>1, <2>2, OnlyChecks DEF CheckCondition
<1> QED BY <1>1, <1>2
LEMMA ReturnBrings ==
    ASSUME NEW s \in Statements, Good(types), CheckReturn(s)
    PROVE  \E r, declared : Concludes(s, r, declared)
<1> DEFINE return == Resolve(s.typehint, types)
           v == Check(s.value, NoContext, return.types)
           r == CASE ~IsDone(return) -> return
                  [] IsDone(return) /\ ~IsDone(v) -> v
                  [] OTHER -> IF TryCoerce(return.type, v.type, v.types, FALSE) THEN v ELSE Failed(v.types)
<1>1. s.kind = "Return" /\ s.typehint \in Hints /\ s.value \in Expressions
    BY StatementForms DEF CheckReturn
<1>2. Conclude(s, r, <<>>)
    BY DEF CheckReturn
<1>3. HintsOf(s) = {s.typehint} /\ ExpressionsOf(s) = {s.value} /\ ~Declares(s)
    <2>1. None \notin Hints
        BY HintForms DEF None
    <2> QED BY <1>1, <2>1 DEF HintsOf, ExpressionsOf, Declares
<1>4. return.status \in Statuses
    BY <1>1, ResolveStatus
<1>5. IsDone(return) => Adds(types, return.types, {s.typehint}) /\ Good(return.types)
    BY <1>1, TypesKnown, ResolveAdds
<1> HIDE DEF return
<1>6. IsDone(return) => v.status \in Statuses
    BY <1>1, <1>5, NoContextIs, CheckStatus
<1>7. IsDone(return) /\ IsDone(v) => Brings(s, v.types)
    BY <1>1, <1>3, <1>5, NoContextIs, ExpressionAdds
<1> HIDE DEF v
<1>8. r.status \in Statuses /\ (IsDone(r) => Brings(s, r.types))
    <2>1. CASE ~IsDone(return)
        BY <1>4, <2>1
    <2>2. CASE IsDone(return) /\ ~IsDone(v)
        BY <1>6, <2>2
    <2>3. CASE IsDone(return) /\ IsDone(v)
        <3>1. r \in {v, Failed(v.types)}
            BY <2>3
        <3> HIDE DEF r
        <3>2. ~IsDone(Failed(v.types)) /\ Failed(v.types).status \in Statuses
            BY DEF Failed, Stop, Result, IsDone, Statuses
        <3> QED BY <1>6, <1>7, <2>3, <3>1, <3>2
    <2> QED BY <2>1, <2>2, <2>3
<1> HIDE DEF r
<1>9. Concludes(s, r, <<>>)
    BY <1>1, <1>2, <1>3, <1>8 DEF Concludes, Declared
<1> QED BY <1>9

-----------------------------------------------------------------------------
(* Prototypes and structs.                                                 *)

\* The ids that a list of typehints is found to be.
FirstHints(hs, n) == {hs[k] : k \in 1 .. n}
SeenAsAll(hs, ids, n, t) == Len(ids) = n /\ \A k \in 1 .. n : SeenAs(hs[k], ids[k], t)
\* One more typehint of a list.
LEMMA ListAddsStep ==
    ASSUME NEW hs \in Seq(Hints), NEW n \in Nat, n + 1 \in 1 .. Len(hs), Good(types),
           NEW sofar, sofar.type \in Seq(Nat), Adds(types, sofar.types, FirstHints(hs, n)),
           SeenAsAll(hs, sofar.type, n, sofar.types), IsDone(sofar), IsDone(ResolveNext(hs[n + 1], sofar))
    PROVE  LET next == ResolveNext(hs[n + 1], sofar)
           IN  /\ next.type \in Seq(Nat) /\ Adds(types, next.types, FirstHints(hs, n + 1))
               /\ SeenAsAll(hs, next.type, n + 1, next.types)
<1> DEFINE h == hs[n + 1]
           r == Resolve(h, sofar.types)
           ids == Append(sofar.type, r.type)
           next == ResolveNext(h, sofar)
<1>0. h \in Hints /\ Known(sofar.types) /\ Good(sofar.types)
    BY DEF Adds, Known
<1>1. next = [r EXCEPT !.type = ids]
    BY DEF ResolveNext
<1>2. r \in Results
    BY <1>0, ResolveIsSound DEF Good, Resolves, Sound
<1>3. IsDone(next)
    OBVIOUS
<1> HIDE DEF next, r
<1>4. next.status = r.status /\ next.type = ids /\ next.types = r.types
    BY <1>1, <1>2 DEF Results
<1>5. IsDone(r)
    BY <1>3, <1>4 DEF IsDone
<1>6. Adds(sofar.types, r.types, {h}) /\ SeenAs(h, r.type, r.types) /\ Good(r.types)
    BY <1>0, <1>5, ResolveAdds DEF r
<1>7. r.type \in Nat
    BY <1>2 DEF Results
<1>8. /\ ids \in Seq(Nat) /\ Len(ids) = Len(sofar.type) + 1 /\ ids[Len(sofar.type) + 1] = r.type
      /\ \A k \in 1 .. Len(sofar.type) : ids[k] = sofar.type[k]
    BY <1>7
<1> HIDE DEF ids, h
<1>9. Len(sofar.type) = n
    BY DEF SeenAsAll
<1>10. Adds(types, r.types, FirstHints(hs, n + 1))
    <2>1. FirstHints(hs, n + 1) = FirstHints(hs, n) \cup {h}
        <3>1. 1 .. n + 1 = (1 .. n) \cup {n + 1}
            OBVIOUS
        <3> QED BY <3>1 DEF FirstHints, h
    <2>2. Adds(types, r.types, FirstHints(hs, n) \cup {h})
        BY <1>6, AddsMore
    <2> QED BY <2>1, <2>2
<1>11. SeenAsAll(hs, ids, n + 1, r.types)
    <2>1. ASSUME NEW k \in 1 .. n + 1
          PROVE  SeenAs(hs[k], ids[k], r.types)
        <3>1. CASE k \in 1 .. n
            <4>1. SeenAs(hs[k], sofar.type[k], sofar.types)
                BY <3>1 DEF SeenAsAll
            <4>2. IsPrefix(sofar.types, r.types)
                BY <1>6 DEF Adds
            <4>3. SeenAs(hs[k], sofar.type[k], r.types)
                BY <1>0, <1>6, <4>1, <4>2, SeenAsLater
            <4> QED BY <1>8, <1>9, <3>1, <4>3
        <3>2. CASE k = n + 1
            BY <1>6, <1>8, <1>9, <3>2 DEF h
        <3> QED BY <3>1, <3>2
    <2> QED BY <1>8, <1>9, <2>1 DEF SeenAsAll
<1>12. next.type \in Seq(Nat) /\ Adds(types, next.types, FirstHints(hs, n + 1))
       /\ SeenAsAll(hs, next.type, n + 1, next.types)
    BY <1>4, <1>8, <1>10, <1>11
<1> QED BY <1>12 DEF next, h
\* A list of typehints adds what each adds, and each is seen as its id.
LEMMA ListAdds ==
    ASSUME NEW hs \in Seq(Hints), Good(types)
    PROVE  LET r == ResolveAll(hs)
           IN  /\ r.status \in Statuses
               /\ IsDone(r) => /\ Adds(types, r.types, ToSet(hs)) /\ r.type \in Seq(DOMAIN r.types)
                               /\ SeenAsAll(hs, r.type, Len(hs), r.types)
<1> DEFINE r == ResolveAll(hs)
           m == Len(hs)
<1>1. m \in Nat /\ DOMAIN hs = 1 .. m
    OBVIOUS
<1>2. Lists(r, types)
    BY ResolveAllIsSound DEF Good
<1>3. PICK a : ListRuns(a, hs)
    BY ResolveAllRuns DEF Good
<1> DEFINE P(n) == /\ a[n].type \in Seq(Nat) /\ Adds(types, a[n].types, FirstHints(hs, n))
                   /\ SeenAsAll(hs, a[n].type, n, a[n].types)
           S == {n \in Nat : n <= m /\ IsDone(a[n]) => P(n)}
<1>4. 0 \in S
    <2>1. a[0] = Result("Done", <<>>, types)
        BY <1>3 DEF ListRuns
    <2>2. a[0].type = <<>> /\ a[0].types = types
        BY <2>1 DEF Result
    <2>3. FirstHints(hs, 0) = {} /\ 1 .. 0 = {}
        BY DEF FirstHints
    <2>4. Adds(types, types, {})
        BY TypesKnown, AddsNothing
    <2>5. a[0].type \in Seq(Nat) /\ Adds(types, a[0].types, FirstHints(hs, 0))
        <3>1. a[0].type \in Seq(Nat)
            <4>1. <<>> \in Seq(Nat)
                OBVIOUS
            <4> QED BY <2>2, <4>1
        <3> QED BY <2>2, <2>3, <2>4, <3>1
    <2>6. SeenAsAll(hs, a[0].type, 0, a[0].types)
        <3>1. Len(<<>>) = 0
            OBVIOUS
        <3> QED BY <2>2, <2>3, <3>1 DEF SeenAsAll
    <2>7. P(0)
        BY <2>5, <2>6
    <2> HIDE DEF P
    <2> QED BY <2>7
<1>5. ASSUME NEW n \in Nat, n \in S
      PROVE  n + 1 \in S
    <2> SUFFICES ASSUME n + 1 <= m, IsDone(a[n + 1])
                 PROVE  P(n + 1)
        OBVIOUS
    <2>1. n + 1 \in 1 .. m /\ n <= m /\ (n + 1) - 1 = n
        BY <1>1
    <2>2. a[n + 1] = ResolveNext(hs[n + 1], a[n])
        BY <1>3, <2>1 DEF ListRuns
    <2>3. IsDone(a[n])
        BY <2>2 DEF ResolveNext
    <2>4. P(n)
        BY <1>5, <2>1, <2>3
    <2> DEFINE sofar == a[n]
               next == ResolveNext(hs[n + 1], sofar)
    <2>5. /\ sofar.type \in Seq(Nat) /\ Adds(types, sofar.types, FirstHints(hs, n))
          /\ SeenAsAll(hs, sofar.type, n, sofar.types) /\ IsDone(sofar) /\ IsDone(next)
        BY <2>2, <2>3, <2>4
    <2> HIDE DEF sofar
    <2>6. /\ next.type \in Seq(Nat) /\ Adds(types, next.types, FirstHints(hs, n + 1))
          /\ SeenAsAll(hs, next.type, n + 1, next.types)
        BY <2>1, <2>5, ListAddsStep
    <2> HIDE DEF next
    <2>7. a[n + 1] = next
        BY <2>2 DEF next, sofar
    <2> QED BY <2>6, <2>7
<1> HIDE DEF S, P
<1>6. m \in S
    BY <1>1, <1>4, <1>5, SetInduction
<1>7. r = a[m]
    BY <1>3 DEF ListRuns
<1>8. IsDone(r) => P(m)
    BY <1>1, <1>6, <1>7 DEF S
<1>9. FirstHints(hs, m) = ToSet(hs)
    BY <1>1 DEF FirstHints, ToSet
<1> HIDE DEF r
<1>10. r.status \in Statuses /\ (IsDone(r) => r.type \in Seq(DOMAIN r.types))
    BY <1>2 DEF Lists, Statuses
<1> QED BY <1>7, <1>8, <1>9, <1>10 DEF P, r
\* A type that is registered goes with the one that has its id.
LEMMA RegisteredIsSame ==
    ASSUME NEW table, Good(table), NEW layout \in Layouts, NEW lucky
    PROVE  LET r == RegisterOrGet(layout, table, lucky)
           IN  r.types[r.type] = layout \/ (r.types = table /\ SameType(table[r.type], layout, lucky))
<1> DEFINE r == RegisterOrGet(layout, table, lucky)
           same == Same(layout, table, lucky)
<1>1. table \in Seq(Layouts) /\ Len(table) \in Nat
    BY TableIs DEF Good
<1>2. CASE same # {}
    <2>1. r.type \in same /\ r = Done(r.type, table)
        BY <1>1, <1>2, RegisterIs
    <2>2. r.types = table
        BY <2>1 DEF Done, Result
    <2> QED BY <2>1, <2>2 DEF Same
<1>3. CASE same = {}
    <2>1. r = Done(Len(table) + 1, Append(table, layout))
        BY <1>1, <1>3, RegisterIs
    <2>2. r.types = Append(table, layout) /\ r.type = Len(table) + 1
        BY <2>1 DEF Done, Result
    <2> HIDE DEF r
    <2>3. r.types[r.type] = layout
        BY <1>1, <2>2
    <2> QED BY <2>3 DEF r
<1> QED BY <1>2, <1>3
\* A declaration adds one type to what its typehints did.
LEMMA BringsOne ==
    ASSUME NEW s, NEW t, Adds(types, t, WrittenIn(s)), NEW u, Good(u), IsPrefix(t, u), NEW x,
           \/ u = t
           \/ /\ DOMAIN u = DOMAIN t \cup {x}
              /\ \/ u[x].kind = "Function" /\ LaidOut(s, u[x], u)
                 \/ u[x].kind = "Struct" /\ s.kind = "Struct" /\ u[x].name = s.name
    PROVE  Brings(s, u)
<1>1. Good(t) /\ IsTypes(types) /\ IsTypes(t) /\ IsTypes(u) /\ IsPrefix(types, t)
    BY DEF Adds, Known, Good
<1>2. IsPrefix(types, u)
    BY <1>1, LaterStill
<1>3. \A h \in WrittenIn(s) : Seen(h, u)
    BY <1>1, SeenLater DEF Adds
<1>4. ASSUME NEW y \in DOMAIN u, y \notin DOMAIN types
      PROVE  \/ u[y].kind = "Pointer"
             \/ u[y].kind = "Array" /\ \E h \in WrittenIn(s) : Reading(u)[y].shape \in Said[h].arrays
             \/ u[y].kind = "Function" /\ LaidOut(s, u[y], u)
             \/ u[y].kind = "Struct" /\ s.kind = "Struct" /\ u[y].name = s.name
    <2>1. CASE y \in DOMAIN t
        <3>1. u[y] = t[y] /\ Reading(u)[y] = Reading(t)[y]
            BY <1>1, <2>1, LaterTable, ReadingStays
        <3>2. \/ t[y].kind = "Pointer"
              \/ t[y].kind = "Array" /\ \E h \in WrittenIn(s) : Reading(t)[y].shape \in Said[h].arrays
            BY <1>4, <2>1 DEF Adds, NewOnes
        <3> QED BY <3>1, <3>2
    <2>2. CASE y \notin DOMAIN t
        BY <2>2
    <2> QED BY <2>1, <2>2
<1> QED BY <1>2, <1>3, <1>4 DEF Brings, NewTypes
\* A list that was seen, seen from a later table.
LEMMA SeenAsAllLater ==
    ASSUME NEW hs, NEW ids, NEW n, NEW t, Good(t), SeenAsAll(hs, ids, n, t),
           NEW u, Good(u), IsPrefix(t, u)
    PROVE  SeenAsAll(hs, ids, n, u)
BY SeenAsLater DEF SeenAsAll

\* What the function type of a prototype is found to be.
LEMMA FunctionDeclared ==
    ASSUME Good(types), NEW s \in Statements, s.kind = "Prototype", NEW t, Adds(types, t, WrittenIn(s)),
           NEW ids \in Seq(DOMAIN t), SeenAsAll(s.parameters, ids, Len(s.parameters), t),
           NEW return \in DOMAIN t, SeenAs(s.return_type, return, t), NEW lucky
    PROVE  LET r == RegisterOrGet(FunctionType(ids, return), t, lucky)
           IN  IsDone(r) /\ Brings(s, r.types) /\ Stands(s, r.type, r.types)
<1> DEFINE layout == FunctionType(ids, return)
           r == RegisterOrGet(layout, t, lucky)
           u == r.types
           x == r.type
<1>1. Good(t) /\ Len(t) \in Nat /\ DOMAIN t = 1 .. Len(t)
    <2>1. Good(t)
        BY DEF Adds, Known
    <2> QED BY <2>1, TableIs DEF Good
<1>2. /\ layout \in Layouts /\ layout.kind = "Function" /\ References(layout) \subseteq DOMAIN t
      /\ layout.parameters = ids /\ layout.return_type = return
    <2> DEFINE D == DOMAIN t
    <2>1. D \subseteq Nat
        BY <1>1
    <2>2. ids \in Seq(D) /\ return \in D
        OBVIOUS
    <2> HIDE DEF D
    <2>3. ids \in Seq(Nat) /\ return \in Nat /\ ToSet(ids) \subseteq D
        <3>1. \A n \in DOMAIN ids : ids[n] \in D
            BY <2>2
        <3> QED BY <2>1, <2>2, <3>1 DEF ToSet
    <2>4. layout \in [kind : {"Function"}, parameters : Seq(Nat), return_type : Nat]
        BY <2>3 DEF FunctionType
    <2>5. layout.kind = "Function" /\ layout.parameters = ids /\ layout.return_type = return
        BY DEF FunctionType
    <2> HIDE DEF layout
    <2>6. References(layout) = ToSet(ids) \cup {return}
        BY <2>5 DEF References
    <2> QED BY <2>2, <2>3, <2>4, <2>5, <2>6 DEF D, Layouts
<1> HIDE DEF layout
<1>3. /\ IsDone(r) /\ Good(u) /\ IsPrefix(t, u) /\ x \in DOMAIN u /\ u[x].kind = "Function"
      /\ u = t \/ (DOMAIN u = DOMAIN t \cup {x} /\ u[x] = layout)
    <2>1. layout.kind \in Composed /\ layout.kind # "Pointer"
        BY <1>2 DEF Composed
    <2> QED BY <1>1, <1>2, <2>1, RegisterAdds
<1>4. u[x] = layout \/ (u = t /\ SameType(t[x], layout, lucky))
    BY <1>1, <1>2, RegisteredIsSame
<1> HIDE DEF r, u, x
<1>5. SeenAsAll(s.parameters, ids, Len(s.parameters), u) /\ SeenAs(s.return_type, return, u)
    BY <1>1, <1>3, SeenAsLater, SeenAsAllLater
<1>6. DOMAIN ids = 1 .. Len(s.parameters)
    BY <1>5 DEF SeenAsAll
<1>7. u[x] = layout => LaidOut(s, u[x], u)
    BY <1>2, <1>5, <1>6 DEF LaidOut, SeenAsAll
<1>8. Brings(s, u)
    BY <1>3, <1>7, BringsOne
<1>9. Matches(s, u[x], u)
    <2>1. u[x].return_type = return /\ \A n \in DOMAIN ids : n \in DOMAIN u[x].parameters => u[x].parameters[n] = ids[n]
        <3>1. CASE u[x] = layout
            BY <1>2, <3>1
        <3>2. CASE u = t /\ SameType(t[x], layout, lucky)
            <4>1. SameType(u[x], layout, lucky)
                BY <3>2
            <4> QED BY <1>2, <1>3, <4>1 DEF SameType
        <3> QED BY <1>4, <3>1, <3>2
    <2> QED BY <1>3, <1>5, <1>6, <2>1 DEF Matches, SeenAsAll
<1>10. Stands(s, x, u)
    BY <1>3, <1>9 DEF Stands
<1> QED BY <1>3, <1>8, <1>10 DEF r, u, x, layout
\* A prototype brings its typehints and one function type.
LEMMA PrototypeBrings ==
    ASSUME NEW s \in Statements, Good(types), CheckPrototype(s)
    PROVE  \E r, declared : Concludes(s, r, declared)
<1> DEFINE ps == ResolveAll(s.parameters)
           return == IF IsDone(ps) THEN CheckHint(s.return_type, ps.types) ELSE ps
           R(lucky) == RegisterOrGet(FunctionType(ps.type, return.type), return.types, lucky)
           r(lucky) == IF IsDone(return) THEN R(lucky) ELSE return
           symbol(id) == [sort |-> "Function", type |-> id,
                          schema |-> [parameters |-> ps.type, variadic |-> s.variadic]]
<1>1. s.kind = "Prototype" /\ s.parameters \in Seq(Hints) /\ s.return_type \in Hints
    BY StatementForms DEF CheckPrototype
<1>2. PICK lucky \in BOOLEAN : Conclude(s, Fresh(s, r(lucky)), [x \in {s.name} |-> symbol(r(lucky).type)])
    BY DEF CheckPrototype
<1>3. WrittenIn(s) = ToSet(s.parameters) \cup {s.return_type} /\ Declares(s)
    <2>1. ExpressionsOf(s) = {}
        BY <1>1 DEF ExpressionsOf
    <2> QED BY <1>1, <2>1, CastsAre DEF WrittenIn, HintsOf, Declares
<1>4. /\ ps.status \in Statuses
      /\ IsDone(ps) => /\ Adds(types, ps.types, ToSet(s.parameters)) /\ ps.type \in Seq(DOMAIN ps.types)
                       /\ SeenAsAll(s.parameters, ps.type, Len(s.parameters), ps.types)
    BY <1>1, ListAdds
<1> HIDE DEF ps
<1>5. /\ return.status \in Statuses
      /\ IsDone(return) =>
           /\ Adds(types, return.types, WrittenIn(s)) /\ ps.type \in Seq(DOMAIN return.types)
           /\ SeenAsAll(s.parameters, ps.type, Len(s.parameters), return.types)
           /\ return.type \in DOMAIN return.types /\ SeenAs(s.return_type, return.type, return.types)
    <2>1. CASE ~IsDone(ps)
        BY <1>4, <2>1
    <2>2. CASE IsDone(ps)
        <3>1. return = CheckHint(s.return_type, ps.types)
            BY <2>2
        <3>2. Known(ps.types) /\ Good(ps.types)
            BY <1>4, <2>2 DEF Adds, Known
        <3>3. return.status \in Statuses
            BY <1>1, <3>1, <3>2, CheckHintIsSound DEF Good, Resolves, Statuses
        <3>4. ASSUME IsDone(return)
              PROVE  /\ Adds(ps.types, return.types, {s.return_type}) /\ Good(return.types)
                     /\ return.type \in DOMAIN return.types /\ SeenAs(s.return_type, return.type, return.types)
            <4>1. IsDone(CheckHint(s.return_type, ps.types))
                BY <3>1, <3>4
            <4>2. HintMeans(s.return_type)
                BY <1>1, HintsMean
            <4>3. Adds(ps.types, return.types, {s.return_type})
                BY <3>1, <3>2, <4>1, <4>2 DEF HintMeans
            <4>4. Good(return.types) /\ return.type \in DOMAIN return.types
                BY <1>1, <3>1, <3>2, <4>1, HintIs
            <4>5. SeenAs(s.return_type, return.type, return.types)
                BY <1>1, <3>1, <3>2, <4>1, SeenAsItself
            <4> QED BY <4>3, <4>4, <4>5
        <3> HIDE DEF return
        <3>5. ASSUME IsDone(return)
              PROVE  /\ Adds(types, return.types, WrittenIn(s)) /\ ps.type \in Seq(DOMAIN return.types)
                     /\ SeenAsAll(s.parameters, ps.type, Len(s.parameters), return.types)
            <4>1. Adds(types, return.types, WrittenIn(s))
                BY <1>3, <1>4, <2>2, <3>4, <3>5, AddsMore
            <4>2. IsPrefix(ps.types, return.types) /\ Good(return.types)
                BY <3>4, <3>5 DEF Adds
            <4>3. ps.type \in Seq(DOMAIN return.types)
                <5>1. DOMAIN ps.types \subseteq DOMAIN return.types
                    BY <3>2, <4>2, LaterTable DEF Good
                <5> QED BY <1>4, <2>2, <5>1
            <4>4. SeenAsAll(s.parameters, ps.type, Len(s.parameters), return.types)
                BY <1>4, <2>2, <3>2, <4>2, SeenAsAllLater
            <4> QED BY <4>1, <4>3, <4>4
        <3> QED BY <3>3, <3>4, <3>5
    <2> QED BY <2>1, <2>2
<1> HIDE DEF return
<1>6. \A lucky_ : IsDone(return) => IsDone(R(lucky_)) /\ Brings(s, R(lucky_).types) /\ Stands(s, R(lucky_).type, R(lucky_).types)
    BY <1>1, <1>5, FunctionDeclared
<1> DEFINE q == r(lucky)
           f == Fresh(s, q)
           declared == [x \in {s.name} |-> symbol(q.type)]
<1>7. q.status \in Statuses /\ (IsDone(q) => Brings(s, q.types) /\ Stands(s, q.type, q.types))
    <2>1. CASE IsDone(return)
        <3>1. q = R(lucky)
            BY <2>1
        <3>2. IsDone(R(lucky)) /\ Brings(s, R(lucky).types) /\ Stands(s, R(lucky).type, R(lucky).types)
            BY <1>6, <2>1
        <3> HIDE DEF q, R
        <3> QED BY <3>1, <3>2 DEF IsDone, Statuses
    <2>2. CASE ~IsDone(return)
        <3>1. q = return
            BY <2>2
        <3> HIDE DEF q
        <3> QED BY <1>5, <2>2, <3>1
    <2> QED BY <2>1, <2>2
<1>8. Conclude(s, f, declared)
    BY <1>2
<1> HIDE DEF q, r
<1>9. f.status \in Statuses /\ (IsDone(f) => f = q /\ IsDone(q))
    BY <1>7, FreshIs
<1>10. DOMAIN declared = {s.name} /\ declared[s.name].type = q.type
    OBVIOUS
<1> HIDE DEF f, declared
<1>11. Concludes(s, f, declared)
    BY <1>1, <1>3, <1>7, <1>8, <1>9, <1>10 DEF Concludes, Declared
<1> QED BY <1>11
\* A sequence over a set is one over a larger set.
LEMMA SeqOfMore ==
    ASSUME NEW S, NEW T, S \subseteq T, NEW s \in Seq(S)
    PROVE  s \in Seq(T)
OBVIOUS
\* A statement that adds one struct of its own name brings it.
LEMMA BringsStruct ==
    ASSUME NEW s, s.kind = "Struct", NEW t, Adds(types, t, WrittenIn(s)), NEW u, Good(u), IsPrefix(t, u), NEW x,
           u[x].kind = "Struct", u[x].name = s.name, u = t \/ DOMAIN u = DOMAIN t \cup {x}
    PROVE  Brings(s, u)
<1>1. \/ u = t
      \/ /\ DOMAIN u = DOMAIN t \cup {x}
         /\ \/ u[x].kind = "Function" /\ LaidOut(s, u[x], u)
            \/ u[x].kind = "Struct" /\ s.kind = "Struct" /\ u[x].name = s.name
    OBVIOUS
<1> QED BY <1>1, BringsOne
HintsOfGroups(hs, s) == \A g \in 1 .. Len(s.fields) : hs[g] = s.fields[g].typehint
\* A struct of a new name is a new type.
LEMMA StructDeclared ==
    ASSUME Good(types), StructsKept(types), NEW s \in Statements, s.kind = "Struct", s.name \notin DOMAIN names,
           NEW hs, HintsOfGroups(hs, s),
           NEW t, Adds(types, t, WrittenIn(s)),
           NEW ids \in Seq(DOMAIN t), SeenAsAll(hs, ids, Len(s.fields), t), NEW lucky
    PROVE  LET r == RegisterOrGet(StructType(s.name, FieldData(s.fields, ids)), t, lucky)
           IN  Brings(s, r.types) /\ Stands(s, r.type, r.types) /\ OnlyStruct(r.type, r.types)
<1> DEFINE fs == FieldData(s.fields, ids)
           layout == StructType(s.name, fs)
           r == RegisterOrGet(layout, t, lucky)
           u == r.types
           x == r.type
           groups == s.fields
<1>1. Good(t) /\ Len(t) \in Nat /\ DOMAIN t = 1 .. Len(t)
    <2>1. Good(t)
        BY DEF Adds, Known
    <2> QED BY <2>1, TableIs DEF Good
<1>2. s.name \in STRING /\ groups \in FieldGroups
    BY StatementForms DEF FieldGroups
<1>3. Len(ids) = Len(groups)
    BY DEF SeenAsAll
<1>4. /\ layout \in Layouts /\ layout.kind = "Struct" /\ References(layout) \subseteq DOMAIN t
      /\ layout.name = s.name /\ layout.fields = fs
    <2> DEFINE D == DOMAIN t
               F == [name : STRING, type : D]
               G == [name : STRING, type : Nat]
    <2>1. D \subseteq Nat
        BY <1>1
    <2>2. F \subseteq G
        BY <2>1
    <2>3. ids \in Seq(D)
        OBVIOUS
    <2> HIDE DEF D
    <2>4. fs \in Seq(F)
        BY <1>2, <1>3, <2>3, FieldDataIs DEF FieldGroups
    <2> HIDE DEF F, G, fs
    <2>5. fs \in Seq(G)
        BY <2>2, <2>4
    <2>6. {f.type : f \in ToSet(fs)} \subseteq D
        <3>1. \A i \in 1 .. Len(fs) : fs[i] \in F
            BY <2>4, ElementOfSeq
        <3>2. \A i \in 1 .. Len(fs) : fs[i].type \in D
            BY <3>1 DEF F
        <3>3. DOMAIN fs = 1 .. Len(fs)
            BY <2>4
        <3> QED BY <3>2, <3>3 DEF ToSet
    <2>7. layout \in [kind : {"Struct"}, name : STRING, fields : Seq(G)]
        BY <1>2, <2>5 DEF StructType
    <2>8. layout.kind = "Struct" /\ layout.name = s.name /\ layout.fields = fs
        BY DEF StructType
    <2> HIDE DEF layout
    <2>9. References(layout) = {f.type : f \in ToSet(fs)}
        BY <2>8 DEF References
    <2> QED BY <2>6, <2>7, <2>8, <2>9 DEF D, G, Layouts
<1> HIDE DEF layout, fs
<1>5. /\ Good(u) /\ IsPrefix(t, u) /\ x \in DOMAIN u
      /\ u = t \/ (DOMAIN u = DOMAIN t \cup {x} /\ u[x] = layout)
    <2>1. layout.kind \in Composed /\ layout.kind # "Pointer"
        BY <1>4 DEF Composed
    <2> QED BY <1>1, <1>4, <2>1, RegisterAdds
<1>6. u[x] = layout \/ (u = t /\ SameType(t[x], layout, lucky))
    BY <1>1, <1>4, RegisteredIsSame
<1> HIDE DEF r, u, x
<1>7. ASSUME u = t, SameType(t[x], layout, lucky)
      PROVE  FALSE
    <2>1. t[x].kind = "Struct" /\ t[x].name = s.name /\ x \in DOMAIN t
        BY <1>4, <1>5, <1>7 DEF SameType
    <2>2. CASE x \in DOMAIN types
        <3>1. t[x] = types[x]
            BY <1>1, <2>2, LaterTable DEF Adds, Good
        <3> QED BY <2>1, <2>2, <3>1 DEF StructsKept
    <2>3. CASE x \notin DOMAIN types
        BY <2>1, <2>3 DEF Adds, NewOnes
    <2> QED BY <2>2, <2>3
<1>8. u[x] = layout
    BY <1>6, <1>7
<1>9. Brings(s, u)
    <2>1. u[x].kind = "Struct" /\ u[x].name = s.name
        BY <1>4, <1>8
    <2>2. u = t \/ DOMAIN u = DOMAIN t \cup {x}
        BY <1>5
    <2> QED BY <1>5, <2>1, <2>2, BringsStruct
<1>10. SeenAsAll(hs, ids, Len(groups), u)
    BY <1>1, <1>5, SeenAsAllLater
<1>11. ids \in Seq(Nat)
    <2>1. DOMAIN t \subseteq Nat
        BY <1>1
    <2> QED BY <2>1, SeqOfMore
<1>12. Filled(s, u[x], u)
    <2>1. \A g \in 1 .. Len(ids) : SeenAs(groups[g].typehint, ids[g], u)
        BY <1>3, <1>10 DEF SeenAsAll, HintsOfGroups
    <2> QED BY <1>3, <1>4, <1>8, <1>11, <2>1 DEF Filled, fs
<1>13. Stands(s, x, u)
    BY <1>5, <1>12 DEF Stands
<1>14. OnlyStruct(x, u)
    <2>1. ASSUME NEW y \in DOMAIN t, y \notin DOMAIN types
          PROVE  u[y].kind # "Struct"
        <3>1. u[y] = t[y]
            BY <1>1, <1>5, LaterTable DEF Good
        <3> QED BY <2>1, <3>1 DEF Adds, NewOnes
    <2>2. \A y \in DOMAIN u : y \in DOMAIN t \/ y = x
        BY <1>5
    <2> QED BY <2>1, <2>2 DEF OnlyStruct
<1> QED BY <1>9, <1>13, <1>14 DEF r, u, x, layout, fs
\* A struct brings its typehints and one type of its own.
LEMMA StructBrings ==
    ASSUME NEW s \in Statements, Good(types), StructsKept(types), CheckStruct(s)
    PROVE  \E r, declared : Concludes(s, r, declared)
<1> DEFINE hints == [i \in DOMAIN s.fields |-> s.fields[i].typehint]
           hs == ResolveAll(hints)
           R(lucky) == RegisterOrGet(StructType(s.name, FieldData(s.fields, hs.type)), hs.types, lucky)
           r(lucky) == IF IsDone(hs) THEN R(lucky) ELSE hs
           groups == s.fields
<1>1. s.kind = "Struct" /\ groups \in FieldGroups
    BY StatementForms DEF CheckStruct, FieldGroups
<1>2. Conclude(s, Fresh(s, r(TRUE)), Named(s, "Type", r(TRUE).type))
    BY DEF CheckStruct
<1>3. hints \in Seq(Hints) /\ Len(hints) = Len(groups) /\ (\A g \in 1 .. Len(groups) : hints[g] = groups[g].typehint)
      /\ DOMAIN groups = 1 .. Len(groups)
    <2> HIDE DEF groups
    <2>1. \A i \in 1 .. Len(groups) : groups[i] \in [names : Seq(STRING) \ {<<>>}, typehint : Hints]
        BY <1>1, ElementOfSeq DEF FieldGroups
    <2>2. \A i \in 1 .. Len(groups) : groups[i].typehint \in Hints
        BY <2>1
    <2>3. DOMAIN groups = 1 .. Len(groups) /\ Len(groups) \in Nat
        BY <1>1 DEF FieldGroups
    <2>4. hints = [i \in DOMAIN groups |-> groups[i].typehint]
        BY DEF groups
    <2> HIDE DEF hints
    <2> QED BY <2>2, <2>3, <2>4
<1>4. WrittenIn(s) = ToSet(hints) /\ Declares(s)
    <2>1. ExpressionsOf(s) = {}
        BY <1>1 DEF ExpressionsOf
    <2>2. HintsOf(s) = {g.typehint : g \in ToSet(groups)}
        BY <1>1 DEF HintsOf
    <2>3. {g.typehint : g \in ToSet(groups)} = ToSet(hints)
        <3> HIDE DEF groups
        <3>1. DOMAIN hints = DOMAIN groups /\ \A i \in DOMAIN groups : hints[i] = groups[i].typehint
            BY DEF groups
        <3> HIDE DEF hints
        <3> QED BY <3>1 DEF ToSet
    <2> QED BY <1>1, <2>1, <2>2, <2>3, CastsAre DEF WrittenIn, Declares
<1> HIDE DEF hints
<1>5. /\ hs.status \in Statuses
      /\ IsDone(hs) => /\ Adds(types, hs.types, WrittenIn(s)) /\ hs.type \in Seq(DOMAIN hs.types)
                       /\ SeenAsAll(hints, hs.type, Len(groups), hs.types)
    BY <1>3, <1>4, ListAdds
<1> HIDE DEF hs
<1>6. \A lucky : IsDone(hs) => IsDone(R(lucky))
    <2>1. \A layout, table, lucky : IsDone(RegisterOrGet(layout, table, lucky))
        BY DEF RegisterOrGet, Done, Result, IsDone
    <2> QED BY <2>1
<1>7. \A lucky : IsDone(hs) /\ s.name \notin DOMAIN names =>
        Brings(s, R(lucky).types) /\ Stands(s, R(lucky).type, R(lucky).types) /\ OnlyStruct(R(lucky).type, R(lucky).types)
    BY <1>1, <1>3, <1>5, StructDeclared DEF HintsOfGroups
<1> DEFINE q == r(TRUE)
           p == R(TRUE)
           f == Fresh(s, q)
           declared == Named(s, "Type", q.type)
<1>8. /\ IsDone(hs) => IsDone(p) /\ q = p
      /\ ~IsDone(hs) => q = hs
      /\ IsDone(hs) /\ s.name \notin DOMAIN names =>
           Brings(s, p.types) /\ Stands(s, p.type, p.types) /\ OnlyStruct(p.type, p.types)
    BY <1>6, <1>7
<1>9. Conclude(s, f, declared)
    BY <1>2
<1> HIDE DEF q, r, p, R
<1>10. q.status \in Statuses /\ (IsDone(q) /\ s.name \notin DOMAIN names =>
           Brings(s, q.types) /\ Stands(s, q.type, q.types) /\ OnlyStruct(q.type, q.types))
    BY <1>5, <1>8 DEF IsDone, Statuses
<1>11. f.status \in Statuses /\ (IsDone(f) => f = q /\ IsDone(q) /\ s.name \notin DOMAIN names)
    BY <1>10, FreshIs
<1>12. DOMAIN declared = {s.name} /\ declared[s.name].type = q.type
    BY DEF Named
<1> HIDE DEF f, declared
<1>13. Concludes(s, f, declared)
    BY <1>4, <1>9, <1>10, <1>11, <1>12 DEF Concludes, Declared
<1> QED BY <1>13
\* Whatever the statement, it concludes with what it may bring.
LEMMA StatementBrings ==
    ASSUME NEW s \in Statements, Good(types), StructsKept(types),
           \/ CheckTypedVariable(s) \/ CheckInferredVariable(s)
           \/ CheckExpression(s) \/ CheckCondition(s) \/ CheckReturn(s)
           \/ CheckPrototype(s) \/ CheckStruct(s)
    PROVE  \E r, declared : Concludes(s, r, declared)
BY TypedVariableBrings, InferredVariableBrings, ExpressionBrings, ReturnBrings, PrototypeBrings, StructBrings

-----------------------------------------------------------------------------
(* A step keeps what is kept.                                              *)

\* u is, for the names there are after the step, a table that goes on where t ends.
Follows(t, u) == NamesStay /\ Good(t) /\ IsTypes(u) /\ Good(u)' /\ IsPrefix(t, u)

\* An id is in the following table what it was.
LEMMA FollowsAt ==
    ASSUME NEW t, NEW u, Follows(t, u), NEW x \in DOMAIN t
    PROVE  x \in DOMAIN u /\ u[x] = t[x] /\ Reading(u)[x] = Reading(t)[x]
<1>1. IsTypes(t) /\ IsTypes(u) /\ IsPrefix(t, u)
    BY DEF Follows, Good
<1> QED BY <1>1, LaterTable, ReadingStays
\* What was seen, laid out or declared over a table is so over one that follows.
LEMMA SeenStays ==
    ASSUME NEW t, NEW u, Follows(t, u), NEW h, Seen(h, t)
    PROVE  Seen(h, u)'
<1>1. PICK id : SeenAs(h, id, t)
    BY SeenIs
<1>2. SeenAs(h, id, u)'
    BY <1>1, SeenAsStays DEF Follows
<1> QED BY <1>2 DEF Seen, SeenAs
\* What was seen says what it said.
LEMMA SaidSeen ==
    ASSUME NamesStay, Good(types), IsTypes(types'), IsPrefix(types, types'), NEW t, NEW h, Seen(h, t)
    PROVE  Said'[h] = Said[h]
BY SaidStays DEF Seen
LEMMA LaidOutStays ==
    ASSUME NEW t, NEW u, Follows(t, u), NEW p, NEW layout, LaidOut(p, layout, t)
    PROVE  LaidOut(p, layout, u)'
<1>1. \A h, id : SeenAs(h, id, t) => SeenAs(h, id, u)'
    BY SeenAsStays DEF Follows
<1> QED BY <1>1 DEF LaidOut
LEMMA StandsStays ==
    ASSUME NEW t, NEW u, Follows(t, u), NEW s, NEW id, Stands(s, id, t)
    PROVE  Stands(s, id, u)'
<1>1. \A h, x : SeenAs(h, x, t) => SeenAs(h, x, u)'
    BY SeenAsStays DEF Follows
<1>2. id \in DOMAIN t
    BY DEF Stands
<1>3. id \in DOMAIN u /\ u[id] = t[id]
    BY <1>2, FollowsAt
<1>4. s.kind = "Variable" => SeenAs(s.typehint, id, u)'
    BY <1>1 DEF Stands
<1>5. s.kind = "Prototype" => Matches(s, u[id], u)'
    <2>1. Matches(s, t[id], t) => Matches(s, t[id], u)'
        BY <1>1 DEF Matches
    <2> QED BY <1>3, <2>1 DEF Stands
<1>6. s.kind = "Struct" => Filled(s, u[id], u)'
    <2>1. Filled(s, t[id], t) => Filled(s, t[id], u)'
        BY <1>1 DEF Filled
    <2> QED BY <1>3, <2>1 DEF Stands
<1> QED BY <1>3, <1>4, <1>5, <1>6 DEF Stands

ArraysAreWritten == \A z : z \in ArraysWritten <=> \E s \in Accepted : \E h \in WrittenIn(s) : z \in Said[h].arrays
\* The arrays that the accepted statements are written with.
LEMMA ArraysWrittenAre == ArraysAreWritten
BY DEF ArraysAreWritten, ArraysWritten, ArraysIn, WrittenIn
LEMMA ArraysWrittenNext == ArraysAreWritten'
BY ArraysWrittenAre, PTL
\* The arrays that were written are written after a step.
LEMMA ArraysStay ==
    ASSUME NamesStay, Good(types), IsTypes(types'), IsPrefix(types, types'), Accepted \subseteq Accepted',
           NEW t, HintsKept(t)
    PROVE  ArraysWritten \subseteq ArraysWritten'
<1>1. ASSUME NEW s \in Accepted, NEW h \in WrittenIn(s)
      PROVE  Said'[h] = Said[h]
    BY <1>1, SaidSeen DEF HintsKept
<1>2. ASSUME NEW z \in ArraysWritten
      PROVE  z \in ArraysWritten'
    <2>1. PICK s \in Accepted : \E h \in WrittenIn(s) : z \in Said[h].arrays
        BY <1>2, ArraysWrittenAre DEF ArraysAreWritten
    <2>2. PICK h \in WrittenIn(s) : z \in Said[h].arrays
        BY <2>1
    <2>3. z \in Said'[h].arrays /\ s \in Accepted' /\ h \in WrittenIn(s)'
        BY <1>1, <2>2 DEF WrittenIn
    <2> QED BY <2>3, ArraysWrittenNext DEF ArraysAreWritten
<1> QED BY <1>2
\* What a table kept, a table that follows keeps.
Still(t, u) ==
    /\ \A s \in Accepted : \A h \in WrittenIn(s) : Seen(h, u)'
    /\ \A x \in DOMAIN t : u[x].kind = "Array" => Reading(u)[x].shape \in ArraysWritten'
    /\ \A x \in DOMAIN t : u[x].kind = "Function" => \E p \in Accepted : LaidOut(p, u[x], u)'
    /\ \A x \in DOMAIN t : u[x].kind = "Struct" => u[x].name \in DOMAIN names'
    /\ \A s \in Accepted : Declares(s) => s.name \in DOMAIN names' /\ \E id : id = names'[s.name].type /\ Stands(s, id, u)'
\* Each part of what a table kept is true of a table that follows.
LEMMA KeptStill ==
    ASSUME Good(types), IsTypes(types'), IsPrefix(types, types'), Accepted \subseteq Accepted',
           NEW t, Keeps(t), NEW u, Follows(t, u)
    PROVE  Still(t, u)
<1>1. NamesStay
    BY DEF Follows
<1>2. ASSUME NEW s \in Accepted, NEW h \in WrittenIn(s)
      PROVE  Seen(h, u)'
    BY <1>2, SeenStays DEF Keeps, HintsKept
<1>3. ASSUME NEW x \in DOMAIN t
      PROVE  /\ u[x].kind = "Array" => Reading(u)[x].shape \in ArraysWritten'
             /\ u[x].kind = "Function" => \E p \in Accepted : LaidOut(p, u[x], u)'
             /\ u[x].kind = "Struct" => u[x].name \in DOMAIN names'
    <2>1. u[x] = t[x] /\ Reading(u)[x] = Reading(t)[x]
        BY FollowsAt
    <2>2. t[x].kind = "Array" => Reading(t)[x].shape \in ArraysWritten'
        BY <1>1, ArraysStay DEF Keeps, ArraysKept
    <2>3. t[x].kind = "Function" => \E p \in Accepted : LaidOut(p, t[x], u)'
        BY LaidOutStays DEF Keeps, FunctionsKept
    <2>4. t[x].kind = "Struct" => t[x].name \in DOMAIN names'
        BY <1>1 DEF Keeps, StructsKept, NamesStay
    <2> QED BY <2>1, <2>2, <2>3, <2>4
<1>4. ASSUME NEW s \in Accepted, Declares(s)
      PROVE  s.name \in DOMAIN names' /\ \E id : id = names'[s.name].type /\ Stands(s, id, u)'
    <2>1. s.name \in DOMAIN names /\ Stands(s, names[s.name].type, t)
        BY <1>4 DEF Keeps, NamesKept
    <2>2. s.name \in DOMAIN names' /\ names'[s.name] = names[s.name]
        BY <1>1, <2>1 DEF NamesStay
    <2>3. PICK id : id = names[s.name].type
        OBVIOUS
    <2>4. Stands(s, id, u)'
        BY <2>1, <2>3, StandsStays
    <2> QED BY <2>2, <2>3, <2>4
<1> QED BY <1>2, <1>3, <1>4 DEF Still

\* A statement that is rejected: the same table and the same statements.
LEMMA KeptWhenRejected ==
    ASSUME NEW t, Still(t, t), Accepted' = Accepted
    PROVE  Keeps(t)'
<1>1. HintsKept(t)'
    BY DEF Still, HintsKept, WrittenIn
<1>2. ArraysKept(t)'
    BY DEF Still, ArraysKept
<1>3. FunctionsKept(t)'
    BY DEF Still, FunctionsKept
<1>4. StructsKept(t)'
    BY DEF Still, StructsKept
<1>5. NamesKept(t)'
    <2>1. \A s \in Accepted : Declares(s) => s.name \in DOMAIN names' /\ \E id : id = names'[s.name].type /\ Stands(s, id, t)'
        BY DEF Still
    <2>2. ASSUME NEW s \in Accepted', Declares(s)
          PROVE  s.name \in DOMAIN names' /\ Stands(s, names[s.name].type, t)'
        BY <2>1, <2>2
    <2> QED BY <2>2 DEF NamesKept, Declares
<1> QED BY <1>1, <1>2, <1>3, <1>4, <1>5 DEF Keeps
\* A statement that is Done: its table, with what it brings.
LEMMA KeptWhenDone ==
    ASSUME Good(types), NamesStay, Keeps(types), NEW s, NEW u, u = types', IsTypes(u), Good(u)', Brings(s, u),
           Accepted' = Accepted \cup {s}, s.kind = "Struct" => s.name \in DOMAIN names',
           Declares(s) => s.name \in DOMAIN names' /\ \E id : id = names'[s.name].type /\ Stands(s, id, u)
    PROVE  Keeps(u)'
<1>1. Good(u) /\ IsPrefix(types, u) /\ IsPrefix(types, types') /\ IsTypes(types')
    BY DEF Brings
<1>2. Follows(types, u) /\ Follows(u, u)
    <2>1. IsPrefix(u, u)
        BY TableIs
    <2> QED BY <1>1, <2>1 DEF Follows
<1>3. Still(types, u)
    BY <1>1, <1>2, KeptStill
<1>4. \A h \in WrittenIn(s) : Seen(h, u) /\ Seen(h, u)'
    BY <1>2, SeenStays DEF Brings
<1>5. HintsKept(u)'
    <2>1. \A p \in Accepted : \A h \in WrittenIn(p) : Seen(h, u)'
        BY <1>3 DEF Still
    <2> QED BY <1>4, <2>1 DEF HintsKept, WrittenIn
<1>6. ArraysKept(u)'
    <2>1. ASSUME NEW h \in WrittenIn(s), NEW z \in Said[h].arrays
          PROVE  z \in ArraysWritten'
        <3>1. Said'[h] = Said[h]
            BY <1>1, <1>4, SaidSeen
        <3>2. s \in Accepted' /\ h \in WrittenIn(s)'
            BY DEF WrittenIn
        <3> QED BY <2>1, <3>1, <3>2, ArraysWrittenNext DEF ArraysAreWritten
    <2>2. ASSUME NEW x \in DOMAIN u, u[x].kind = "Array"
          PROVE  Reading(u)[x].shape \in ArraysWritten'
        <3>1. CASE x \in DOMAIN types
            BY <1>3, <2>2, <3>1 DEF Still
        <3>2. CASE x \notin DOMAIN types
            BY <2>1, <2>2, <3>2 DEF Brings, NewTypes
        <3> QED BY <3>1, <3>2
    <2> QED BY <2>2 DEF ArraysKept
<1>7. FunctionsKept(u)'
    <2>1. ASSUME NEW x \in DOMAIN u, u[x].kind = "Function"
          PROVE  \E p \in Accepted' : LaidOut(p, u[x], u)'
        <3>1. CASE x \in DOMAIN types
            <4>1. PICK p \in Accepted : LaidOut(p, u[x], u)'
                BY <1>3, <2>1, <3>1 DEF Still
            <4> QED BY <4>1
        <3>2. CASE x \notin DOMAIN types
            <4>1. LaidOut(s, u[x], u)
                BY <2>1, <3>2 DEF Brings, NewTypes
            <4>2. PICK layout : layout = u[x]
                OBVIOUS
            <4>3. LaidOut(s, layout, u)'
                BY <1>2, <4>1, <4>2, LaidOutStays
            <4> QED BY <4>2, <4>3
        <3> QED BY <3>1, <3>2
    <2> QED BY <2>1 DEF FunctionsKept
<1>8. StructsKept(u)'
    <2>1. ASSUME NEW x \in DOMAIN u, u[x].kind = "Struct"
          PROVE  u[x].name \in DOMAIN names'
        <3>1. CASE x \in DOMAIN types
            BY <1>3, <2>1, <3>1 DEF Still
        <3>2. CASE x \notin DOMAIN types
            BY <2>1, <3>2 DEF Brings, NewTypes
        <3> QED BY <3>1, <3>2
    <2> QED BY <2>1 DEF StructsKept
<1>9. NamesKept(u)'
    <2>1. \A p \in Accepted : Declares(p) => p.name \in DOMAIN names' /\ \E id : id = names'[p.name].type /\ Stands(p, id, u)'
        BY <1>3 DEF Still
    <2>2. Declares(s) => s.name \in DOMAIN names' /\ \E id : id = names'[s.name].type /\ Stands(s, id, u)'
        BY <1>2, StandsStays
    <2>3. ASSUME NEW p \in Accepted', Declares(p)
          PROVE  p.name \in DOMAIN names' /\ Stands(p, names[p.name].type, u)'
        <3>1. p \in Accepted \/ p = s
            OBVIOUS
        <3>2. p.name \in DOMAIN names' /\ \E id : id = names'[p.name].type /\ Stands(p, id, u)'
            BY <2>1, <2>2, <2>3, <3>1
        <3> QED BY <3>2
    <2> QED BY <2>3 DEF NamesKept, Declares
<1> QED BY <1>5, <1>6, <1>7, <1>8, <1>9 DEF Keeps

\* A statement that is Done is accepted.
LEMMA AcceptedIs ==
    ASSUME TypeOK, phase = "checking", NEW s, seen' = Append(seen, s), phase' \in {"checking", "accepted"}
    PROVE  Accepted' = Accepted \cup {s}
<1>1. seen \in Seq(Statements) /\ Len(seen) \in Nat
    BY DEF TypeOK
<1>2. /\ DOMAIN seen' = 1 .. Len(seen) + 1 /\ DOMAIN seen = 1 .. Len(seen)
      /\ \A n \in 1 .. Len(seen) : seen'[n] = seen[n]
      /\ seen'[Len(seen) + 1] = s
    BY <1>1
<1>3. \A n : n \in 1 .. Len(seen) + 1 <=> n \in 1 .. Len(seen) \/ n = Len(seen) + 1
    BY <1>1
<1>4. ToSet(seen') = ToSet(seen) \cup {s}
    BY <1>2, <1>3 DEF ToSet
<1> QED BY <1>4 DEF Accepted
\* Whatever statement is checked, what was kept is kept, with what it declares.
LEMMA StatementKeeps ==
    ASSUME TypeOK, Kept, phase = "checking", NamesStay, Good(types), IsTypes(types'), IsPrefix(types, types'),
           TypeOK', NEW s \in Statements, NEW r, NEW declared, Concludes(s, r, declared)
    PROVE  Kept'
<1>1. Keeps(types)
    BY DEF Kept
<1>2. /\ types' = r.types /\ phase' = Verdict[r.status] /\ seen' = Append(seen, s)
      /\ names' = IF r.status = "Done" THEN With(declared) ELSE names
      /\ r.status \in Statuses
    BY DEF Concludes, Conclude
<1>3. PICK u : u = types'
    OBVIOUS
<1>4. PICK t : t = types
    OBVIOUS
<1>5. Good(types)'
    BY DEF TypeOK, Good, IsTypes, Symbols
<1>6. Good(u)'
    BY <1>3, <1>5
<1>7. CASE IsDone(r)
    <2>1. phase' \in {"checking", "accepted"} /\ names' = With(declared)
        BY <1>2, <1>7 DEF Verdict, IsDone
    <2>2. Accepted' = Accepted \cup {s}
        BY <1>2, <2>1, AcceptedIs
    <2>3. Brings(s, u) /\ (Declares(s) => DOMAIN declared = {s.name} /\ Stands(s, declared[s.name].type, u))
        BY <1>2, <1>3, <1>7 DEF Concludes, Declared
    <2>4. Declares(s) => s.name \in DOMAIN names' /\ \E id : id = names'[s.name].type /\ Stands(s, id, u)
        BY <2>1, <2>3 DEF With
    <2>5. s.kind = "Struct" => s.name \in DOMAIN names'
        BY <2>4 DEF Declares
    <2>6. Keeps(u)'
        BY <1>1, <1>3, <1>6, <2>2, <2>3, <2>4, <2>5, KeptWhenDone
    <2>7. IsPrefix(u, u)
        BY <1>3, TableIs
    <2> QED BY <1>3, <1>6, <2>6, <2>7 DEF Kept
<1>8. CASE ~IsDone(r)
    <2>1. phase' \notin {"checking", "accepted"} /\ names' = names
        BY <1>2, <1>8 DEF Verdict, IsDone, Statuses
    <2>2. Accepted' = Accepted
        BY <1>2, <2>1, AcceptedGrows
    <2>3. Good(t)' /\ Good(t) /\ IsPrefix(t, t)
        <3>1. Good(t)
            BY <1>4
        <3> QED BY <2>1, <3>1, TableIs DEF Good, Symbols
    <2>4. Follows(t, t)
        BY <2>3 DEF Follows, Good
    <2>5. Keeps(t)
        BY <1>1, <1>4
    <2>6. Still(t, t)
        BY <2>2, <2>4, <2>5, KeptStill
    <2>7. Keeps(t)'
        BY <2>2, <2>6, KeptWhenRejected
    <2> QED BY <1>4, <2>1, <2>3, <2>7 DEF Kept
<1> QED BY <1>7, <1>8
\* A step keeps what is kept.
LEMMA StepKeeps ==
    ASSUME TypeOK, EndsWithAVerdict, Kept, [Next]_vars
    PROVE  Kept'
<1>1. TypeOK' /\ NamesStay /\ Good(types) /\ IsTypes(types') /\ IsPrefix(types, types')
    BY StepIs
<1>2. CASE UNCHANGED vars
    <2>1. types' = types /\ names' = names /\ phase' = phase /\ seen' = seen
        BY <1>2 DEF vars
    <2>2. Accepted' = Accepted
        BY <2>1 DEF Accepted
    <2>3. PICK t : Good(t) /\ IsPrefix(t, types) /\ Keeps(t) /\ (phase \in {"checking", "accepted"} => t = types)
        BY DEF Kept
    <2>4. Good(t)' /\ IsPrefix(t, t)
        BY <2>1, <2>3, TableIs DEF Good, Symbols
    <2>5. Follows(t, t)
        BY <1>1, <2>3, <2>4 DEF Follows, Good
    <2>6. Keeps(t)'
        BY <1>1, <2>2, <2>3, <2>5, KeptStill, KeptWhenRejected
    <2> QED BY <2>1, <2>3, <2>4, <2>6 DEF Kept
<1>3. CASE Next
    <2>1. PICK s \in Programs[text][Len(seen) + 1] :
              \/ CheckTypedVariable(s) \/ CheckInferredVariable(s)
              \/ CheckExpression(s) \/ CheckCondition(s) \/ CheckReturn(s)
              \/ CheckPrototype(s) \/ CheckStruct(s)
        BY <1>3 DEF Next
    <2>2. phase = "checking" /\ s \in Statements
        BY <1>3, NextStatement DEF Next
    <2>3. StructsKept(types)
        BY <2>2 DEF Kept, Keeps
    <2>4. \E r, declared : Concludes(s, r, declared)
        BY <1>1, <2>1, <2>2, <2>3, StatementBrings
    <2> QED BY <1>1, <2>2, <2>4, StatementKeeps
<1> QED BY <1>2, <1>3
\* At first there is nothing but the builtin types.
LEMMA InitKeeps ==
    ASSUME Init
    PROVE  TypeOK /\ EndsWithAVerdict /\ Kept
<1>1. TypeOK /\ EndsWithAVerdict
    BY InitOK
<1>2. Accepted = {} /\ types = TYPES
    BY DEF Init, Accepted, ToSet
<1>3. Good(types) /\ IsPrefix(types, types)
    BY <1>1, TableIs DEF TypeOK, Good, IsTypes, Symbols
<1>4. \A x \in DOMAIN TYPES : TYPES[x].kind \notin {"Array", "Function", "Struct"}
    BY DEF TYPES, Plain
<1>5. Keeps(types)
    BY <1>2, <1>4 DEF Keeps, HintsKept, ArraysKept, FunctionsKept, StructsKept, NamesKept
<1> QED BY <1>1, <1>3, <1>5 DEF Kept

\* Each name keeps the type that was written for it: whatever the program, after
\* any number of statements the type of a variable, the parameters and the result
\* of a prototype and the first member of a group of a struct are what their
\* typehints say, with the exceptions that NamesKeepTheirType states.
THEOREM NamesMeanTheirTypes == Spec => []NamesKeepTheirType
<1> USE DEF Spec
<1>1. Init => TypeOK /\ EndsWithAVerdict /\ Kept
    BY InitKeeps
<1>2. TypeOK /\ EndsWithAVerdict /\ Kept /\ [Next]_vars => TypeOK' /\ EndsWithAVerdict' /\ Kept'
    BY NextKeeps, StepKeeps
<1>3. TypeOK /\ Kept => NamesKeepTheirType
    BY NamesMean
<1> QED BY <1>1, <1>2, <1>3, PTL
=============================================================================
