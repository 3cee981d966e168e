--------------------------- MODULE EmittedProofs ----------------------------
(***************************************************************************)
(* What C is given for an accepted program, whatever the program: an       *)
(* expression is emitted as what it was checked to be, or is misread, so   *)
(* that C finds nothing else to refuse and puts no number in a narrower    *)
(* place.                                                                  *)
(***************************************************************************)
EXTENDS MeaningProofs

-----------------------------------------------------------------------------
(* The recursions over expressions.                                        *)

\* What is emitted for an expression rests on what is emitted for its operands.
LEMMA EmittedAgrees ==
    ASSUME NEW f, NEW g, NEW e \in Expressions, \A o \in Operands(e) : f[o] = g[o]
    PROVE  EmittedBy(f, e) = EmittedBy(g, e)
<1>1. CASE e.kind \in {"Integer", "Unary", "Float", "CString", "Identifier"}
    BY <1>1 DEF EmittedBy
<1>2. CASE e.kind = "Cast"
    <2>1. f[e.expr] = g[e.expr]
        BY <1>2 DEF Operands
    <2> QED BY <1>2, <2>1 DEF EmittedBy
<1>3. CASE e.kind = "Binop"
    <2>1. f[e.left] = g[e.left] /\ f[e.right] = g[e.right] /\ First(e) = e.left
        BY <1>3 DEF Operands, First
    <2> QED BY <1>3, <2>1 DEF EmittedBy
<1>4. CASE e.kind \in {"Dereference", "AddressOf", "Subscript", "Member_Access", "Function_Call"}
    <2>1. f[First(e)] = g[First(e)]
        BY <1>4 DEF Operands, First
    <2> QED BY <1>4, <2>1 DEF EmittedBy
<1>5. CASE e.kind = "Eval"
    <2>1. f[First(e)] = g[First(e)]
        BY <1>5 DEF Operands, First
    <2> QED BY <1>5, <2>1 DEF EmittedBy
<1> QED BY <1>1, <1>2, <1>3, <1>4, <1>5, ExpressionForms
EmittedBelow(n, g) == g = [e \in ExpressionsBelow(n) |-> EmittedBy(g, e)]
\* The function that types what is emitted exists, up to each height.
LEMMA EmittedExists ==
    ASSUME NEW n \in Nat
    PROVE  \E g : EmittedBelow(n, g)
<1> DEFINE S == {m \in Nat : \E g : EmittedBelow(m, g)}
<1>1. 0 \in S
    <2> DEFINE g == [e \in {} |-> {}]
    <2>1. ExpressionsBelow(0) = {}
        BY DepthAssumption DEF ExpressionsBelow
    <2>2. EmittedBelow(0, g)
        BY <2>1 DEF EmittedBelow
    <2> QED BY <2>2
<1>2. ASSUME NEW m \in Nat, m \in S
      PROVE  m + 1 \in S
    <2>1. PICK g : EmittedBelow(m, g)
        BY <1>2
    <2> DEFINE f == [e \in ExpressionsBelow(m + 1) |-> EmittedBy(g, e)]
    <2>2. ASSUME NEW e \in ExpressionsBelow(m + 1)
          PROVE  EmittedBy(g, e) = EmittedBy(f, e)
        <3>1. ASSUME NEW o \in Operands(e)
              PROVE  f[o] = g[o]
            <4>1. o \in ExpressionsBelow(m) /\ o \in ExpressionsBelow(m + 1)
                BY <2>2, <3>1, HeightOfOperands DEF ExpressionsBelow
            <4> QED BY <2>1, <4>1 DEF EmittedBelow
        <3> HIDE DEF f
        <3> QED BY <3>1, EmittedAgrees DEF ExpressionsBelow
    <2>3. EmittedBelow(m + 1, f)
        BY <2>2 DEF EmittedBelow
    <2>4. m + 1 \in Nat
        OBVIOUS
    <2> HIDE DEF f
    <2> QED BY <2>3, <2>4
<1> HIDE DEF S
<1>3. n \in S
    BY <1>1, <1>2, SetInduction
<1> QED BY <1>3 DEF S
LEMMA EmittedIs ==
    ASSUME NEW e \in Expressions
    PROVE  Emitted[e] = EmittedBy(Emitted, e)
<1>1. \E g : EmittedBelow(Depth + 1, g)
    BY AllBelow, EmittedExists
<1>2. \E g : g = [x \in Expressions |-> EmittedBy(g, x)]
    BY <1>1, AllBelow DEF EmittedBelow
<1>3. Emitted = [x \in Expressions |-> EmittedBy(Emitted, x)]
    BY <1>2 DEF Emitted
<1> QED BY <1>3
\* The numbers that go into an expression are those that go into its operands.
LEMMA FlowAgrees ==
    ASSUME NEW f, NEW g, NEW e \in Expressions, \A o \in Operands(e) : f[o] = g[o]
    PROVE  FlowBy(f, e) = FlowBy(g, e)
<1>1. CASE e.kind = "Cast"
    <2>1. f[e.expr] = g[e.expr]
        BY <1>1 DEF Operands
    <2> QED BY <1>1, <2>1 DEF FlowBy
<1>2. CASE e.kind = "Binop"
    <2>1. f[e.left] = g[e.left] /\ f[e.right] = g[e.right]
        BY <1>2 DEF Operands
    <2> QED BY <1>2, <2>1 DEF FlowBy
<1>3. CASE e.kind \notin {"Cast", "Binop"}
    BY <1>3 DEF FlowBy
<1> QED BY <1>1, <1>2, <1>3
FlowBelow(n, g) == g = [e \in ExpressionsBelow(n) |-> FlowBy(g, e)]
\* The numbers that flow into an expression, likewise.
LEMMA FlowExists ==
    ASSUME NEW n \in Nat
    PROVE  \E g : FlowBelow(n, g)
<1> DEFINE S == {m \in Nat : \E g : FlowBelow(m, g)}
<1>1. 0 \in S
    <2> DEFINE g == [e \in {} |-> {}]
    <2>1. ExpressionsBelow(0) = {}
        BY DepthAssumption DEF ExpressionsBelow
    <2>2. FlowBelow(0, g)
        BY <2>1 DEF FlowBelow
    <2> QED BY <2>2
<1>2. ASSUME NEW m \in Nat, m \in S
      PROVE  m + 1 \in S
    <2>1. PICK g : FlowBelow(m, g)
        BY <1>2
    <2> DEFINE f == [e \in ExpressionsBelow(m + 1) |-> FlowBy(g, e)]
    <2>2. ASSUME NEW e \in ExpressionsBelow(m + 1)
          PROVE  FlowBy(g, e) = FlowBy(f, e)
        <3>1. ASSUME NEW o \in Operands(e)
              PROVE  f[o] = g[o]
            <4>1. o \in ExpressionsBelow(m) /\ o \in ExpressionsBelow(m + 1)
                BY <2>2, <3>1, HeightOfOperands DEF ExpressionsBelow
            <4> QED BY <2>1, <4>1 DEF FlowBelow
        <3> HIDE DEF f
        <3> QED BY <3>1, FlowAgrees DEF ExpressionsBelow
    <2>3. FlowBelow(m + 1, f)
        BY <2>2 DEF FlowBelow
    <2>4. m + 1 \in Nat
        OBVIOUS
    <2> HIDE DEF f
    <2> QED BY <2>3, <2>4
<1> HIDE DEF S
<1>3. n \in S
    BY <1>1, <1>2, SetInduction
<1> QED BY <1>3 DEF S
LEMMA FlowIs ==
    ASSUME NEW e \in Expressions
    PROVE  Flow[e] = FlowBy(Flow, e)
<1>1. \E g : FlowBelow(Depth + 1, g)
    BY AllBelow, FlowExists
<1>2. \E g : g = [x \in Expressions |-> FlowBy(g, x)]
    BY <1>1, AllBelow DEF FlowBelow
<1>3. Flow = [x \in Expressions |-> FlowBy(Flow, x)]
    BY <1>2 DEF Flow
<1> QED BY <1>3

-----------------------------------------------------------------------------
(* What was found over a table that has it all.                            *)

\* An expression is found to have a type, and adds nothing to the table.
Found(e, c, id, t) == c \in 0 .. Len(t) /\ CheckTree[e][c][t] = Done(id, t)
IdsOf(t) == Len(t) \in Nat /\ DOMAIN t = 1 .. Len(t)

\* A table between a table and itself is that table.
LEMMA Between ==
    ASSUME NEW s, IsTypes(s), NEW t, IsTypes(t), IsPrefix(s, t), IsPrefix(t, s)
    PROVE  s = t
<1>1. /\ s \in Seq(Layouts) /\ Len(s) \in Nat /\ DOMAIN s = 1 .. Len(s)
      /\ t \in Seq(Layouts) /\ Len(t) \in Nat /\ DOMAIN t = 1 .. Len(t)
    BY TableIs
<1>2. Len(s) <= Len(t) /\ Len(t) <= Len(s)
    BY LaterTable
<1>3. \A id \in DOMAIN s : t[id] = s[id]
    BY LaterTable
<1>4. Len(s) = Len(t)
    <2>1. Len(s) \in Nat /\ Len(t) \in Nat
        BY <1>1
    <2> QED BY <1>2, <2>1
<1>5. DOMAIN s = DOMAIN t
    BY <1>1, <1>4
<1>6. s = [id \in DOMAIN s |-> s[id]] /\ t = [id \in DOMAIN t |-> t[id]]
    BY <1>1
<1> QED BY <1>3, <1>5, <1>6
\* A check that adds nothing finds its expression, as one of the types.
LEMMA FoundIs ==
    ASSUME NEW e \in Expressions, NEW t, Good(t), NEW c \in 0 .. Len(t), IsDone(CheckTree[e][c][t]),
           IsPrefix(CheckTree[e][c][t].types, t)
    PROVE  LET r == CheckTree[e][c][t]
           IN  /\ r.types = t /\ Found(e, c, r.type, t)
               /\ r.type \in DOMAIN t /\ r.type \in 0 .. Len(t) /\ r.type \in Nat
<1> DEFINE r == CheckTree[e][c][t]
<1>1. Sound(r, t) /\ IsDone(r) /\ IsPrefix(r.types, t)
    BY ChecksAreSound DEF Sounds
<1> SUFFICES /\ r.types = t /\ Found(e, c, r.type, t)
             /\ r.type \in DOMAIN t /\ r.type \in 0 .. Len(t) /\ r.type \in Nat
    OBVIOUS
<1>2. r = CheckTree[e][c][t]
    OBVIOUS
<1> HIDE DEF r
<1>3. r.types = t
    BY <1>1, Between DEF Sound, Good
<1>4. Sound(r, r.types)
    BY <1>1, <1>3
<1>5. r = Done(r.type, t) /\ r.type \in DOMAIN t /\ r.type \in Nat
    BY <1>1, <1>3, <1>4, SoundDone
<1>6. r.type \in 0 .. Len(t)
    BY <1>1, <1>3 DEF Sound
<1> QED BY <1>2, <1>3, <1>5, <1>6 DEF Found
\* What was found is the result of a check that was Done.
LEMMA FoundType ==
    ASSUME NEW e \in Expressions, NEW t, Good(t), NEW c, NEW id, Found(e, c, id, t)
    PROVE  /\ id \in DOMAIN t /\ id \in 0 .. Len(t) /\ id \in Nat /\ c \in 0 .. Len(t) /\ IdsOf(t)
           /\ IsDone(CheckTree[e][c][t]) /\ CheckTree[e][c][t].type = id /\ CheckTree[e][c][t].types = t
<1> DEFINE r == CheckTree[e][c][t]
<1>1. c \in 0 .. Len(t) /\ r = Done(id, t)
    BY DEF Found
<1> HIDE DEF r
<1>2. IsDone(r) /\ r.type = id /\ r.types = t
    BY <1>1, DoneAgain
<1>3. IsPrefix(t, t) /\ IdsOf(t)
    BY TableIs DEF Good, IdsOf
<1>4. id \in DOMAIN t /\ id \in 0 .. Len(t) /\ id \in Nat
    BY <1>1, <1>2, <1>3, FoundIs DEF r
<1> QED BY <1>1, <1>2, <1>3, <1>4 DEF r
\* The operand that is checked first was found.
LEMMA FoundFirst ==
    ASSUME NEW e \in Expressions, e.kind \notin Leaves, NEW t, Good(t), NEW c, NEW id, Found(e, c, id, t)
    PROVE  \E v \in DOMAIN t : /\ First(e) \in Expressions /\ Found(First(e), c, v, t)
                               /\ First(e).kind = "Identifier" => First(e).symbol \in DOMAIN names
                               /\ CheckOn(CheckTree, e, Done(v, t), c) = Done(id, t)
<1> DEFINE v == CheckTree[First(e)][c][t]
           r == CheckTree[e][c][t]
<1>1. c \in 0 .. Len(t) /\ IsDone(r) /\ r = Done(id, t) /\ r.types = t
    BY FoundType DEF Found
<1>2. First(e) \in Expressions
    BY FirstIs, OperandsAre DEF Leaves
<1>3. /\ r = CheckOn(CheckTree, e, v, c)
      /\ IsDone(v) /\ Sound(v, t) /\ Good(v.types) /\ v.type \in DOMAIN v.types
      /\ First(e).kind = "Identifier" => First(e).symbol \in DOMAIN names
      /\ IsPrefix(v.types, r.types)
    BY <1>1, FirstOf DEF Leaves
<1>4. v.types = t /\ Found(First(e), c, v.type, t) /\ v.type \in DOMAIN t
    BY <1>1, <1>2, <1>3, FoundIs
<1>5. v = Done(v.type, t)
    BY <1>4 DEF Found
<1> HIDE DEF v, r
<1>6. CheckOn(CheckTree, e, Done(v.type, t), c) = Done(id, t)
    BY <1>1, <1>3, <1>5
<1> QED BY <1>2, <1>3, <1>4, <1>6
\* The parts of a result.
LEMMA DoneIs ==
    ASSUME NEW a, NEW s, NEW b, NEW t, Done(a, s) = Done(b, t)
    PROVE  a = b /\ s = t
BY DoneAgain
\* What TheOnly picks from a set of at most one.
LEMMA OnlyOneIs ==
    ASSUME NEW ids, NEW s, NEW id, NEW t, TheOnly(ids, s) = Done(id, t)
    PROVE  id \in ids /\ s = t
<1>1. ids # {}
    BY DoneAgain DEF TheOnly
<1>2. TheOnly(ids, s) = Done(CHOOSE x \in ids : TRUE, s) /\ (CHOOSE x \in ids : TRUE) \in ids
    BY <1>1 DEF TheOnly
<1>3. PICK x : x = CHOOSE y \in ids : TRUE
    OBVIOUS
<1>4. x \in ids /\ Done(x, s) = Done(id, t)
    BY <1>2, <1>3
<1> QED BY <1>4, DoneIs

\* The kinds that coercion keeps apart.
IntegersAndFloats == Signed \cup Unsigned \cup Floats
\* The kinds that coerce to one another, strictly and loosely.
LEMMA CoercionIs ==
    ASSUME NEW a, NEW b
    PROVE  /\ CheckTypeCoercion(a, b) = "Ok" => a = b \/ (a \in Signed /\ b \in Signed /\ (a = "Int64" \/ b = "Int"))
           /\ CheckTypeCoercion(a, b) # "Invalid" => a = b \/ (a \in IntegersAndFloats /\ b \in IntegersAndFloats)
BY DEF CheckTypeCoercion, Signed, Unsigned, Floats, Fits, IntegersAndFloats
LEMMA CoercedStrictly ==
    ASSUME NEW x, NEW y, NEW t, Strictly(x, y, t)
    PROVE  LET a == t[x].kind  b == t[y].kind
           IN  a = b \/ (a \in Signed /\ b \in Signed /\ (a = "Int64" \/ b = "Int"))
BY CoercionIs DEF TryCoerce, Strictly
LEMMA CoercedLoosely ==
    ASSUME NEW x, NEW y, NEW t, Loosely(x, y, t)
    PROVE  LET a == t[x].kind  b == t[y].kind
           IN  a = b \/ (a \in IntegersAndFloats /\ b \in IntegersAndFloats)
BY CoercionIs DEF TryCoerce, Loosely
\* The kinds of the types that are built in.
LEMMA BuiltinKinds ==
    ASSUME NEW t, Good(t)
    PROVE  /\ {VoidId, IntId, BoolId, CharId, Float32Id} \subseteq DOMAIN t
           /\ t[IntId].kind = "Int" /\ t[BoolId].kind = "Bool" /\ t[CharId].kind = "Char" /\ t[Float32Id].kind = "Float32"
<1>1. 1 .. 12 \subseteq DOMAIN t /\ \A id \in 1 .. 12 : t[id] = TYPES[id]
    BY TableIs DEF Good
<1> QED BY <1>1 DEF VoidId, IntId, BoolId, CharId, Float32Id, TYPES, Plain
\* A pointer type that is looked up is found as it was asked for.
Registers(layout, t, r) == r = RegisterOrGet(layout, t, TRUE)
\* The layout of a pointer that was registered.
LEMMA PointerLaid ==
    ASSUME NEW t, Good(t), NEW layout \in Layouts, layout.kind = "Pointer", References(layout) \subseteq DOMAIN t,
           NEW id, NEW u, Registers(layout, t, Done(id, u))
    PROVE  u[id] = layout /\ id \in DOMAIN u
<1>1. \A lucky : LET r == RegisterOrGet(layout, t, lucky) IN r.types[r.type] = layout /\ r.type \in DOMAIN r.types
    BY RegisterAdds DEF Composed
<1>2. PICK r : r = RegisterOrGet(layout, t, TRUE) /\ r.types[r.type] = layout /\ r.type \in DOMAIN r.types
    BY <1>1
<1>3. r = Done(id, u)
    BY <1>2 DEF Registers
<1>4. r.type = id /\ r.types = u
    BY <1>3, DoneAgain
<1> QED BY <1>2, <1>4
\* What each kind of expression was found to be, and from what.
LEMMA IntegerFound ==
    ASSUME NEW e \in Expressions, e.kind = "Integer", NEW t, Good(t), NEW c, NEW id, Found(e, c, id, t)
    PROVE  t[id].kind \in IntegersAndFloats
<1>1. CheckTree[e][c][t] = CheckBy(CheckTree, e, c, t)
    BY CheckByContext DEF Found
<1>2. CheckBy(CheckTree, e, c, t) = Done(CheckInteger(c, t), t)
    BY DEF CheckBy
<1>3. id = CheckInteger(c, t)
    BY <1>1, <1>2, DoneIs DEF Found
<1>4. CASE id = IntId
    BY <1>4, BuiltinKinds DEF IntegersAndFloats, Signed
<1>5. CASE id # IntId
    <2>1. id = c /\ Loosely(c, IntId, t)
        BY <1>3, <1>5 DEF CheckInteger, Loosely
    <2>2. t[id].kind = "Int" \/ t[id].kind \in IntegersAndFloats
        BY <2>1, CoercedLoosely, BuiltinKinds
    <2> QED BY <2>2 DEF IntegersAndFloats, Signed
<1> QED BY <1>4, <1>5
\* What each kind of expression was found to be, from what its operands were.
LEMMA LeafFound ==
    ASSUME NEW e \in Expressions, NEW t, Good(t), NEW c, NEW id, Found(e, c, id, t)
    PROVE  /\ e.kind = "Float" => id = Float32Id
           /\ e.kind = "CString" => t[id].kind = "Pointer" /\ t[id].target_type = CharId
           /\ e.kind = "Identifier" => e.symbol \in DOMAIN names /\ id = names[e.symbol].type
<1>1. CheckBy(CheckTree, e, c, t) = Done(id, t)
    BY CheckByContext DEF Found
<1>2. CASE e.kind = "Float"
    <2>1. Done(Float32Id, t) = Done(id, t)
        BY <1>1, <1>2 DEF CheckBy
    <2> QED BY <1>2, <2>1, DoneIs
<1>3. CASE e.kind = "CString"
    <2> DEFINE layout == PointerType(TRUE, CharId)
    <2>1. Registers(layout, t, Done(id, t))
        <3>1. Done(id, t) = RegisterOrGet(layout, t, TRUE)
            BY <1>1, <1>3 DEF CheckBy
        <3> QED BY <3>1 DEF Registers
    <2>2. layout \in Layouts /\ layout.kind = "Pointer" /\ layout.target_type = CharId /\ References(layout) = {CharId}
        <3>1. CharId \in Nat
            BY DEF CharId
        <3> HIDE DEF CharId
        <3>2. layout \in [kind : {"Pointer"}, mutability : BOOLEAN, target_type : Nat]
            BY <3>1 DEF PointerType
        <3> QED BY <3>2 DEF PointerType, Layouts, References
    <2> HIDE DEF layout
    <2>3. References(layout) \subseteq DOMAIN t
        BY <2>2, BuiltinKinds
    <2>4. t[id] = layout
        BY <2>1, <2>2, <2>3, PointerLaid
    <2> QED BY <1>3, <2>2, <2>4
<1>4. CASE e.kind = "Identifier"
    <2>1. CheckIdentifier(e.symbol, t) = Done(id, t)
        BY <1>1, <1>4 DEF CheckBy
    <2>2. e.symbol \in DOMAIN names
        BY <2>1, DoneAgain DEF CheckIdentifier
    <2>3. Done(names[e.symbol].type, t) = Done(id, t)
        BY <2>1, <2>2 DEF CheckIdentifier
    <2> QED BY <1>4, <2>2, <2>3, DoneIs
<1> QED BY <1>2, <1>3, <1>4
LEMMA DereferenceFound ==
    ASSUME NEW e \in Expressions, e.kind = "Dereference", NEW t, Good(t), NEW c, NEW id, Found(e, c, id, t)
    PROVE  \E v \in DOMAIN t : Found(e.operand, c, v, t) /\ t[v].kind = "Pointer" /\ id = t[v].target_type
<1>1. PICK v \in DOMAIN t : Found(First(e), c, v, t) /\ CheckOn(CheckTree, e, Done(v, t), c) = Done(id, t)
    BY FoundFirst DEF Leaves
<1> DEFINE ids == IF t[v].kind = "Pointer" THEN Element(v, t) ELSE {}
           w == Done(v, t)
<1>2. w.type = v /\ w.types = t
    BY DoneAgain
<1> HIDE DEF w
<1>3. CheckOn(CheckTree, e, w, c) = TheOnly(ids, t)
    BY <1>2 DEF CheckOn
<1> HIDE DEF ids
<1>4. id \in ids
    BY <1>1, <1>3, OnlyOneIs DEF w
<1>5. t[v].kind = "Pointer" /\ id = t[v].target_type
    BY <1>4 DEF ids, Element
<1> QED BY <1>1, <1>5 DEF First
LEMMA AddressFound ==
    ASSUME NEW e \in Expressions, e.kind = "AddressOf", NEW t, Good(t), NEW c, NEW id, Found(e, c, id, t)
    PROVE  \E v \in DOMAIN t : /\ Found(e.operand, c, v, t) /\ t[id].kind = "Pointer" /\ id \in DOMAIN t
                               /\ t[id].target_type = v
                               /\ e.operand.kind \in {"Identifier", "Member_Access", "Dereference", "Subscript"}
<1>1. PICK v \in DOMAIN t : Found(First(e), c, v, t) /\ CheckOn(CheckTree, e, Done(v, t), c) = Done(id, t)
    BY FoundFirst DEF Leaves
<1> DEFINE w == Done(v, t)
           layout == PointerType(FALSE, v)
           good == RegisterOrGet(layout, t, TRUE)
<1>2. w.type = v /\ w.types = t
    BY DoneAgain
<1> HIDE DEF w
<1>3. CheckOn(CheckTree, e, w, c) = LvalueOr(e.operand, v, t, good)
    BY <1>2 DEF CheckOn
<1>4. LvalueOr(e.operand, v, t, good) = Done(id, t)
    BY <1>1, <1>3 DEF w
<1>5. Registers(layout, t, Done(id, t))
    <2>1. Done(id, t) = good
        <3> HIDE DEF good
        <3> QED BY <1>4, DoneAgain, LvalueAgain
    <2> QED BY <2>1 DEF Registers
<1>6. v \in Nat
    <2>1. DOMAIN t \subseteq Nat
        BY TableIs DEF Good
    <2> QED BY <2>1
<1>7. layout \in Layouts /\ layout.kind = "Pointer" /\ layout.target_type = v /\ References(layout) = {v}
    <2>1. layout \in [kind : {"Pointer"}, mutability : BOOLEAN, target_type : Nat]
        BY <1>6 DEF PointerType
    <2> QED BY <2>1 DEF PointerType, Layouts, References
<1> HIDE DEF layout
<1>8. t[id] = layout /\ id \in DOMAIN t
    <2>1. References(layout) \subseteq DOMAIN t
        BY <1>7
    <2> QED BY <1>5, <1>7, <2>1, PointerLaid
<1>10. Lvalue(e.operand, v) = "yes"
    <2>1. Lvalue(e.operand, v) \in {"yes", "no", "abort"}
        BY DEF Lvalue
    <2>2. ~IsDone(Stop("Aborted", t)) /\ ~IsDone(Failed(t)) /\ IsDone(Done(id, t))
        BY DEF IsDone, Failed, Stop, Done, Result
    <2> QED BY <1>4, <2>1, <2>2 DEF LvalueOr
<1>11. e.operand.kind \in {"Identifier", "Member_Access", "Dereference", "Subscript"}
    BY <1>10 DEF Lvalue
<1> QED BY <1>1, <1>7, <1>8, <1>11 DEF First
LEMMA SubscriptFound ==
    ASSUME NEW e \in Expressions, e.kind = "Subscript", NEW t, Good(t), NEW c, NEW id, Found(e, c, id, t)
    PROVE  \E v \in DOMAIN t, i \in DOMAIN t :
             /\ Found(e.expr, c, v, t) /\ Found(e.index, c, i, t)
             /\ t[i].kind = "Int"
             /\ \/ t[v].kind = "Pointer" /\ id = t[v].target_type
                \/ t[v].kind = "Array" /\ id = t[v].element_type
<1>1. PICK v \in DOMAIN t : Found(First(e), c, v, t) /\ CheckOn(CheckTree, e, Done(v, t), c) = Done(id, t)
    BY FoundFirst DEF Leaves
<1> DEFINE w == Done(v, t)
           i == CheckTree[e.index][c][t]
           ids == IF TryCoerce(IntId, i.type, i.types, TRUE) THEN Element(v, i.types) ELSE {}
<1>2. w.type = v /\ w.types = t
    BY DoneAgain
<1> HIDE DEF w
<1>3. CheckOn(CheckTree, e, w, c) = IF ~IsDone(i) THEN i ELSE TheOnly(ids, i.types)
    BY <1>2 DEF CheckOn
<1>4. e.index \in Expressions /\ c \in 0 .. Len(t)
    BY ExpressionForms DEF Found
<1>5. i = CheckTree[e.index][c][t]
    OBVIOUS
<1> HIDE DEF i
<1>6. IsDone(i) /\ TheOnly(ids, i.types) = Done(id, t)
    <2> HIDE DEF ids
    <2>1. IsDone(Done(id, t))
        BY DoneAgain
    <2> QED BY <1>1, <1>3, <2>1 DEF w
<1>7. id \in ids /\ i.types = t
    <2> HIDE DEF ids
    <2> QED BY <1>6, OnlyOneIs
<1>8. Found(e.index, c, i.type, t) /\ i.type \in DOMAIN t
    <2>1. IsPrefix(t, t)
        BY TableIs DEF Good
    <2> QED BY <1>4, <1>5, <1>6, <1>7, <2>1, FoundIs
<1>9. Strictly(IntId, i.type, t) /\ id \in Element(v, t)
    BY <1>7 DEF Strictly
<1>10. t[i.type].kind = "Int"
    <2>1. t[IntId].kind = "Int"
        BY BuiltinKinds
    <2>2. t[IntId].kind = t[i.type].kind \/ t[IntId].kind = "Int64" \/ t[i.type].kind = "Int"
        BY <1>9, CoercedStrictly
    <2> QED BY <2>1, <2>2
<1>11. \/ t[v].kind = "Pointer" /\ id = t[v].target_type
       \/ t[v].kind = "Array" /\ id = t[v].element_type
    BY <1>9 DEF Element
<1> QED BY <1>1, <1>8, <1>10, <1>11 DEF First
LEMMA UnaryFound ==
    ASSUME NEW e \in Expressions, e.kind = "Unary", NEW t, Good(t), NEW c, NEW id, Found(e, c, id, t)
    PROVE  \E v \in DOMAIN t : Found(e.expression, c, v, t) /\ t[v].kind = "Bool" /\ id = BoolId
<1>1. PICK v \in DOMAIN t : Found(First(e), c, v, t) /\ CheckOn(CheckTree, e, Done(v, t), c) = Done(id, t)
    BY FoundFirst DEF Leaves
<1> DEFINE w == Done(v, t)
<1>2. w.type = v /\ w.types = t
    BY DoneAgain
<1> HIDE DEF w
<1>3. CheckOn(CheckTree, e, w, c) = IF TryCoerce(BoolId, v, t, TRUE) THEN Done(BoolId, t) ELSE Failed(t)
    BY <1>2 DEF CheckOn
<1>4. Strictly(BoolId, v, t) /\ Done(BoolId, t) = Done(id, t)
    <2>1. CheckOn(CheckTree, e, w, c) = Done(id, t)
        BY <1>1 DEF w
    <2>2. Failed(t) # Done(id, t)
        BY DoneAgain
    <2>3. TryCoerce(BoolId, v, t, TRUE)
        BY <1>3, <2>1, <2>2
    <2> QED BY <1>3, <2>1, <2>3 DEF Strictly
<1>5. t[v].kind = "Bool"
    <2>1. t[BoolId].kind = "Bool"
        BY BuiltinKinds
    <2>2. t[BoolId].kind = t[v].kind \/ t[BoolId].kind \in Signed
        BY <1>4, CoercedStrictly
    <2> QED BY <2>1, <2>2 DEF Signed
<1> QED BY <1>1, <1>4, <1>5, DoneIs DEF First
LEMMA MemberFound ==
    ASSUME NEW e \in Expressions, e.kind = "Member_Access", NEW t, Good(t), NEW c, NEW id, Found(e, c, id, t)
    PROVE  \E v \in DOMAIN t, x \in DOMAIN t :
             /\ Found(e.receiver, c, v, t) /\ t[x].kind = "Struct"
             /\ x = v \/ (t[v].kind = "Pointer" /\ x = t[v].target_type)
             /\ \E f \in ToSet(t[x].fields) : f.name = e.member
             /\ id = FieldOf(t[x].fields, e.member).type
<1>1. PICK v \in DOMAIN t : Found(First(e), c, v, t) /\ CheckOn(CheckTree, e, Done(v, t), c) = Done(id, t)
    BY FoundFirst DEF Leaves
<1> DEFINE w == Done(v, t)
           x == StructOf(v, t)
           struct == t[x]
<1>2. w.type = v /\ w.types = t
    BY DoneAgain
<1> HIDE DEF w
<1>3. CheckOn(CheckTree, e, w, c) = CheckMember(e, v, t)
    BY <1>2 DEF CheckOn
<1>4. CheckMember(e, v, t) = Done(id, t)
    BY <1>1, <1>3 DEF w
<1>5. struct.kind = "Struct" /\ \E f \in ToSet(struct.fields) : f.name = e.member
    BY <1>4, DoneAgain DEF CheckMember
<1>6. CheckMember(e, v, t) = Done(FieldOf(struct.fields, e.member).type, t)
    BY <1>5 DEF CheckMember
<1>7. id = FieldOf(struct.fields, e.member).type
    BY <1>4, <1>6, DoneIs
<1>8. x \in DOMAIN t /\ (x = v \/ (t[v].kind = "Pointer" /\ x = t[v].target_type))
    BY PointedAt DEF StructOf, Good
<1> HIDE DEF x
<1> QED BY <1>1, <1>5, <1>7, <1>8 DEF First
\* Both operands of a binary operation were found, and go together.
LEMMA BinopFound ==
    ASSUME NEW e \in Expressions, e.kind = "Binop", NEW t, Good(t), NEW c, NEW id, Found(e, c, id, t)
    PROVE  \E v \in DOMAIN t, r \in DOMAIN t :
             /\ Found(e.left, c, v, t) /\ Found(e.right, v, r, t)
             /\ e.op = "Assign" => Loosely(v, r, t) /\ id = v
             /\ e.op \in Equalities => Strictly(v, r, t) /\ v \in {IntId, CharId} /\ id = BoolId
             /\ e.op \notin Equalities \cup {"Assign"} => Strictly(v, r, t) /\ id = r
<1>1. PICK v \in DOMAIN t : Found(First(e), c, v, t) /\ CheckOn(CheckTree, e, Done(v, t), c) = Done(id, t)
    BY FoundFirst DEF Leaves
<1> DEFINE w == Done(v, t)
           r == CheckTree[e.right][v][t]
           rest == CheckOperands(e, v, r.type, r.types)
<1>2. w.type = v /\ w.types = t
    BY DoneAgain
<1> HIDE DEF w
<1>3. CheckOn(CheckTree, e, w, c) = IF IsDone(r) THEN rest ELSE r
    BY <1>2 DEF CheckOn
<1>4. e.right \in Expressions /\ v \in 0 .. Len(t)
    BY <1>1, ExpressionForms, FoundType, FirstIs, OperandsAre DEF Leaves
<1>5. r = CheckTree[e.right][v][t]
    OBVIOUS
<1> HIDE DEF r
<1>6. IsDone(r) /\ rest = Done(id, t)
    <2> HIDE DEF rest
    <2>1. IsDone(Done(id, t))
        BY DoneAgain
    <2> QED BY <1>1, <1>3, <2>1 DEF w
<1>7. r.types = t
    <2>1. IsDone(rest)
        BY <1>6, DoneAgain
    <2> QED BY <1>6, <2>1, OperandsLeaveTable, DoneAgain
<1>8. Found(e.right, v, r.type, t) /\ r.type \in DOMAIN t
    <2>1. IsPrefix(t, t)
        BY TableIs DEF Good
    <2> QED BY <1>4, <1>5, <1>6, <1>7, <2>1, FoundIs
<1>9. CheckOperands(e, v, r.type, t) = Done(id, t)
    BY <1>6, <1>7
<1>14. Failed(t) # Done(id, t) /\ ~IsDone(Failed(t))
    BY DoneAgain
<1>10. ASSUME e.op = "Assign"
       PROVE  Loosely(v, r.type, t) /\ id = v
    <2> DEFINE good == UnlessConstant(e.left, v, t)
    <2>1. Done(id, t) = IF ~TryCoerce(v, r.type, t, FALSE) THEN Failed(t) ELSE LvalueOr(e.left, v, t, good)
        <3> HIDE DEF good
        <3> QED BY <1>9, <1>10 DEF CheckOperands, Equalities, good
    <2>2. good = Failed(t) \/ good = Done(v, t)
        BY DEF UnlessConstant
    <2> HIDE DEF good
    <2>3. TryCoerce(v, r.type, t, FALSE) /\ LvalueOr(e.left, v, t, good) = Done(id, t)
        BY <2>1, <1>14
    <2>4. good = Done(id, t)
        BY <2>3, DoneAgain, LvalueAgain
    <2>5. id = v
        BY <2>2, <2>4, DoneAgain, DoneIs
    <2> QED BY <2>3, <2>5 DEF Loosely
<1>11. ASSUME e.op \in Equalities
       PROVE  Strictly(v, r.type, t) /\ v \in {IntId, CharId} /\ id = BoolId
    <2>1. e.op # "Assign"
        BY <1>11 DEF Equalities
    <2>2. Done(id, t) = IF TryCoerce(v, r.type, t, TRUE) /\ v \in {IntId, CharId} THEN Done(BoolId, t) ELSE Failed(t)
        BY <1>9, <1>11, <2>1 DEF CheckOperands
    <2>3. TryCoerce(v, r.type, t, TRUE) /\ v \in {IntId, CharId}
        BY <2>2, <1>14
    <2>4. Done(id, t) = Done(BoolId, t)
        BY <2>2, <2>3
    <2> QED BY <2>3, <2>4, DoneIs DEF Strictly
<1>12. ASSUME e.op \notin Equalities \cup {"Assign"}
       PROVE  Strictly(v, r.type, t) /\ id = r.type
    <2>1. Done(id, t) = IF TryCoerce(v, r.type, t, TRUE) THEN Done(r.type, t) ELSE Failed(t)
        BY <1>9, <1>12 DEF CheckOperands
    <2>2. TryCoerce(v, r.type, t, TRUE)
        BY <2>1, <1>14
    <2>3. Done(id, t) = Done(r.type, t)
        BY <2>1, <2>2
    <2> QED BY <2>2, <2>3, DoneIs DEF Strictly
<1>13. First(e) = e.left
    BY DEF First
<1> HIDE DEF rest
<1> QED BY <1>1, <1>8, <1>10, <1>11, <1>12, <1>13
\* What a cast was found to be coerces to its target.
LEMMA CastFound ==
    ASSUME NEW e \in Expressions, e.kind = "Cast", NEW t, Good(t), NEW c, NEW id, Found(e, c, id, t)
    PROVE  \E v \in DOMAIN t : Found(e.expr, NoContext, v, t) /\ (v = id \/ Loosely(id, v, t))
<1> DEFINE target == IF e.type # None THEN Resolve(e.type, t)
                     ELSE IF c # NoContext THEN Done(c, t) ELSE Failed(t)
           v == CheckTree[e.expr][NoContext][target.types]
<1>1. c \in 0 .. Len(t) /\ Done(id, t) = CheckBy(CheckTree, e, c, t)
    BY FoundType, CheckByContext DEF Found
<1>2. CheckBy(CheckTree, e, c, t) = CheckCast(CheckTree, e, c, t)
    BY DEF CheckBy
<1>3. Done(id, t) = CASE ~IsDone(target) -> target
                      [] IsDone(target) /\ ~IsDone(v) -> v
                      [] OTHER -> IF v.type = target.type \/ TryCoerce(target.type, v.type, v.types, FALSE)
                                  THEN Done(target.type, v.types) ELSE Failed(v.types)
    BY <1>1, <1>2 DEF CheckCast
<1>4. IsDone(target) => Good(target.types) /\ IsPrefix(t, target.types)
    <2>1. CASE e.type # None
        <3>1. e.type \in Hints /\ target = Resolve(e.type, t)
            BY <2>1, ExpressionForms
        <3>2. Resolves(target, t)
            BY <3>1, ResolveIsSound DEF Good
        <3> HIDE DEF target
        <3> QED BY <3>2, GoOn DEF Resolves, Good
    <2>2. CASE e.type = None /\ c # NoContext
        <3>1. target.types = t
            BY <2>2, DoneAgain
        <3> QED BY <3>1, TableIs DEF Good
    <2>3. CASE e.type = None /\ c = NoContext
        BY <2>3, DoneAgain
    <2> QED BY <2>1, <2>2, <2>3
<1>5. v = CheckTree[e.expr][NoContext][target.types]
    OBVIOUS
<1> HIDE DEF target
<1>6. IsDone(target) /\ IsDone(v) /\ Done(id, t) = Done(target.type, v.types)
      /\ (v.type = target.type \/ TryCoerce(target.type, v.type, v.types, FALSE))
    <2>1. IsDone(Done(id, t)) /\ Failed(v.types) # Done(id, t)
        BY DoneAgain
    <2> HIDE DEF v
    <2> QED BY <1>3, <2>1
<1> HIDE DEF v
<1>7. id = target.type /\ v.types = t
    BY <1>6, DoneIs
<1>8. Good(target.types) /\ NoContext \in 0 .. Len(target.types)
    <2>1. Good(target.types)
        BY <1>4, <1>6
    <2>2. Len(target.types) \in Nat
        BY <2>1, TableIs DEF Good
    <2> QED BY <2>1, <2>2 DEF NoContext
<1>9. e.expr \in Expressions
    BY ExpressionForms
<1>10. target.types = t
    <2>1. Sound(v, target.types)
        BY <1>5, <1>8, <1>9, ChecksAreSound DEF Sounds, Good
    <2>2. IsPrefix(target.types, t)
        BY <1>7, <2>1 DEF Sound
    <2> QED BY <1>4, <1>6, <2>2, Between DEF Good
<1>11. Found(e.expr, NoContext, v.type, t) /\ v.type \in DOMAIN t
    <2>1. IsPrefix(t, t)
        BY TableIs DEF Good
    <2> QED BY <1>5, <1>6, <1>7, <1>8, <1>9, <1>10, <2>1, FoundIs
<1>12. v.type = id \/ Loosely(id, v.type, t)
    BY <1>6, <1>7 DEF Loosely
<1> QED BY <1>11, <1>12
\* A compile-time value is never found.
LEMMA EvalFound ==
    ASSUME NEW e \in Expressions, e.kind = "Eval", NEW t, Good(t), NEW c, NEW id, Found(e, c, id, t)
    PROVE  FALSE
<1>1. PICK v \in DOMAIN t : CheckOn(CheckTree, e, Done(v, t), c) = Done(id, t)
    BY FoundFirst DEF Leaves
<1>2. CheckOn(CheckTree, e, Done(v, t), c) = Stop("Aborted", Done(v, t).types)
    BY DEF CheckOn
<1>3. ~IsDone(Stop("Aborted", Done(v, t).types))
    BY DEF IsDone, Stop, Result
<1>4. IsDone(Done(id, t))
    BY DoneAgain
<1> QED BY <1>1, <1>2, <1>3, <1>4
\* The length of a list is a number.
LEMMA LengthIs ==
    ASSUME NEW S, NEW s \in Seq(S)
    PROVE  Len(s) \in Nat
OBVIOUS
ArgumentFound(a, n, schema, t) ==
    \E c, i : Found(a, c, i, t) /\ (HasParameter(n, schema) => Strictly(schema.parameters[n], i, t))
\* The arguments of a call that adds nothing were found.
ChecksOf(checks, as) == Len(checks) = Len(as) /\ \A n \in 1 .. Len(as) : checks[n] = CheckTree[as[n]]
AllFound(as, schema, t) == \A n \in 1 .. Len(as) : ArgumentFound(as[n], n, schema, t)
ArgumentsDone(checks, as, schema, status, result, id, t) ==
    /\ as \in Seq(Expressions) /\ ChecksOf(checks, as) /\ schema.parameters \in Seq(DOMAIN t)
    /\ CheckArguments(checks, schema, Result(status, result, t)) = Done(id, t)
\* Every argument of a call that was Done was found.
LEMMA ArgumentsFound ==
    ASSUME NEW checks, NEW as, NEW schema, NEW status, NEW result, NEW id, NEW t, Good(t),
           ArgumentsDone(checks, as, schema, status, result, id, t)
    PROVE  status = "Done" /\ id = result /\ AllFound(as, schema, t)
<1>11. /\ as \in Seq(Expressions) /\ ChecksOf(checks, as) /\ schema.parameters \in Seq(DOMAIN t)
       /\ CheckArguments(checks, schema, Result(status, result, t)) = Done(id, t)
    BY DEF ArgumentsDone
<1> USE <1>11
<1> DEFINE m == Len(as)
<1>10. m \in Nat /\ Len(checks) = m /\ Len(as) = m /\ \A n \in 1 .. m : checks[n] = CheckTree[as[n]]
    <2>1. m \in Nat
        BY LengthIs
    <2> QED BY <2>1 DEF ChecksOf
<1> SUFFICES status = "Done" /\ id = result /\ \A n \in 1 .. m : ArgumentFound(as[n], n, schema, t)
    BY DEF AllFound
<1> HIDE DEF m
<1> USE <1>10
<1> DEFINE r == Result(status, result, t)
<1>0. r.types = t /\ (IsDone(r) => status = "Done" /\ r = Done(result, t))
    BY DEF IsDone, Result, Done
<1> HIDE DEF r
<1>1. PICK a : /\ a[0] = [result |-> r, over |-> FALSE]
               /\ \A n \in 1 .. m : a[n] = CheckArgument(checks[n], n, schema, a[n - 1])
               /\ CheckArguments(checks, schema, r) = a[m].result
    <2>1. PICK a : Arguments(a, checks, m, schema, r)
        BY ArgumentsRun
    <2> QED BY <2>1 DEF Arguments
<1> DEFINE u(n) == a[n].result.types
           UptoFound(n) == \A k \in 1 .. n : ArgumentFound(as[k], k, schema, t)
           Goes(n) == /\ IsCall(a[n])
                      /\ IsDone(a[n].result) =>
                           /\ IsDone(r) /\ a[n] = Going(result, u(n)) /\ Good(u(n)) /\ IsPrefix(t, u(n))
                           /\ (IsPrefix(u(n), t) => UptoFound(n))
           P(n) == n <= m => Goes(n)
           S == {n \in Nat : P(n)}
<1>2. 0 \in S
    <2>1. IsCall(a[0]) /\ a[0].result = r
        BY <1>1, CallGoesOn
    <2>2. IsDone(r) => a[0] = Going(result, t)
        BY <1>0, <1>1 DEF Going
    <2>3. UptoFound(0)
        OBVIOUS
    <2>4. IsPrefix(t, t)
        BY TableIs DEF Good
    <2> HIDE DEF UptoFound
    <2>5. Goes(0)
        BY <1>0, <2>1, <2>2, <2>3, <2>4
    <2> HIDE DEF Goes
    <2> QED BY <2>5
<1>3. ASSUME NEW n \in Nat, n \in S
      PROVE  n + 1 \in S
    <2> SUFFICES ASSUME n + 1 <= m
                 PROVE  Goes(n + 1)
        <3> HIDE DEF Goes
        <3> QED OBVIOUS
    <2>0. n <= m /\ n + 1 \in 1 .. m /\ (n + 1) - 1 = n /\ n + 1 >= 1 /\ n + 1 \in Nat
        OBVIOUS
    <2>1. a[n + 1] = CheckArgument(checks[n + 1], n + 1, schema, a[n])
        BY <1>1, <2>0
    <2>2. Goes(n)
        BY <1>3, <2>0
    <2>3. CASE ~IsDone(a[n].result)
        <3>1. IsCall(a[n])
            BY <2>2
        <3>2. IsCall(a[n + 1]) /\ ~IsDone(a[n + 1].result)
            BY <2>1, <2>3, <3>1, ArgumentNotDone
        <3> QED BY <3>2
    <2>4. CASE IsDone(a[n].result)
        <3> DEFINE w == u(n)
                   next == a[n + 1]
                   check == CheckTree[as[n + 1]]
        <3>1. a[n] = Going(result, w) /\ Good(w) /\ IsPrefix(t, w) /\ IsDone(r) /\ (IsPrefix(w, t) => UptoFound(n))
            BY <2>2, <2>4
        <3> HIDE DEF UptoFound
        <3>2. schema.parameters \in Seq(DOMAIN w)
            <4>1. DOMAIN t \subseteq DOMAIN w
                BY <3>1, LaterTable DEF Good
            <4> HIDE DEF w
            <4> QED BY <4>1
        <3> HIDE DEF u
        <3>3. next = CheckArgument(check, n + 1, schema, Going(result, w))
            BY <2>0, <2>1, <3>1
        <3>4. as[n + 1] \in Expressions /\ Sounds(check)
            BY <2>0, ElementOfSeq, ChecksAreSound
        <3> HIDE DEF w
        <3> HIDE DEF next, check
        <3>6. /\ IsCall(next)
              /\ IsDone(next.result) =>
                   \E c \in 0 .. Len(w) :
                     /\ IsDone(check[c][w])
                     /\ next = Going(result, check[c][w].types)
                     /\ HasParameter(n + 1, schema) =>
                          Strictly(schema.parameters[n + 1], check[c][w].type, check[c][w].types)
            BY <2>0, <3>1, <3>2, <3>3, <3>4, ArgumentIs
        <3>7. ASSUME IsDone(next.result)
              PROVE  /\ next = Going(result, next.result.types)
                     /\ Good(next.result.types) /\ IsPrefix(t, next.result.types)
                     /\ (IsPrefix(next.result.types, t) => UptoFound(n + 1))
            <4>1. PICK c \in 0 .. Len(w) :
                     /\ IsDone(check[c][w])
                     /\ next = Going(result, check[c][w].types)
                     /\ HasParameter(n + 1, schema) =>
                          Strictly(schema.parameters[n + 1], check[c][w].type, check[c][w].types)
                BY <3>6, <3>7
            <4> DEFINE q == check[c][w]
                       later == q.types
            <4>2. Sound(q, w)
                BY <3>1, <3>4 DEF Sounds
            <4>3. Good(later) /\ IsPrefix(w, later) /\ IsPrefix(t, later)
                <5> HIDE DEF q
                <5>1. Good(later) /\ IsPrefix(w, later)
                    BY <3>1, <4>2, GoOn DEF Good
                <5> QED BY <3>1, <5>1, LaterStill DEF Good
            <4>4. next = Going(result, later) /\ next.result.types = later
                <5>1. next = Going(result, later)
                    BY <4>1
                <5> HIDE DEF later
                <5> QED BY <5>1, DoneAgain DEF Going
            <4>5. ASSUME IsPrefix(later, t)
                  PROVE  UptoFound(n + 1)
                <5>1. later = t
                    <6> HIDE DEF later
                    <6> QED BY <4>3, <4>5, Between DEF Good
                <5>2. w = t
                    <6> HIDE DEF later
                    <6> QED BY <3>1, <4>3, <5>1, Between DEF Good
                <5>3. UptoFound(n)
                    BY <3>1, <5>2, TableIs DEF Good
                <5>4. Found(as[n + 1], c, q.type, t)
                    <6>1. q = CheckTree[as[n + 1]][c][t] /\ c \in 0 .. Len(t) /\ IsDone(q) /\ IsPrefix(q.types, t)
                        BY <4>1, <4>5, <5>2 DEF check
                    <6> HIDE DEF q
                    <6> QED BY <3>4, <6>1, FoundIs
                <5>5. HasParameter(n + 1, schema) => Strictly(schema.parameters[n + 1], q.type, t)
                    BY <4>1, <5>1
                <5>6. ArgumentFound(as[n + 1], n + 1, schema, t)
                    <6> HIDE DEF q
                    <6> QED BY <5>4, <5>5 DEF ArgumentFound
                <5>7. \A k \in 1 .. n + 1 : k \in 1 .. n \/ k = n + 1
                    OBVIOUS
                <5> QED BY <5>3, <5>6, <5>7 DEF UptoFound
            <4> HIDE DEF later, q
            <4> QED BY <4>3, <4>4, <4>5
        <3> QED BY <3>1, <3>6, <3>7 DEF next, u
    <2> QED BY <2>3, <2>4
<1> HIDE DEF S, P
<1>4. \A n \in Nat : n \in S
    BY <1>2, <1>3, SetInduction
<1>5. Goes(m)
    <2> HIDE DEF Goes
    <2>1. m \in S
        BY <1>4
    <2> QED BY <2>1 DEF S, P
<1>6. a[m].result = Done(id, t)
    BY <1>1 DEF r
<1>7. IsDone(a[m].result) /\ a[m].result.types = t
    BY <1>6, DoneAgain
<1>8. IsDone(r) /\ a[m] = Going(result, t) /\ UptoFound(m)
    BY <1>5, <1>7, TableIs DEF Good
<1>9. id = result
    <2>1. Done(id, t) = Done(result, t)
        BY <1>6, <1>8 DEF Going
    <2> QED BY <2>1, DoneIs
<1> QED BY <1>0, <1>8, <1>9
\* A call was found: its callee is a function, with enough arguments.
LEMMA CallFound ==
    ASSUME NEW e \in Expressions, e.kind = "Function_Call", NEW t, Good(t), NEW c, NEW id, Found(e, c, id, t)
    PROVE  LET symbol == names[e.callee.symbol]
               v == symbol.type
           IN  /\ e.callee.kind = "Identifier" /\ e.callee.symbol \in DOMAIN names /\ symbol.sort = "Function"
               /\ v \in DOMAIN t /\ Found(e.callee, c, v, t) /\ t[v].kind = "Function" /\ id = t[v].return_type
               /\ EnoughArguments(Len(e.arguments), symbol.schema)
               /\ \A n \in 1 .. Len(e.arguments) : ArgumentFound(e.arguments[n], n, symbol.schema, t)
<1>1. PICK v \in DOMAIN t : /\ First(e) \in Expressions /\ Found(First(e), c, v, t)
                            /\ First(e).kind = "Identifier" => First(e).symbol \in DOMAIN names
                            /\ CheckOn(CheckTree, e, Done(v, t), c) = Done(id, t)
    BY FoundFirst DEF Leaves
<1> DEFINE w == Done(v, t)
           layout == t[v]
           symbol == names[e.callee.symbol]
           m == Len(e.arguments)
           enough == EnoughArguments(m, symbol.schema)
           status == IF enough THEN "Done" ELSE "Failed"
           checks == [n \in DOMAIN e.arguments |-> CheckTree[e.arguments[n]]]
<1>2. First(e) = e.callee
    BY DEF First
<1>3. w.type = v /\ w.types = t
    BY DoneAgain
<1>4. Done(id, t) = CheckFunctionCall(checks, e, w)
    BY <1>1 DEF CheckOn
<1>5. Done(id, t) = CASE layout.kind # "Function" -> Failed(t)
                      [] layout.kind = "Function" /\ (e.callee.kind # "Identifier" \/ symbol.sort # "Function") ->
                           Stop("Aborted", t)
                      [] OTHER -> CheckArguments(checks, symbol.schema, Result(status, layout.return_type, t))
    <2> HIDE DEF checks, w
    <2> QED BY <1>3, <1>4 DEF CheckFunctionCall
<1>6. /\ layout.kind = "Function" /\ e.callee.kind = "Identifier" /\ symbol.sort = "Function"
      /\ CheckArguments(checks, symbol.schema, Result(status, layout.return_type, t)) = Done(id, t)
    <2>1. ~IsDone(Stop("Aborted", t)) /\ ~IsDone(Failed(t)) /\ IsDone(Done(id, t))
        BY DoneAgain DEF Stop, Failed, Result, IsDone
    <2> HIDE DEF checks, status, layout, symbol
    <2> QED BY <1>5, <2>1
<1>7. e.callee.symbol \in DOMAIN names /\ symbol.schema.parameters \in Seq(DOMAIN t)
    <2>1. e.callee.symbol \in DOMAIN names
        BY <1>1, <1>2, <1>6
    <2>2. IsSymbol(symbol, t)
        BY <2>1 DEF Good, Symbols
    <2> QED BY <1>6, <2>1, <2>2 DEF IsSymbol
<1>8. e.arguments \in Seq(Expressions) /\ m \in Nat /\ DOMAIN e.arguments = 1 .. m
    BY ExpressionForms
<1>9. Len(checks) = m /\ \A n \in 1 .. m : checks[n] = CheckTree[e.arguments[n]]
    BY <1>8
<1> HIDE DEF checks
<1>10. /\ status = "Done" /\ id = layout.return_type
       /\ \A n \in 1 .. m : ArgumentFound(e.arguments[n], n, symbol.schema, t)
    <2> DEFINE as == e.arguments
               schema == symbol.schema
               result == layout.return_type
    <2>1. as \in Seq(Expressions) /\ Len(as) = m /\ ChecksOf(checks, as)
        BY <1>8, <1>9 DEF ChecksOf
    <2>2. schema.parameters \in Seq(DOMAIN t) /\ CheckArguments(checks, schema, Result(status, result, t)) = Done(id, t)
        BY <1>6, <1>7
    <2> HIDE DEF as, schema, result, m, status
    <2>3. ArgumentsDone(checks, as, schema, status, result, id, t)
        BY <2>1, <2>2 DEF ArgumentsDone
    <2>4. status = "Done" /\ id = result /\ AllFound(as, schema, t)
        BY <2>3, ArgumentsFound
    <2> QED BY <2>1, <2>4 DEF AllFound, as, schema, result
<1>11. enough
    <2> HIDE DEF enough
    <2> QED BY <1>10
<1>12. v = symbol.type
    <2>1. e.callee \in Expressions /\ Found(e.callee, c, v, t)
        BY <1>1, <1>2
    <2> QED BY <1>6, <2>1, LeafFound
<1>13. v \in DOMAIN t /\ Found(e.callee, c, v, t)
    BY <1>1, <1>2
<1> SUFFICES /\ e.callee.kind = "Identifier" /\ e.callee.symbol \in DOMAIN names /\ symbol.sort = "Function"
             /\ symbol.type \in DOMAIN t /\ Found(e.callee, c, symbol.type, t)
             /\ t[symbol.type].kind = "Function" /\ id = t[symbol.type].return_type
             /\ enough /\ \A n \in 1 .. m : ArgumentFound(e.arguments[n], n, symbol.schema, t)
    OBVIOUS
<1> HIDE DEF m, symbol, enough
<1> QED BY <1>6, <1>7, <1>10, <1>11, <1>12, <1>13

\* Every part of what was found was found.
FoundSomehow(e, t) == \E c, id : Found(e, c, id, t)
\* So all operands of what was found were found, and all its parts.
LEMMA OperandsFoundToo ==
    ASSUME NEW e \in Expressions, NEW t, Good(t), FoundSomehow(e, t), NEW o \in Operands(e)
    PROVE  FoundSomehow(o, t)
<1>1. PICK c, id : Found(e, c, id, t)
    BY DEF FoundSomehow
<1>2. CASE e.kind \in {"Integer", "Float", "CString", "Identifier"}
    BY <1>2 DEF Operands
<1>3. CASE e.kind = "Dereference"
    BY <1>1, <1>3, DereferenceFound DEF Operands, FoundSomehow
<1>4. CASE e.kind = "AddressOf"
    BY <1>1, <1>4, AddressFound DEF Operands, FoundSomehow
<1>5. CASE e.kind = "Subscript"
    BY <1>1, <1>5, SubscriptFound DEF Operands, FoundSomehow
<1>6. CASE e.kind = "Unary"
    BY <1>1, <1>6, UnaryFound DEF Operands, FoundSomehow
<1>7. CASE e.kind = "Member_Access"
    BY <1>1, <1>7, MemberFound DEF Operands, FoundSomehow
<1>8. CASE e.kind = "Binop"
    BY <1>1, <1>8, BinopFound DEF Operands, FoundSomehow
<1>9. CASE e.kind = "Cast"
    BY <1>1, <1>9, CastFound DEF Operands, FoundSomehow
<1>10. CASE e.kind = "Eval"
    BY <1>1, <1>10, EvalFound
<1>11. CASE e.kind = "Function_Call"
    <2>1. o = e.callee \/ \E n \in 1 .. Len(e.arguments) : o = e.arguments[n]
        <3>1. Operands(e) = {e.callee} \cup ToSet(e.arguments) /\ DOMAIN e.arguments = 1 .. Len(e.arguments)
            BY <1>11, ExpressionForms DEF Operands
        <3> QED BY <3>1 DEF ToSet
    <2>2. FoundSomehow(e.callee, t)
        BY <1>1, <1>11, CallFound DEF FoundSomehow
    <2>3. ASSUME NEW n \in 1 .. Len(e.arguments)
          PROVE  FoundSomehow(e.arguments[n], t)
        BY <1>1, <1>11, CallFound DEF FoundSomehow, ArgumentFound
    <2> QED BY <2>1, <2>2, <2>3
<1> QED BY <1>2, <1>3, <1>4, <1>5, <1>6, <1>7, <1>8, <1>9, <1>10, <1>11, ExpressionForms
PartsFoundToo(e, t) == FoundSomehow(e, t) => \A p \in Parts[e] : p \in Expressions /\ FoundSomehow(p, t)
LEMMA PartsFound ==
    ASSUME NEW t, Good(t), NEW e \in Expressions
    PROVE  PartsFoundToo(e, t)
<1> DEFINE S == {n \in Nat : \A x \in ExpressionsBelow(n) : PartsFoundToo(x, t)}
<1>1. 0 \in S
    BY DepthAssumption DEF ExpressionsBelow
<1>2. ASSUME NEW n \in Nat, n \in S
      PROVE  n + 1 \in S
    <2>1. ASSUME NEW x \in ExpressionsBelow(n + 1), FoundSomehow(x, t)
          PROVE  \A p \in Parts[x] : p \in Expressions /\ FoundSomehow(p, t)
        <3>1. x \in Expressions /\ Parts[x] = {x} \cup UNION {Parts[o] : o \in Operands(x)}
            BY PartsIs DEF ExpressionsBelow
        <3>2. \A o \in Operands(x) : o \in ExpressionsBelow(n) /\ FoundSomehow(o, t)
            BY <2>1, <3>1, HeightOfOperands, OperandsFoundToo DEF ExpressionsBelow
        <3>3. \A o \in Operands(x) : \A p \in Parts[o] : p \in Expressions /\ FoundSomehow(p, t)
            BY <1>2, <3>2 DEF PartsFoundToo
        <3> QED BY <2>1, <3>1, <3>3
    <2> QED BY <2>1 DEF PartsFoundToo
<1> HIDE DEF S
<1>3. Depth + 1 \in S
    BY <1>1, <1>2, SetInduction, AllBelow
<1> QED BY <1>3, AllBelow DEF S

-----------------------------------------------------------------------------
(* What is emitted for what was found.                                     *)

\* Every struct of the table is the type of its name.
StructsNamed(t) == \A x \in DOMAIN t : t[x].kind = "Struct" =>
                       t[x].name \in DOMAIN names /\ names[t[x].name].type = x
Places == {"Identifier", "Dereference", "Subscript", "Member_Access", "Function_Call"}
\* A C type goes with the type of an id.
Emits(ctype, id) ==
    LET k == types[id].kind
    IN  /\ k \in IntegerKinds => ctype.kind \in IntegerKinds
        /\ k \in Floats => ctype.kind \in Numbers
        /\ k \notin Numbers => ctype.kind = k
        /\ k = "Pointer" => ctype.target = Shape(types[id].target_type)
        /\ k \notin Numbers \cup {"Pointer"} => ctype = Shape(id)
\* An expression is emitted as what it was found to be, unless it is misread.
EmitsAlways(e, t) ==
    \A c, id : Found(e, c, id, t) /\ ~Misread(e) =>
        Emits(CType(e), id) /\ (e.kind \in Places => CType(e) = Shape(id))
\* t is where the types began or all there are, and says of each of its ids what they do.
OnTable(t) == Good(types) /\ Good(t) /\ IsPrefix(t, types) /\ StructsNamed(t)
\* What such a table is.
LEMMA OnTableIs ==
    ASSUME NEW t, OnTable(t)
    PROVE  /\ Good(types) /\ Good(t) /\ IsTypes(types) /\ SameIds(t, types)
           /\ \A x \in DOMAIN t : x \in DOMAIN types /\ types[x] = t[x]
<1>1. IsTypes(types) /\ SameIds(t, types)
    BY IdsAreTheSame DEF OnTable, Good
<1> QED BY <1>1 DEF OnTable, SameIds
LEMMA NamedOnTable ==
    ASSUME NEW t, OnTable(t), NEW x \in DOMAIN t, types[x].kind = "Struct"
    PROVE  types[x].name \in DOMAIN names /\ names[types[x].name].type = x
<1>1. types[x] = t[x]
    BY OnTableIs
<1> QED BY <1>1 DEF OnTable, StructsNamed
LEMMA CoercedOnTable ==
    ASSUME NEW t, OnTable(t), NEW a \in DOMAIN t, NEW b \in DOMAIN t
    PROVE  /\ Strictly(a, b, t) <=> Strictly(a, b, types)
           /\ Loosely(a, b, t) <=> Loosely(a, b, types)
BY OnTableIs, CoercesStrictly, CoercesLoosely DEF Strictly, Loosely

\* What an id stands for.
LEMMA ShapeIs ==
    ASSUME IsTypes(types), NEW id \in DOMAIN types
    PROVE  LET k == types[id].kind
           IN  /\ Shape(id).kind = k
               /\ k = "Pointer" => Shape(id).target = Shape(types[id].target_type)
               /\ k = "Array" => Shape(id).target = Shape(types[id].element_type)
               /\ k = "Function" => Shape(id).result = Shape(types[id].return_type)
               /\ k = "Struct" => Shape(id).name = types[id].name
               /\ k \notin Composed => Shape(id) = types[id]
<1> DEFINE k == types[id].kind
           read == Reading(types)
<1>1. Shape(id) = ReadBy(read, types[id]).shape
    BY ReadingIs DEF Shape
<1>2. CASE k = "Pointer"
    <2>1. Shape(id) = [kind |-> "Pointer", const |-> types[id].mutability, target |-> read[types[id].target_type].shape]
        BY <1>1, <1>2 DEF ReadBy, PointerRead
    <2> HIDE DEF read
    <2> QED BY <1>2, <2>1 DEF Composed, Shape, read
<1>3. CASE k = "Array"
    <2>1. Shape(id) = [kind |-> "Array", count |-> types[id].element_count, target |-> read[types[id].element_type].shape]
        BY <1>1, <1>3 DEF ReadBy, ArrayRead
    <2> QED BY <1>3, <2>1 DEF Composed, Shape
<1>4. CASE k = "Function"
    <2> DEFINE ps == [n \in DOMAIN types[id].parameters |-> read[types[id].parameters[n]].shape]
    <2>1. Shape(id) = [kind |-> "Function", parameters |-> ps, result |-> read[types[id].return_type].shape]
        BY <1>1, <1>4 DEF ReadBy, Written
    <2> HIDE DEF ps
    <2> QED BY <1>4, <2>1 DEF Composed, Shape
<1>5. CASE k = "Struct"
    <2>1. Shape(id) = [kind |-> "Struct", name |-> types[id].name]
        BY <1>1, <1>5 DEF ReadBy, Written
    <2> QED BY <1>5, <2>1 DEF Composed
<1>6. CASE k \notin Composed
    <2>1. Shape(id) = types[id]
        BY <1>1, <1>6 DEF ReadBy, Written, Composed
    <2> QED BY <1>6, <2>1 DEF Composed
<1> QED BY <1>2, <1>3, <1>4, <1>5, <1>6 DEF Composed
\* The C type that is written for an id goes with it.
LEMMA ShapeEmits ==
    ASSUME IsTypes(types), NEW id \in DOMAIN types
    PROVE  Emits(Shape(id), id)
<1>1. Shape(id).kind = types[id].kind
    BY ShapeIs
<1>2. types[id].kind = "Pointer" => Shape(id).target = Shape(types[id].target_type)
    BY ShapeIs
<1> QED BY <1>1, <1>2 DEF Emits, Numbers
\* What the parts of an expression that is not misread are emitted as.
LEMMA MisreadParts ==
    ASSUME NEW e \in Expressions, ~Misread(e), NEW o \in Operands(e)
    PROVE  o \in Expressions /\ ~Misread(o)
<1>1. Parts[o] \subseteq Parts[e] /\ o \in Expressions
    BY PartsIs, OperandsAre
<1> QED BY <1>1 DEF Misread
\* What the parts of an expression that is not misread are emitted as.
LEMMA NotMisread ==
    ASSUME NEW e \in Expressions, ~Misread(e)
    PROVE  /\ e.kind = "Binop" /\ e.op \notin Equalities \cup {"Assign"} => CType(e.right).kind \in Numbers
           /\ e.kind = "Binop" /\ e.op = "Assign" => Alike(CType(e.left), CType(e.right))
           /\ e.kind = "Cast" => CType(e.expr).kind \in IntegerKinds
<1>1. e \in Parts[e]
    BY PartsIs
<1> QED BY <1>1 DEF Misread
\* The type of what is emitted, one kind of expression after the other.
LEMMA CTypeIs ==
    ASSUME NEW e \in Expressions
    PROVE  /\ e.kind \in {"Integer", "Unary"} => CType(e) = Plain("Int")
           /\ e.kind = "Float" => CType(e) = Plain("Float64")
           /\ e.kind = "CString" => CType(e).kind = "Pointer" /\ CType(e).target = Plain("Char")
           /\ e.kind = "Identifier" => CType(e) = Shape(names[e.symbol].type)
           /\ e.kind \in {"Dereference", "Subscript"} => CType(e) = TargetOf(CType(First(e)))
           /\ e.kind = "AddressOf" => CType(e).kind = "Pointer" /\ CType(e).target = CType(First(e))
           /\ e.kind = "Function_Call" =>
                CType(e) = IF CType(First(e)).kind = "Function" THEN CType(First(e)).result ELSE Bad
           /\ e.kind = "Cast" => CType(e) = CType(e.expr)
<1>1. Emitted[e] = EmittedBy(Emitted, e)
    BY EmittedIs
<1>2. CASE e.kind \in {"Integer", "Unary"}
    <2>1. Emitted[e] = [type |-> Plain("Int"), const |-> FALSE]
        BY <1>1, <1>2 DEF EmittedBy
    <2> QED BY <1>2, <2>1 DEF CType
<1>8. CASE e.kind = "Float"
    BY <1>1, <1>8 DEF EmittedBy, CType
<1>9. CASE e.kind = "Identifier"
    BY <1>1, <1>9 DEF EmittedBy, CType
<1>3. CASE e.kind = "CString"
    BY <1>1, <1>3 DEF EmittedBy, CType
<1>4. CASE e.kind \in {"Dereference", "Subscript"}
    <2> DEFINE first == Emitted[First(e)]
               c == first.type.kind = "Pointer" /\ first.type.const
    <2>1. Emitted[e] = [type |-> TargetOf(first.type), const |-> c]
        BY <1>1, <1>4 DEF EmittedBy
    <2> HIDE DEF c
    <2> QED BY <1>4, <2>1 DEF CType
<1>5. CASE e.kind = "AddressOf"
    BY <1>1, <1>5 DEF EmittedBy, CType
<1>6. CASE e.kind = "Function_Call"
    BY <1>1, <1>6 DEF EmittedBy, CType
<1>7. CASE e.kind = "Cast"
    BY <1>1, <1>7 DEF EmittedBy, CType
<1> QED BY <1>2, <1>3, <1>4, <1>5, <1>6, <1>7, <1>8, <1>9
\* The C type of a member, and of a binary operation.
LEMMA CTypeOfMember ==
    ASSUME NEW e \in Expressions, e.kind = "Member_Access"
    PROVE  LET r == CType(e.receiver)
               struct == IF r.kind \in Addresses THEN r.target ELSE r
               fields == types[names[struct.name].type].fields
           IN  struct.kind = "Struct" /\ (\E f \in ToSet(fields) : f.name = e.member) =>
                 CType(e) = Shape(FieldOf(fields, e.member).type)
<1> DEFINE first == Emitted[First(e)]
           r == first.type
           struct == IF r.kind \in Addresses THEN r.target ELSE r
           all == types[names[struct.name].type].fields
           fields == IF struct.kind = "Struct" THEN all ELSE <<>>
           t == IF \E f \in ToSet(fields) : f.name = e.member THEN Shape(FieldOf(fields, e.member).type) ELSE Bad
           c == IF r.kind = "Pointer" THEN r.const ELSE first.const
<1>1. Emitted[e] = EmittedBy(Emitted, e) /\ First(e) = e.receiver
    BY EmittedIs DEF First
<1>2. EmittedBy(Emitted, e) = [type |-> t, const |-> c]
    BY DEF EmittedBy
<1>3. CType(e) = t
    <2> HIDE DEF t, c
    <2> QED BY <1>1, <1>2 DEF CType
<1>4. r = CType(e.receiver)
    BY <1>1 DEF CType
<1>5. struct.kind = "Struct" /\ (\E f \in ToSet(all) : f.name = e.member) => t = Shape(FieldOf(all, e.member).type)
    OBVIOUS
<1> SUFFICES struct.kind = "Struct" /\ (\E f \in ToSet(all) : f.name = e.member) =>
               CType(e) = Shape(FieldOf(all, e.member).type)
    BY <1>4
<1> HIDE DEF struct, t, all
<1> QED BY <1>3, <1>5
LEMMA CTypeOfBinop ==
    ASSUME NEW e \in Expressions, e.kind = "Binop"
    PROVE  /\ e.op = "Assign" => CType(e) = CType(e.right)
           /\ e.op # "Assign" => LET ts == BinopType(e.op, CType(e.left), CType(e.right))
                                 IN  ts # {} => CType(e) \in ts
<1> DEFINE ts == BinopType(e.op, CType(e.left), CType(e.right))
<1>1. Emitted[e] = EmittedBy(Emitted, e) /\ First(e) = e.left
    BY EmittedIs DEF First
<1>2. CType(e) = IF e.op = "Assign" THEN CType(e.right) ELSE IF ts = {} THEN Bad ELSE CHOOSE t \in ts : TRUE
    <2> DEFINE t == IF e.op = "Assign" THEN CType(e.right) ELSE IF ts = {} THEN Bad ELSE CHOOSE x \in ts : TRUE
               c == FALSE
    <2>1. EmittedBy(Emitted, e) = [type |-> t, const |-> FALSE]
        BY <1>1 DEF EmittedBy, CType
    <2> HIDE DEF t
    <2>2. CType(e) = t
        BY <1>1, <2>1 DEF CType
    <2> QED BY <2>2 DEF t
<1>3. ts # {} => (CHOOSE t \in ts : TRUE) \in ts
    OBVIOUS
<1> HIDE DEF ts
<1> QED BY <1>2, <1>3 DEF ts
\* What the kind of a C type says of the type that it goes with, and the other way round.
LEMMA EmitsKind ==
    ASSUME NEW ctype, NEW id, Emits(ctype, id)
    PROVE  LET k == types[id].kind
           IN  /\ ctype.kind \in Numbers <=> k \in Numbers
               /\ k \in IntegerKinds => ctype.kind \in IntegerKinds
               /\ ctype.kind \notin Numbers => ctype.kind = k
               /\ ctype.kind \in Floats => k \in Floats
BY DEF Emits, Numbers, IntegerKinds, Floats
\* Numbers are emitted as numbers.
LEMMA EmitsNumber ==
    ASSUME NEW ctype, NEW id, types[id].kind \in Numbers,
           types[id].kind \in IntegerKinds => ctype.kind \in IntegerKinds,
           types[id].kind \in Floats => ctype.kind \in Numbers
    PROVE  Emits(ctype, id)
BY DEF Emits, Numbers, IntegerKinds, Floats
\* Each kind of expression is emitted as what it was found to be.
LEMMA LeafEmits ==
    ASSUME NEW t, OnTable(t), NEW e \in Expressions, e.kind \in {"Integer", "Float", "CString", "Identifier"},
           NEW c, NEW id, Found(e, c, id, t)
    PROVE  Emits(CType(e), id) /\ (e.kind \in Places => CType(e) = Shape(id))
<1>1. id \in DOMAIN types /\ types[id] = t[id] /\ Good(types) /\ IsTypes(types) /\ Good(t)
    BY FoundType, OnTableIs
<1>2. CASE e.kind = "Integer"
    <2>1. types[id].kind \in Numbers
        BY <1>1, <1>2, IntegerFound DEF IntegersAndFloats, Signed, Unsigned, Numbers, IntegerKinds
    <2>2. CType(e).kind = "Int"
        BY <1>2, CTypeIs DEF Plain
    <2>3. Emits(CType(e), id)
        BY <2>1, <2>2, EmitsNumber DEF Numbers, IntegerKinds
    <2> QED BY <1>2, <2>3 DEF Places
<1>3. CASE e.kind = "Float"
    <2>1. types[id].kind = "Float32"
        BY <1>1, <1>3, LeafFound, BuiltinKinds
    <2>2. CType(e).kind = "Float64"
        BY <1>3, CTypeIs DEF Plain
    <2>3. Emits(CType(e), id)
        BY <2>1, <2>2, EmitsNumber DEF Numbers, IntegerKinds, Floats
    <2> QED BY <1>3, <2>3 DEF Places
<1>4. CASE e.kind = "CString"
    <2>1. types[id].kind = "Pointer" /\ types[id].target_type = CharId
        BY <1>1, <1>4, LeafFound
    <2>2. CType(e).kind = "Pointer" /\ CType(e).target = Plain("Char")
        BY <1>4, CTypeIs
    <2>3. Shape(CharId) = Plain("Char")
        <3>1. CharId \in DOMAIN types /\ types[CharId] = TYPES[CharId]
            BY <1>1, TableIs DEF CharId
        <3>2. TYPES[CharId] = Plain("Char") /\ Plain("Char").kind = "Char"
            BY DEF TYPES, CharId, Plain
        <3>3. types[CharId].kind \notin Composed
            BY <3>1, <3>2 DEF Composed
        <3> QED BY <1>1, <3>1, <3>2, <3>3, ShapeIs
    <2>4. Emits(CType(e), id)
        BY <2>1, <2>2, <2>3 DEF Emits, Numbers, IntegerKinds, Floats
    <2> QED BY <1>4, <2>4 DEF Places
<1>5. CASE e.kind = "Identifier"
    <2>1. CType(e) = Shape(id)
        BY <1>1, <1>5, LeafFound, CTypeIs
    <2> QED BY <1>1, <2>1, ShapeEmits
<1> QED BY <1>2, <1>3, <1>4, <1>5
LEMMA TargetEmits ==
    ASSUME NEW t, OnTable(t), NEW e \in Expressions, e.kind \in {"Dereference", "Subscript"},
           \A o \in Operands(e) : EmitsAlways(o, t), NEW c, NEW id, Found(e, c, id, t), ~Misread(e)
    PROVE  CType(First(e)).kind \in Addresses /\ CType(e) = Shape(id)
<1>0. Good(t) /\ IsTypes(types) /\ \A x \in DOMAIN t : x \in DOMAIN types /\ types[x] = t[x]
    BY OnTableIs
<1>1. PICK v \in DOMAIN t : /\ Found(First(e), c, v, t)
                                /\ \/ types[v].kind = "Pointer" /\ id = types[v].target_type
                                   \/ types[v].kind = "Array" /\ id = types[v].element_type
    <2>1. CASE e.kind = "Dereference"
        BY <1>0, <2>1, DereferenceFound DEF First
    <2>2. CASE e.kind = "Subscript"
        BY <1>0, <2>2, SubscriptFound DEF First
    <2> QED BY <2>1, <2>2
<1>2. First(e) \in Operands(e)
    BY FirstIs
<1>3. Emits(CType(First(e)), v)
    BY <1>1, <1>2, MisreadParts DEF EmitsAlways
<1>4. CType(e) = TargetOf(CType(First(e)))
    BY CTypeIs
<1>5. CASE types[v].kind = "Pointer" /\ id = types[v].target_type
    <2>1. CType(First(e)).kind = "Pointer" /\ CType(First(e)).target = Shape(id)
        BY <1>3, <1>5 DEF Emits, Numbers, IntegerKinds, Floats
    <2> QED BY <1>4, <2>1 DEF TargetOf, Addresses
<1>6. CASE types[v].kind = "Array" /\ id = types[v].element_type
    <2>1. CType(First(e)) = Shape(v)
        BY <1>3, <1>6 DEF Emits, Numbers, IntegerKinds, Floats
    <2>2. Shape(v).kind = "Array" /\ Shape(v).target = Shape(id)
        BY <1>0, <1>6, ShapeIs
    <2> QED BY <1>4, <2>1, <2>2 DEF TargetOf, Addresses
<1> QED BY <1>1, <1>5, <1>6
LEMMA AddressEmits ==
    ASSUME NEW t, OnTable(t), NEW e \in Expressions, e.kind = "AddressOf",
           \A o \in Operands(e) : EmitsAlways(o, t), NEW c, NEW id, Found(e, c, id, t), ~Misread(e)
    PROVE  Emits(CType(e), id)
<1>0. Good(t) /\ IsTypes(types) /\ \A x \in DOMAIN t : x \in DOMAIN types /\ types[x] = t[x]
    BY OnTableIs
<1>1. PICK v \in DOMAIN t : /\ Found(e.operand, c, v, t) /\ types[id].kind = "Pointer"
                                /\ types[id].target_type = v
                                /\ e.operand.kind \in {"Identifier", "Member_Access", "Dereference", "Subscript"}
    BY <1>0, AddressFound
<1>2. e.operand \in Operands(e) /\ First(e) = e.operand
    BY DEF Operands, First
<1>3. CType(e.operand) = Shape(v)
    BY <1>1, <1>2, MisreadParts DEF EmitsAlways, Places
<1>4. CType(e).kind = "Pointer" /\ CType(e).target = CType(First(e))
    BY CTypeIs
<1> QED BY <1>1, <1>2, <1>3, <1>4 DEF Emits, Numbers, IntegerKinds, Floats
LEMMA MemberEmits ==
    ASSUME NEW t, OnTable(t), NEW e \in Expressions, e.kind = "Member_Access",
           \A o \in Operands(e) : EmitsAlways(o, t), NEW c, NEW id, Found(e, c, id, t), ~Misread(e)
    PROVE  CType(e) = Shape(id)
<1>0. Good(t) /\ IsTypes(types) /\ \A x \in DOMAIN t : x \in DOMAIN types /\ types[x] = t[x]
    BY OnTableIs
<1>1. PICK v \in DOMAIN t, x \in DOMAIN t :
             /\ Found(e.receiver, c, v, t) /\ types[x].kind = "Struct"
             /\ x = v \/ (types[v].kind = "Pointer" /\ x = types[v].target_type)
             /\ \E f \in ToSet(types[x].fields) : f.name = e.member
             /\ id = FieldOf(types[x].fields, e.member).type
    BY <1>0, MemberFound
<1> DEFINE r == CType(e.receiver)
           struct == IF r.kind \in Addresses THEN r.target ELSE r
           fields == types[names[struct.name].type].fields
<1>2. Emits(r, v)
    <2>1. e.receiver \in Operands(e)
        BY DEF Operands
    <2> QED BY <1>1, <2>1, MisreadParts DEF EmitsAlways
<1>3. struct.kind = "Struct" /\ struct.name = types[x].name
    <2>1. Shape(x).kind = "Struct" /\ Shape(x).name = types[x].name
        BY <1>0, <1>1, ShapeIs
    <2>2. CASE x = v
        <3>1. r = Shape(x)
            BY <1>1, <1>2, <2>2 DEF Emits, Numbers, IntegerKinds, Floats
        <3> QED BY <2>1, <3>1 DEF Addresses
    <2>3. CASE types[v].kind = "Pointer" /\ x = types[v].target_type
        <3>1. r.kind = "Pointer" /\ r.target = Shape(x)
            BY <1>1, <1>2, <2>3 DEF Emits, Numbers, IntegerKinds, Floats
        <3> QED BY <2>1, <3>1 DEF Addresses
    <2> QED BY <1>1, <2>2, <2>3
<1>4. names[types[x].name].type = x
    BY <1>1, NamedOnTable
<1>5. fields = types[x].fields
    <2> HIDE DEF struct
    <2> QED BY <1>3, <1>4
<1>6. struct.kind = "Struct" /\ (\E f \in ToSet(fields) : f.name = e.member) =>
        CType(e) = Shape(FieldOf(fields, e.member).type)
    BY CTypeOfMember
<1> HIDE DEF struct, fields
<1> QED BY <1>1, <1>3, <1>5, <1>6
LEMMA CallEmits ==
    ASSUME NEW t, OnTable(t), NEW e \in Expressions, e.kind = "Function_Call",
           \A o \in Operands(e) : EmitsAlways(o, t), NEW c, NEW id, Found(e, c, id, t), ~Misread(e)
    PROVE  CType(e) = Shape(id)
<1>0. Good(t) /\ IsTypes(types) /\ \A x \in DOMAIN t : x \in DOMAIN types /\ types[x] = t[x]
    BY OnTableIs
<1>1. PICK v : v \in DOMAIN t /\ Found(e.callee, c, v, t) /\ types[v].kind = "Function"
               /\ id = types[v].return_type
    BY <1>0, CallFound
<1>2. e.callee \in Operands(e) /\ First(e) = e.callee
    BY DEF Operands, First
<1>3. CType(e.callee) = Shape(v)
    <2>1. Emits(CType(e.callee), v)
        BY <1>1, <1>2, MisreadParts DEF EmitsAlways
    <2> QED BY <1>1, <2>1 DEF Emits, Numbers, IntegerKinds, Floats
<1>4. Shape(v).kind = "Function" /\ Shape(v).result = Shape(id)
    BY <1>0, <1>1, ShapeIs
<1> QED BY <1>2, <1>3, <1>4, CTypeIs
LEMMA CastEmits ==
    ASSUME NEW t, OnTable(t), NEW e \in Expressions, e.kind = "Cast",
           \A o \in Operands(e) : EmitsAlways(o, t), NEW c, NEW id, Found(e, c, id, t), ~Misread(e)
    PROVE  Emits(CType(e), id)
<1>0. Good(t) /\ IsTypes(types) /\ \A x \in DOMAIN t : x \in DOMAIN types /\ types[x] = t[x]
    BY OnTableIs
<1>1. PICK v \in DOMAIN t : Found(e.expr, NoContext, v, t) /\ (v = id \/ Loosely(id, v, types))
    <2>1. PICK v \in DOMAIN t : Found(e.expr, NoContext, v, t) /\ (v = id \/ Loosely(id, v, t))
        BY <1>0, CastFound
    <2>2. id \in DOMAIN t
        BY <1>0, FoundType
    <2> QED BY <2>1, <2>2, CoercedOnTable
<1>2. CType(e) = CType(e.expr) /\ CType(e.expr).kind \in IntegerKinds
    BY CTypeIs, NotMisread
<1>3. Emits(CType(e.expr), v)
    <2>1. e.expr \in Operands(e)
        BY DEF Operands
    <2> QED BY <1>1, <2>1, MisreadParts DEF EmitsAlways
<1>4. types[v].kind \in Numbers
    BY <1>2, <1>3, EmitsKind DEF Numbers
<1>5. types[id].kind \in Numbers
    <2>1. types[id].kind = types[v].kind \/ types[id].kind \in IntegersAndFloats
        BY <1>1, CoercedLoosely
    <2> QED BY <1>4, <2>1 DEF IntegersAndFloats, Signed, Unsigned, Numbers, IntegerKinds
<1> QED BY <1>2, <1>5, EmitsNumber DEF Numbers
\* The operands of a strict coercion are numbers together or of one kind.
LEMMA StrictKinds ==
    ASSUME NEW v, NEW r, Strictly(v, r, types)
    PROVE  LET k == types[v].kind  l == types[r].kind
           IN  /\ k = l \/ (k \in IntegerKinds /\ l \in IntegerKinds)
               /\ k \in Numbers <=> l \in Numbers
               /\ k \in IntegerKinds <=> l \in IntegerKinds
<1> DEFINE k == types[v].kind
           l == types[r].kind
<1>1. k = l \/ (k \in Signed /\ l \in Signed)
    BY CoercedStrictly
<1> HIDE DEF k, l
<1>2. /\ k = l \/ (k \in IntegerKinds /\ l \in IntegerKinds)
      /\ k \in Numbers <=> l \in Numbers
      /\ k \in IntegerKinds <=> l \in IntegerKinds
    BY <1>1 DEF Signed, Numbers, IntegerKinds
<1> QED BY <1>2 DEF k, l
\* Two numbers make a number.
LEMMA NumbersMeet ==
    ASSUME NEW op, NEW a, NEW b, a.kind \in Numbers, b.kind \in Numbers
    PROVE  /\ BinopType(op, a, b) # {}
           /\ \A t \in BinopType(op, a, b) : /\ t.kind \in Numbers
                                             /\ a.kind \in IntegerKinds /\ b.kind \in IntegerKinds => t.kind \in IntegerKinds
                                             /\ op \in Comparisons \cup Equalities => t.kind = "Int"
<1>1. BinopType(op, a, b) = {IF op \in Comparisons \cup Equalities THEN Plain("Int") ELSE Wider(a, b)}
    <2>1. {a.kind, b.kind} \subseteq Numbers /\ ~({a.kind, b.kind} \subseteq Addresses) /\ a.kind \notin Addresses
        BY DEF Numbers, IntegerKinds, Floats, Addresses
    <2> QED BY <2>1 DEF BinopType
<1>2. Wider(a, b) = a \/ Wider(a, b) = b
    BY DEF Wider
<1>3. Plain("Int").kind = "Int" /\ "Int" \in IntegerKinds /\ "Int" \in Numbers
    BY DEF Plain, Numbers, IntegerKinds
<1> QED BY <1>1, <1>2, <1>3
LEMMA BinopEmits ==
    ASSUME NEW t, OnTable(t), NEW e \in Expressions, e.kind = "Binop",
           \A o \in Operands(e) : EmitsAlways(o, t), NEW c, NEW id, Found(e, c, id, t), ~Misread(e)
    PROVE  Emits(CType(e), id)
<1> DEFINE a == CType(e.left)
           b == CType(e.right)
<1>1. PICK v \in DOMAIN t, r \in DOMAIN t :
             /\ Found(e.left, c, v, t) /\ Found(e.right, v, r, t)
             /\ e.op = "Assign" => Loosely(v, r, types) /\ id = v
             /\ e.op \in Equalities => Strictly(v, r, types) /\ v \in {IntId, CharId} /\ id = BoolId
             /\ e.op \notin Equalities \cup {"Assign"} => Strictly(v, r, types) /\ id = r
    <2>1. PICK v \in DOMAIN t, r \in DOMAIN t :
             /\ Found(e.left, c, v, t) /\ Found(e.right, v, r, t)
             /\ e.op = "Assign" => Loosely(v, r, t) /\ id = v
             /\ e.op \in Equalities => Strictly(v, r, t) /\ v \in {IntId, CharId} /\ id = BoolId
             /\ e.op \notin Equalities \cup {"Assign"} => Strictly(v, r, t) /\ id = r
        BY OnTableIs, BinopFound
    <2>2. (Loosely(v, r, t) => Loosely(v, r, types)) /\ (Strictly(v, r, t) => Strictly(v, r, types))
        BY CoercedOnTable
    <2> QED BY <2>1, <2>2
<1>2. Emits(a, v) /\ Emits(b, r)
    <2>1. e.left \in Operands(e) /\ e.right \in Operands(e)
        BY DEF Operands
    <2> QED BY <1>1, <2>1, MisreadParts DEF EmitsAlways
<1>3. CASE e.op = "Assign"
    <2>1. Alike(a, b) /\ CType(e) = b
        BY <1>3, NotMisread, CTypeOfBinop
    <2>2. CASE a = b
        BY <1>1, <1>2, <1>3, <2>1, <2>2
    <2>3. CASE a.kind \in Numbers /\ b.kind \in IntegerKinds
        <3>1. types[v].kind \in Numbers
            BY <1>2, <2>3, EmitsKind
        <3> QED BY <1>1, <1>3, <2>1, <2>3, <3>1, EmitsNumber DEF Numbers
    <2>4. CASE {a.kind, b.kind} \subseteq Floats
        <3>1. types[v].kind \in Floats
            BY <1>2, <2>4, EmitsKind
        <3> QED BY <1>1, <1>3, <2>1, <2>4, <3>1, EmitsNumber DEF Numbers, IntegerKinds, Floats
    <2>5. CASE a.kind = "Pointer" /\ b.kind = "Pointer" /\ a.target = b.target
        <3>1. types[v].kind = "Pointer"
            BY <1>2, <2>5, EmitsKind DEF Numbers, IntegerKinds, Floats
        <3> QED BY <1>1, <1>2, <1>3, <2>1, <2>5, <3>1 DEF Emits, Numbers, IntegerKinds, Floats
    <2> QED BY <2>1, <2>2, <2>3, <2>4, <2>5 DEF Alike
<1>4. CASE e.op \in Equalities
    <2>1. Strictly(v, r, types) /\ v \in {IntId, CharId} /\ id = BoolId /\ e.op # "Assign"
        BY <1>1, <1>4 DEF Equalities
    <2>2. types[v].kind \in Numbers /\ types[id].kind \in IntegerKinds
        BY <2>1, OnTableIs, BuiltinKinds DEF Numbers, IntegerKinds
    <2>3. a.kind \in Numbers /\ b.kind \in Numbers
        BY <1>2, <2>1, <2>2, StrictKinds, EmitsKind
    <2>4. CType(e).kind = "Int"
        BY <1>4, <2>1, <2>3, CTypeOfBinop, NumbersMeet
    <2> QED BY <2>2, <2>4, EmitsNumber DEF Numbers, IntegerKinds
<1>5. CASE e.op \notin Equalities \cup {"Assign"}
    <2>1. Strictly(v, r, types) /\ id = r /\ e.op # "Assign" /\ b.kind \in Numbers
        BY <1>1, <1>5, NotMisread
    <2>2. types[v].kind \in Numbers /\ types[r].kind \in Numbers /\ a.kind \in Numbers
        BY <1>2, <2>1, StrictKinds, EmitsKind
    <2>3. types[id].kind \in IntegerKinds => a.kind \in IntegerKinds /\ b.kind \in IntegerKinds
        BY <1>2, <2>1, StrictKinds, EmitsKind
    <2>4. CType(e) \in BinopType(e.op, a, b)
        BY <2>1, <2>2, CTypeOfBinop, NumbersMeet
    <2>5. CType(e).kind \in Numbers /\ (types[id].kind \in IntegerKinds => CType(e).kind \in IntegerKinds)
        BY <2>1, <2>2, <2>3, <2>4, NumbersMeet
    <2> QED BY <2>1, <2>2, <2>5, EmitsNumber
<1> QED BY <1>3, <1>4, <1>5
\* What is found is emitted as what it was found to be.
LEMMA EmitsIs ==
    ASSUME NEW t, OnTable(t), NEW e \in Expressions
    PROVE  EmitsAlways(e, t)
<1> DEFINE S == {n \in Nat : \A x \in ExpressionsBelow(n) : EmitsAlways(x, t)}
<1>1. 0 \in S
    BY DepthAssumption DEF ExpressionsBelow
<1>2. ASSUME NEW n \in Nat, n \in S
      PROVE  n + 1 \in S
    <2>1. ASSUME NEW x \in ExpressionsBelow(n + 1), NEW c, NEW id, Found(x, c, id, t), ~Misread(x)
          PROVE  Emits(CType(x), id) /\ (x.kind \in Places => CType(x) = Shape(id))
        <3>1. x \in Expressions /\ \A o \in Operands(x) : EmitsAlways(o, t)
            <4>1. x \in Expressions /\ \A o \in Operands(x) : o \in ExpressionsBelow(n)
                BY HeightOfOperands DEF ExpressionsBelow
            <4> QED BY <1>2, <4>1
        <3>2. Good(t) /\ Good(types) /\ IsTypes(types) /\ id \in DOMAIN types
            BY <2>1, <3>1, FoundType, OnTableIs
        <3>3. CASE x.kind \in {"Integer", "Float", "CString", "Identifier"}
            BY <2>1, <3>1, <3>3, LeafEmits
        <3>4. CASE x.kind \in {"Dereference", "Subscript"}
            BY <2>1, <3>1, <3>2, <3>4, TargetEmits, ShapeEmits
        <3>5. CASE x.kind = "AddressOf"
            BY <2>1, <3>1, <3>5, AddressEmits DEF Places
        <3>6. CASE x.kind = "Member_Access"
            BY <2>1, <3>1, <3>2, <3>6, MemberEmits, ShapeEmits
        <3>7. CASE x.kind = "Function_Call"
            BY <2>1, <3>1, <3>2, <3>7, CallEmits, ShapeEmits
        <3>8. CASE x.kind = "Cast"
            BY <2>1, <3>1, <3>8, CastEmits DEF Places
        <3>9. CASE x.kind = "Binop"
            BY <2>1, <3>1, <3>9, BinopEmits DEF Places
        <3>10. CASE x.kind = "Eval"
            BY <2>1, <3>1, <3>2, <3>10, EvalFound
        <3>11. CASE x.kind = "Unary"
            <4>1. types[id].kind = "Bool"
                BY <2>1, <3>1, <3>2, <3>11, UnaryFound, BuiltinKinds
            <4>2. CType(x).kind = "Int"
                BY <3>1, <3>11, CTypeIs DEF Plain
            <4>3. Emits(CType(x), id)
                BY <4>1, <4>2, EmitsNumber DEF Numbers, IntegerKinds
            <4> QED BY <3>11, <4>3 DEF Places
        <3> QED BY <3>1, <3>3, <3>4, <3>5, <3>6, <3>7, <3>8, <3>9, <3>10, <3>11, ExpressionForms
    <2> QED BY <2>1 DEF EmitsAlways
<1> HIDE DEF S
<1>3. Depth + 1 \in S
    BY <1>1, <1>2, SetInduction, AllBelow
<1> QED BY <1>3, AllBelow DEF S

-----------------------------------------------------------------------------
(* Widths.                                                                 *)

\* Every number has a width.
LEMMA BitsAre ==
    ASSUME NEW k \in Numbers
    PROVE  Bits[k] \in Nat
BY DEF Bits, Numbers, IntegerKinds, Floats
\* Only kinds of numbers flow.
LEMMA FlowsNumbers ==
    ASSUME NEW e \in Expressions
    PROVE  Flow[e] \subseteq Numbers
<1> DEFINE P(x) == Flow[x] \subseteq Numbers
           S == {n \in Nat : \A x \in ExpressionsBelow(n) : P(x)}
<1>1. 0 \in S
    BY DepthAssumption DEF ExpressionsBelow
<1>2. ASSUME NEW n \in Nat, n \in S
      PROVE  n + 1 \in S
    <2>1. ASSUME NEW x \in ExpressionsBelow(n + 1)
          PROVE  P(x)
        <3>1. x \in Expressions /\ \A o \in Operands(x) : P(o)
            <4>1. x \in Expressions /\ \A o \in Operands(x) : o \in ExpressionsBelow(n)
                BY HeightOfOperands DEF ExpressionsBelow
            <4> QED BY <1>2, <4>1
        <3>2. Flow[x] = FlowBy(Flow, x)
            BY <3>1, FlowIs
        <3>3. CASE x.kind = "Binop"
            <4>1. Flow[x.left] \subseteq Numbers /\ Flow[x.right] \subseteq Numbers
                BY <3>1, <3>3 DEF Operands
            <4> QED BY <3>2, <3>3, <4>1 DEF FlowBy
        <3>4. CASE x.kind = "Cast"
            <4>1. Flow[x.expr] \subseteq Numbers
                BY <3>1, <3>4 DEF Operands
            <4> QED BY <3>2, <3>4, <4>1 DEF FlowBy
        <3>5. CASE x.kind \in {"Integer", "Float", "Unary"}
            BY <3>2, <3>5 DEF FlowBy
        <3>6. CASE x.kind \notin {"Integer", "Float", "Unary", "Binop", "Cast"}
            BY <3>2, <3>6 DEF FlowBy
        <3> QED BY <3>3, <3>4, <3>5, <3>6
    <2> QED BY <2>1
<1> HIDE DEF S
<1>3. Depth + 1 \in S
    BY <1>1, <1>2, SetInduction, AllBelow
<1> QED BY <1>3, AllBelow DEF S
\* The widest is as wide as any, and no wider than what bounds them all.
LEMMA MaxOfWidths ==
    ASSUME NEW W \in SUBSET {1, 8, 32, 64, 132, 164}, W # {}
    PROVE  Max(W) \in W /\ \A w \in W : w <= Max(W)
<1>1. \E x \in W : \A y \in W : x >= y
    <2>1. CASE 164 \in W
        BY <2>1
    <2>2. CASE 164 \notin W /\ 132 \in W
        BY <2>2
    <2>3. CASE {132, 164} \cap W = {} /\ 64 \in W
        BY <2>3
    <2>4. CASE {64, 132, 164} \cap W = {} /\ 32 \in W
        BY <2>4
    <2>5. CASE {32, 64, 132, 164} \cap W = {} /\ 8 \in W
        BY <2>5
    <2>6. CASE {8, 32, 64, 132, 164} \cap W = {}
        <3>1. \A y \in W : y = 1
            BY <2>6
        <3>2. 1 \in W
            BY <3>1
        <3> QED BY <3>1, <3>2
    <2> QED BY <2>1, <2>2, <2>3, <2>4, <2>5, <2>6
<1>2. Max(W) \in W /\ \A y \in W : Max(W) >= y
    BY <1>1 DEF Max
<1>3. W \subseteq Nat
    OBVIOUS
<1> QED BY <1>2, <1>3
\* The widest of them is at least as wide as each.
LEMMA WidestIs ==
    ASSUME NEW e \in Expressions
    PROVE  /\ Widest(e) \in Nat
           /\ \A k \in Flow[e] : Bits[k] <= Widest(e)
           /\ \A n \in Nat : (\A k \in Flow[e] : Bits[k] <= n) => Widest(e) <= n
<1> DEFINE W == {Bits[k] : k \in Flow[e]}
<1>1. Flow[e] \subseteq Numbers
    BY FlowsNumbers
<1>2. CASE Flow[e] = {}
    BY <1>2 DEF Widest
<1>3. CASE Flow[e] # {}
    <2>1. Widest(e) = Max(W)
        BY <1>3 DEF Widest
    <2>2. W \in SUBSET {1, 8, 32, 64, 132, 164} /\ W # {}
        <3>1. \A k \in Numbers : Bits[k] \in {1, 8, 32, 64, 132, 164}
            BY DEF Bits, Numbers, IntegerKinds, Floats
        <3> QED BY <1>1, <1>3, <3>1
    <2>3. \A k \in Flow[e] : Bits[k] \in W
        OBVIOUS
    <2>4. \A w \in W : \E k \in Flow[e] : w = Bits[k]
        OBVIOUS
    <2> HIDE DEF W
    <2>5. Max(W) \in W /\ \A w \in W : w <= Max(W)
        BY <2>2, MaxOfWidths
    <2>6. Max(W) \in Nat
        <3>1. Max(W) \in {1, 8, 32, 64, 132, 164}
            BY <2>2, <2>5
        <3> QED BY <3>1
    <2> QED BY <2>1, <2>3, <2>4, <2>5, <2>6
<1> QED BY <1>2, <1>3
\* What keeps within the width of its type.
WithinWidth(e, t) ==
    \A c, id : Found(e, c, id, t) /\ ~Misread(e) /\ ~HasCast(e) /\ ~LeftIsWider(e) /\ types[id].kind \in Numbers
        => Widest(e) <= Bits[types[id].kind]
\* What has no cast has no part that has, and so of LeftIsWider.
LEMMA WidthParts ==
    ASSUME NEW e \in Expressions, ~HasCast(e), ~LeftIsWider(e), NEW o \in Operands(e)
    PROVE  /\ ~HasCast(o) /\ ~LeftIsWider(o) /\ e.kind # "Cast"
           /\ e.kind = "Binop" => ~(Widest(e.left) > Widest(e.right))
<1>1. Parts[o] \subseteq Parts[e] /\ e \in Parts[e]
    BY PartsIs
<1> QED BY <1>1 DEF HasCast, LeftIsWider
\* A sum of what keeps its width keeps its width.
LEMMA BinopWithin ==
    ASSUME NEW t, OnTable(t), NEW e \in Expressions, e.kind = "Binop", \A o \in Operands(e) : WithinWidth(o, t),
           NEW c, NEW id, Found(e, c, id, t), ~Misread(e), ~HasCast(e), ~LeftIsWider(e),
           types[id].kind \in Numbers
    PROVE  Widest(e) <= Bits[types[id].kind]
<1> DEFINE bits == Bits[types[id].kind]
<1>1. PICK v \in DOMAIN t, r \in DOMAIN t :
             /\ Found(e.left, c, v, t) /\ Found(e.right, v, r, t)
             /\ e.op = "Assign" => id = v
             /\ e.op \notin Equalities \cup {"Assign"} => id = r
    BY OnTableIs, BinopFound
<1>2. /\ e.left \in Operands(e) /\ e.right \in Operands(e)
      /\ e.left \in Expressions /\ e.right \in Expressions /\ bits \in Nat
    BY BitsAre, OperandsAre DEF Operands
<1>3. Flow[e] = IF e.op \in Comparisons \cup Equalities THEN {}
                ELSE IF e.op = "Assign" THEN Flow[e.left] ELSE Flow[e.left] \cup Flow[e.right]
    BY FlowIs DEF FlowBy
<1> SUFFICES \A k \in Flow[e] : Bits[k] <= bits
    BY <1>2, WidestIs
<1>4. CASE e.op \in Comparisons \cup Equalities
    BY <1>3, <1>4
<1>5. CASE e.op = "Assign" /\ e.op \notin Comparisons \cup Equalities
    <2>1. Widest(e.left) <= bits
        BY <1>1, <1>2, <1>5, MisreadParts, WidthParts DEF WithinWidth
    <2>2. \A k \in Flow[e.left] : Bits[k] \in Nat /\ Bits[k] <= Widest(e.left) /\ Widest(e.left) \in Nat
        BY <1>2, WidestIs, FlowsNumbers, BitsAre
    <2> QED BY <1>2, <1>3, <1>5, <2>1, <2>2
<1>6. CASE e.op # "Assign" /\ e.op \notin Comparisons \cup Equalities
    <2>1. Widest(e.right) <= bits
        BY <1>1, <1>2, <1>6, MisreadParts, WidthParts DEF WithinWidth
    <2>2. Widest(e.left) <= Widest(e.right)
        <3>1. ~(Widest(e.left) > Widest(e.right))
            BY <1>2, WidthParts
        <3> QED BY <1>2, <3>1, WidestIs
    <2>3. \A k \in Flow[e.left] : Bits[k] \in Nat /\ Bits[k] <= Widest(e.left) /\ Widest(e.left) \in Nat
        BY <1>2, WidestIs, FlowsNumbers, BitsAre
    <2>4. \A k \in Flow[e.right] : Bits[k] \in Nat /\ Bits[k] <= Widest(e.right)
        BY <1>2, WidestIs, FlowsNumbers, BitsAre
    <2>5. Widest(e.right) \in Nat /\ Widest(e.left) \in Nat
        BY <1>2, WidestIs
    <2> QED BY <1>2, <1>3, <1>6, <2>1, <2>2, <2>3, <2>4, <2>5
<1> QED BY <1>4, <1>5, <1>6
\* So everything that was found does.
LEMMA WidthIsKept ==
    ASSUME NEW t, OnTable(t), NEW e \in Expressions
    PROVE  WithinWidth(e, t)
<1> DEFINE S == {n \in Nat : \A x \in ExpressionsBelow(n) : WithinWidth(x, t)}
<1>1. 0 \in S
    BY DepthAssumption DEF ExpressionsBelow
<1>2. ASSUME NEW n \in Nat, n \in S
      PROVE  n + 1 \in S
    <2>1. ASSUME NEW x \in ExpressionsBelow(n + 1), NEW c, NEW id, Found(x, c, id, t),
                 ~Misread(x), ~HasCast(x), ~LeftIsWider(x), types[id].kind \in Numbers
          PROVE  Widest(x) <= Bits[types[id].kind]
        <3>1. x \in Expressions /\ \A o \in Operands(x) : WithinWidth(o, t)
            <4>1. x \in Expressions /\ \A o \in Operands(x) : o \in ExpressionsBelow(n)
                BY HeightOfOperands DEF ExpressionsBelow
            <4> QED BY <1>2, <4>1
        <3>2. Bits[types[id].kind] \in Nat
            BY <2>1, BitsAre
        <3>3. CASE x.kind = "Binop"
            BY <2>1, <3>1, <3>3, BinopWithin
        <3>4. CASE x.kind = "Cast"
            <4>1. x \in Parts[x]
                BY <3>1, PartsIs
            <4> QED BY <2>1, <3>4, <4>1 DEF HasCast
        <3>5. CASE x.kind \in {"Integer", "Float", "Unary"}
            <4>1. Flow[x] = {}
                BY <3>1, <3>5, FlowIs DEF FlowBy
            <4> QED BY <3>1, <3>2, <4>1, WidestIs
        <3>6. CASE x.kind \notin {"Integer", "Float", "Unary", "Binop", "Cast"}
            <4>1. Flow[x] = {CType(x).kind} \cap Numbers
                BY <3>1, <3>6, FlowIs DEF FlowBy
            <4>2. x.kind \in Places \/ x.kind \in {"AddressOf", "CString", "Eval"}
                BY <3>1, <3>6, ExpressionForms DEF Places
            <4>3. CASE x.kind \in Places
                <5>1. CType(x) = Shape(id)
                    BY <2>1, <3>1, <4>3, EmitsIs DEF EmitsAlways
                <5>2. Shape(id).kind = types[id].kind
                    BY <2>1, <3>1, FoundType, OnTableIs, ShapeIs
                <5>3. \A k \in Flow[x] : Bits[k] <= Bits[types[id].kind]
                    BY <3>2, <4>1, <5>1, <5>2
                <5> QED BY <3>1, <3>2, <5>3, WidestIs
            <4>4. CASE x.kind \in {"AddressOf", "CString"}
                <5>1. CType(x).kind = "Pointer"
                    BY <3>1, <4>4, CTypeIs
                <5>2. Flow[x] = {}
                    BY <4>1, <5>1 DEF Numbers, IntegerKinds, Floats
                <5> QED BY <3>1, <3>2, <5>2, WidestIs
            <4>5. CASE x.kind = "Eval"
                BY <2>1, <3>1, <4>5, OnTableIs, EvalFound
            <4> QED BY <4>2, <4>3, <4>4, <4>5
        <3> QED BY <3>3, <3>4, <3>5, <3>6
    <2> QED BY <2>1 DEF WithinWidth
<1> HIDE DEF S
<1>3. Depth + 1 \in S
    BY <1>1, <1>2, SetInduction, AllBelow
<1> QED BY <1>3, AllBelow DEF S

-----------------------------------------------------------------------------
(* What C is given for the statements that were accepted.                  *)

\* What was found for an expression is what its statement asks for.
Suits(s, id, t) ==
    /\ s.kind = "Variable" => /\ s.name \in DOMAIN names /\ names[s.name].type \in DOMAIN t
                              /\ Strictly(names[s.name].type, id, t)
    /\ s.kind = "Return" => \E ret \in DOMAIN t : SeenAs(s.typehint, ret, t) /\ Loosely(ret, id, t)
Right(s, t) == \A e \in ExpressionsOf(s) : e \in Expressions /\ \E c, id : Found(e, c, id, t) /\ Suits(s, id, t)
AllRight(t) == \A s \in Accepted : Right(s, t)

\* Every part of an accepted statement was found.
LEMMA PartsRight ==
    ASSUME NEW t, Good(t), NEW s, Right(s, t), NEW e \in PartsOf(s)
    PROVE  e \in Expressions /\ FoundSomehow(e, t)
<1>1. PICK x \in ExpressionsOf(s) : e \in Parts[x]
    BY DEF PartsOf
<1>2. x \in Expressions /\ FoundSomehow(x, t)
    BY DEF Right, FoundSomehow
<1> QED BY <1>1, <1>2, PartsFound DEF PartsFoundToo
\* Coercion to a number keeps to numbers that are no wider.
LEMMA StrictBits ==
    ASSUME NEW x, NEW y, Strictly(x, y, types), types[x].kind \in Numbers
    PROVE  types[y].kind \in Numbers /\ Bits[types[y].kind] <= Bits[types[x].kind]
<1> DEFINE a == types[x].kind
           b == types[y].kind
<1>1. a = b \/ (a \in Signed /\ b \in Signed /\ (a = "Int64" \/ b = "Int"))
    BY CoercedStrictly
<1>2. Bits["Int"] = 32 /\ Bits["Int64"] = 64 /\ Bits[a] \in Nat
    BY BitsAre DEF Bits
<1>3. CASE a = b
    BY <1>2, <1>3
<1>4. CASE a \in Signed /\ b \in Signed /\ (a = "Int64" \/ b = "Int")
    <2>1. (a = "Int64" /\ b = "Int64") \/ (a = "Int64" /\ b = "Int") \/ (a = "Int" /\ b = "Int")
        BY <1>4 DEF Signed
    <2> QED BY <1>2, <2>1 DEF Numbers, IntegerKinds
<1> QED BY <1>1, <1>3, <1>4
\* What is found and coerced to a place is no wider than it.
LEMMA PlaceIsWide ==
    ASSUME NEW t, OnTable(t), NEW e \in Expressions, NEW c, NEW id, Found(e, c, id, t),
           NEW x \in DOMAIN t, Strictly(x, id, t)
    PROVE  Narrows(x, e) => LeftIsWider(e) \/ HasCast(e) \/ Misread(e)
<1> SUFFICES ASSUME types[x].kind \in Numbers, ~LeftIsWider(e), ~HasCast(e), ~Misread(e)
             PROVE  ~(Widest(e) > Bits[types[x].kind])
    BY DEF Narrows
<1>1. id \in DOMAIN t
    BY FoundType, OnTableIs
<1>2. types[id].kind \in Numbers /\ Bits[types[id].kind] <= Bits[types[x].kind]
    BY <1>1, CoercedOnTable, StrictBits
<1>3. Widest(e) <= Bits[types[id].kind]
    BY <1>2, WidthIsKept DEF WithinWidth
<1>4. Bits[types[id].kind] \in Nat /\ Bits[types[x].kind] \in Nat /\ Widest(e) \in Nat
    BY <1>2, BitsAre, WidestIs
<1> QED BY <1>2, <1>3, <1>4
\* Each argument of a call that is not variadic was coerced to its parameter.
LEMMA ParametersAre ==
    ASSUME NEW t, Good(t), NEW e \in Expressions, e.kind = "Function_Call", FoundSomehow(e, t),
           ~names[e.callee.symbol].schema.variadic
    PROVE  LET ps == names[e.callee.symbol].schema.parameters
           IN  /\ Len(e.arguments) \in Nat /\ DOMAIN e.arguments = 1 .. Len(e.arguments)
               /\ Len(ps) = Len(e.arguments) /\ DOMAIN ps = DOMAIN e.arguments
               /\ \A n \in DOMAIN e.arguments :
                    /\ e.arguments[n] \in Expressions /\ e.arguments[n] \in Operands(e) /\ ps[n] \in DOMAIN t
                    /\ \E c, i : Found(e.arguments[n], c, i, t) /\ Strictly(ps[n], i, t)
<1> DEFINE symbol == names[e.callee.symbol]
           ps == symbol.schema.parameters
           as == e.arguments
<1>1. PICK c, id : Found(e, c, id, t)
    BY DEF FoundSomehow
<1>2. /\ e.callee.symbol \in DOMAIN names /\ symbol.sort = "Function"
      /\ EnoughArguments(Len(as), symbol.schema)
      /\ \A n \in 1 .. Len(as) : ArgumentFound(as[n], n, symbol.schema, t)
    BY <1>1, CallFound
<1>3. ps \in Seq(DOMAIN t)
    BY <1>2 DEF Good, Symbols, IsSymbol
<1>4. as \in Seq(Expressions)
    BY ExpressionForms
<1>5. Len(as) \in Nat /\ DOMAIN as = 1 .. Len(as) /\ Len(ps) \in Nat /\ DOMAIN ps = 1 .. Len(ps)
    BY <1>3, <1>4
<1>6. Len(ps) = Len(as)
    BY <1>2, <1>5 DEF EnoughArguments
<1>7. ASSUME NEW n \in 1 .. Len(as)
      PROVE  /\ as[n] \in Expressions /\ as[n] \in Operands(e) /\ ps[n] \in DOMAIN t
             /\ \E d, i : Found(as[n], d, i, t) /\ Strictly(ps[n], i, t)
    <2>1. as[n] \in Expressions /\ ps[n] \in DOMAIN t
        BY <1>3, <1>4, <1>6, ElementOfSeq
    <2>2. as[n] \in Operands(e)
        BY <1>5 DEF Operands, ToSet
    <2>3. HasParameter(n, symbol.schema)
        BY <1>5, <1>6 DEF HasParameter
    <2>4. ArgumentFound(as[n], n, symbol.schema, t)
        BY <1>2
    <2> QED BY <2>1, <2>2, <2>3, <2>4 DEF ArgumentFound
<1> QED BY <1>5, <1>6, <1>7
\* What is right keeps its width.
LEMMA WidthsRight ==
    ASSUME NEW t, OnTable(t), AllRight(t)
    PROVE  KeepsItsWidth
<1>0. Good(t)
    BY OnTableIs
<1>1. ASSUME NEW s \in Accepted, s.kind = "Variable", s.initializer # None, Narrows(names[s.name].type, s.initializer)
      PROVE  LeftIsWider(s.initializer) \/ HasCast(s.initializer) \/ Misread(s.initializer)
    <2>1. s.initializer \in ExpressionsOf(s) /\ Right(s, t)
        BY <1>1 DEF ExpressionsOf, AllRight
    <2>2. PICK c, id : Found(s.initializer, c, id, t) /\ Suits(s, id, t)
        BY <2>1 DEF Right
    <2> QED BY <1>1, <2>1, <2>2, PlaceIsWide DEF Suits, Right
<1>2. ASSUME NEW s \in Accepted, NEW e \in PartsOf(s), e.kind = "Function_Call",
             ~names[e.callee.symbol].schema.variadic, NEW n \in DOMAIN e.arguments
      PROVE  Narrows(names[e.callee.symbol].schema.parameters[n], e.arguments[n])
               => LeftIsWider(e.arguments[n]) \/ HasCast(e.arguments[n]) \/ Misread(e.arguments[n])
    <2>1. e \in Expressions /\ FoundSomehow(e, t)
        BY <1>0, PartsRight DEF AllRight
    <2> DEFINE x == names[e.callee.symbol].schema.parameters[n]
               a == e.arguments[n]
    <2>2. a \in Expressions /\ x \in DOMAIN t /\ \E c, i : Found(a, c, i, t) /\ Strictly(x, i, t)
        BY <1>0, <1>2, <2>1, ParametersAre
    <2> HIDE DEF x, a
    <2>3. PICK c, i : Found(a, c, i, t) /\ Strictly(x, i, t)
        BY <2>2
    <2>4. Narrows(x, a) => LeftIsWider(a) \/ HasCast(a) \/ Misread(a)
        BY <2>2, <2>3, PlaceIsWide
    <2> QED BY <2>4 DEF x, a
<1> QED BY <1>1, <1>2 DEF KeepsItsWidth

-----------------------------------------------------------------------------
(* Why C refuses what was found.                                           *)

OnlyGaps(whys) == \A why \in whys : KnownGap(why)
\* One kind, or two numbers.
Meets(a, b) == a.kind = b.kind \/ (a.kind \in Numbers /\ b.kind \in Numbers)
\* One reason, and none or more, that are known gaps.
LEMMA WhyIs ==
    ASSUME NEW what, NEW a, NEW b
    PROVE  OnlyGaps(Why(what, a, b)) <=> KnownGap(<<what, a.kind, b.kind>>)
BY DEF OnlyGaps, Why
LEMMA NothingIsGap == OnlyGaps({})
BY DEF OnlyGaps
LEMMA MoreGaps ==
    ASSUME NEW A, NEW B, OnlyGaps(A), OnlyGaps(B)
    PROVE  OnlyGaps(A \cup B)
BY DEF OnlyGaps
LEMMA GapsAre ==
    ASSUME NEW a, NEW b
    PROVE  /\ OnlyGaps(Why("const", a, b)) /\ OnlyGaps(Why("array", a, b)) /\ OnlyGaps(Why("name", a, b))
           /\ OnlyGaps(Why("variadic", a, b)) /\ OnlyGaps(Why("condition", a, b)) /\ OnlyGaps(Why("members", a, b))
           /\ a.kind = b.kind => OnlyGaps(Why("operands", a, b)) /\ OnlyGaps(Why("conversion", a, b))
BY WhyIs DEF KnownGap
LEMMA ConvertMeets ==
    ASSUME NEW a, NEW b, Meets(a, b)
    PROVE  OnlyGaps(Convert(a, b))
<1>1. CASE a.kind = b.kind
    <2>1. OnlyGaps(Why("conversion", a, b)) /\ OnlyGaps({})
        BY <1>1, GapsAre, NothingIsGap
    <2>2. Convert(a, b) = {} \/ Convert(a, b) = Why("conversion", a, b)
        BY DEF Convert
    <2> QED BY <2>1, <2>2
<1>2. CASE a.kind \in Numbers /\ b.kind \in Numbers
    <2>1. Convert(a, b) = {}
        BY <1>2 DEF Convert
    <2> QED BY <2>1, NothingIsGap
<1> QED BY <1>1, <1>2 DEF Meets
\* The kind of what is emitted.
OfKind(a, x) == LET k == types[x].kind IN (k \in Numbers => a.kind \in Numbers) /\ (k \notin Numbers => a.kind = k)
\* What is emitted is of the kind it was found to be; kinds that coerce meet.
LEMMA EmitsOfKind ==
    ASSUME NEW a, NEW x, Emits(a, x)
    PROVE  OfKind(a, x)
BY DEF Emits, OfKind, Numbers
LEMMA KindsMeet ==
    ASSUME NEW x, NEW y, Strictly(x, y, types) \/ Loosely(x, y, types), NEW a, NEW b, OfKind(a, x), OfKind(b, y)
    PROVE  Meets(a, b)
<1>1. types[x].kind = types[y].kind \/ (types[x].kind \in IntegersAndFloats /\ types[y].kind \in IntegersAndFloats)
    BY CoercedStrictly, CoercedLoosely DEF IntegersAndFloats
<1>2. IntegersAndFloats \subseteq Numbers
    BY DEF IntegersAndFloats, Signed, Unsigned, Numbers, IntegerKinds
<1> QED BY <1>1, <1>2 DEF Meets, OfKind
\* What is neither an operation nor a cast is misread with one of its operands.
LEMMA NotMisreadItself ==
    ASSUME NEW e \in Expressions, e.kind \notin {"Binop", "Cast"}, \A o \in Operands(e) : ~Misread(o)
    PROVE  ~Misread(e)
<1>1. Parts[e] = {e} \cup UNION {Parts[o] : o \in Operands(e)}
    BY PartsIs
<1>2. \A b \in Parts[e] : b = e \/ \E o \in Operands(e) : b \in Parts[o]
    BY <1>1
<1> QED BY <1>2 DEF Misread

\* Why C may refuse each kind of expression: never but for a known gap.
LEMMA TargetGaps ==
    ASSUME NEW t, OnTable(t), NEW e \in Expressions, e.kind \in {"Dereference", "Subscript"}, FoundSomehow(e, t),
           \A o \in Operands(e) : ~Misread(o)
    PROVE  OnlyGaps(Refused(e))
<1>0. Good(t) /\ ~Misread(e) /\ \A o \in Operands(e) : o \in Expressions /\ EmitsAlways(o, t)
    BY OnTableIs, NotMisreadItself, OperandsAre, EmitsIs
<1>1. PICK c, id : Found(e, c, id, t)
    BY DEF FoundSomehow
<1>2. CType(First(e)).kind \in Addresses
    BY <1>0, <1>1, TargetEmits
<1>3. e.kind = "Subscript" => CType(e.index).kind \in IntegerKinds
    <2>1. SUFFICES ASSUME e.kind = "Subscript" PROVE CType(e.index).kind \in IntegerKinds
        OBVIOUS
    <2>2. PICK i \in DOMAIN t : Found(e.index, c, i, t) /\ t[i].kind = "Int"
        BY <1>0, <1>1, <2>1, SubscriptFound
    <2>3. e.index \in Operands(e)
        BY <2>1 DEF Operands
    <2>4. Emits(CType(e.index), i)
        BY <1>0, <2>2, <2>3 DEF EmitsAlways
    <2>5. types[i].kind = "Int"
        BY <2>2, OnTableIs
    <2> QED BY <2>4, <2>5 DEF Emits, IntegerKinds
<1>4. Refused(e) = {}
    BY <1>2, <1>3 DEF Refused
<1> QED BY <1>4, NothingIsGap
LEMMA MemberGaps ==
    ASSUME NEW t, OnTable(t), NEW e \in Expressions, e.kind = "Member_Access", FoundSomehow(e, t),
           \A o \in Operands(e) : ~Misread(o)
    PROVE  OnlyGaps(Refused(e))
<1>0. Good(t) /\ IsTypes(types) /\ ~Misread(e) /\ EmitsAlways(e, t)
    BY OnTableIs, NotMisreadItself, EmitsIs
<1>1. PICK c, id : Found(e, c, id, t)
    BY DEF FoundSomehow
<1>2. id \in DOMAIN types
    BY <1>0, <1>1, FoundType, OnTableIs
<1>3. CType(e) = Shape(id)
    BY <1>0, <1>1 DEF EmitsAlways, Places
<1>4. CType(e).kind = types[id].kind
    BY <1>0, <1>2, <1>3, ShapeIs
<1>5. types[id].kind # "Bad"
    <2>1. types[id] \in Layouts
        BY <1>0, <1>2, TableIs, ElementOfSeq
    <2> QED BY <2>1 DEF Layouts
<1>6. Refused(e) = {}
    BY <1>4, <1>5 DEF Refused, Bad, Plain
<1> QED BY <1>6, NothingIsGap
LEMMA UnaryGaps ==
    ASSUME NEW t, OnTable(t), NEW e \in Expressions, e.kind = "Unary", FoundSomehow(e, t),
           \A o \in Operands(e) : ~Misread(o)
    PROVE  OnlyGaps(Refused(e))
<1>0. Good(t) /\ \A o \in Operands(e) : o \in Expressions /\ EmitsAlways(o, t)
    BY OnTableIs, OperandsAre, EmitsIs
<1>1. PICK c, id : Found(e, c, id, t)
    BY DEF FoundSomehow
<1>2. PICK v \in DOMAIN t : Found(e.expression, c, v, t) /\ t[v].kind = "Bool"
    BY <1>0, <1>1, UnaryFound
<1>3. e.expression \in Operands(e) /\ types[v].kind = "Bool"
    BY <1>2, OnTableIs DEF Operands
<1>4. Emits(CType(e.expression), v)
    BY <1>0, <1>2, <1>3 DEF EmitsAlways
<1>5. CType(e.expression).kind \in Numbers
    BY <1>3, <1>4 DEF Emits, IntegerKinds, Numbers
<1>6. Refused(e) = {}
    BY <1>5 DEF Refused
<1> QED BY <1>6, NothingIsGap
LEMMA BinopGaps ==
    ASSUME NEW t, OnTable(t), NEW e \in Expressions, e.kind = "Binop", FoundSomehow(e, t),
           \A o \in Operands(e) : ~Misread(o)
    PROVE  OnlyGaps(Refused(e))
<1> DEFINE a == CType(e.left)
           b == CType(e.right)
<1>0. Good(t) /\ \A o \in Operands(e) : o \in Expressions /\ EmitsAlways(o, t)
    BY OnTableIs, OperandsAre, EmitsIs
<1>1. PICK c, id : Found(e, c, id, t)
    BY DEF FoundSomehow
<1>2. PICK v \in DOMAIN t, r \in DOMAIN t :
             /\ Found(e.left, c, v, t) /\ Found(e.right, v, r, t)
             /\ e.op = "Assign" => Loosely(v, r, t)
             /\ e.op # "Assign" => Strictly(v, r, t)
    BY <1>0, <1>1, BinopFound
<1>3. OfKind(a, v) /\ OfKind(b, r)
    <2>1. e.left \in Operands(e) /\ e.right \in Operands(e)
        BY DEF Operands
    <2>2. Emits(a, v) /\ Emits(b, r)
        BY <1>0, <1>2, <2>1 DEF EmitsAlways
    <2> QED BY <2>2, EmitsOfKind
<1>4. Meets(a, b)
    BY <1>2, <1>3, CoercedOnTable, KindsMeet
<1>5. CASE e.op = "Assign"
    <2> DEFINE A == Convert(a, b)
               B == IF Const(e.left) THEN Why("const", a, b) ELSE {}
               C == IF a.kind = "Function" THEN Why("name", a, b) ELSE {}
    <2>1. Refused(e) = (A \cup B) \cup C
        BY <1>5 DEF Refused
    <2>2. OnlyGaps(A) /\ OnlyGaps(B) /\ OnlyGaps(C)
        BY <1>4, ConvertMeets, GapsAre, NothingIsGap
    <2> HIDE DEF A, B, C
    <2> QED BY <2>1, <2>2, MoreGaps
<1>6. CASE e.op # "Assign"
    <2>1. Refused(e) = IF BinopType(e.op, a, b) = {} THEN Why("operands", a, b) ELSE {}
        BY <1>6 DEF Refused
    <2>2. CASE a.kind = b.kind
        BY <2>1, <2>2, GapsAre, NothingIsGap
    <2>3. CASE a.kind \in Numbers /\ b.kind \in Numbers
        BY <2>1, <2>3, NumbersMeet, NothingIsGap
    <2> QED BY <1>4, <2>2, <2>3 DEF Meets
<1> QED BY <1>5, <1>6
LEMMA CallGaps ==
    ASSUME NEW t, OnTable(t), NEW e \in Expressions, e.kind = "Function_Call", FoundSomehow(e, t),
           \A o \in Operands(e) : ~Misread(o)
    PROVE  OnlyGaps(Refused(e))
<1> DEFINE schema == names[e.callee.symbol].schema
           ps == schema.parameters
           as == e.arguments
           M(n) == IF schema.variadic THEN Why("variadic", Plain(""), Plain(""))
                   ELSE Convert(Shape(ps[n]), CType(as[n]))
<1>0. Good(t) /\ IsTypes(types) /\ \A o \in Operands(e) : o \in Expressions /\ EmitsAlways(o, t)
    BY OnTableIs, OperandsAre, EmitsIs
<1>1. PICK c, id : Found(e, c, id, t)
    BY DEF FoundSomehow
<1>2. /\ e.callee.kind = "Identifier" /\ e.callee.symbol \in DOMAIN names
      /\ names[e.callee.symbol].sort = "Function" /\ EnoughArguments(Len(as), schema)
    BY <1>0, <1>1, CallFound
<1>3. Len(as) \in Nat /\ Len(ps) \in Nat
    <2>1. ps \in Seq(DOMAIN t)
        BY <1>0, <1>2 DEF Good, Symbols, IsSymbol
    <2>2. as \in Seq(Expressions)
        BY ExpressionForms
    <2> QED BY <2>1, <2>2
<1>4. ~(Len(as) < Len(ps) \/ (~schema.variadic /\ Len(as) > Len(ps)))
    BY <1>2, <1>3 DEF EnoughArguments
<1>5. Refused(e) = RefusedCall(as, schema)
    BY <1>2 DEF Refused
<1>6. Refused(e) = UNION {M(n) : n \in DOMAIN ps}
    BY <1>4, <1>5 DEF RefusedCall
<1>7. ASSUME NEW n \in DOMAIN ps
      PROVE  OnlyGaps(M(n))
    <2>1. CASE schema.variadic
        BY <2>1, GapsAre
    <2>2. CASE ~schema.variadic
        <3>1. DOMAIN ps = DOMAIN as /\ n \in DOMAIN as
              /\ as[n] \in Operands(e) /\ ps[n] \in DOMAIN t
              /\ \E d, i : Found(as[n], d, i, t) /\ Strictly(ps[n], i, t)
            BY <1>0, <2>2, ParametersAre
        <3>2. PICK d, i : Found(as[n], d, i, t) /\ Strictly(ps[n], i, t)
            BY <3>1
        <3>3. Emits(CType(as[n]), i) /\ i \in DOMAIN t
            BY <1>0, <3>1, <3>2, FoundType DEF EmitsAlways
        <3>4. Emits(Shape(ps[n]), ps[n])
            BY <1>0, <3>1, OnTableIs, ShapeEmits
        <3>5. Strictly(ps[n], i, types)
            BY <3>1, <3>2, <3>3, CoercedOnTable
        <3>6. Meets(Shape(ps[n]), CType(as[n]))
            BY <3>3, <3>4, <3>5, EmitsOfKind, KindsMeet
        <3> QED BY <2>2, <3>6, ConvertMeets
    <2> QED BY <2>1, <2>2
<1> HIDE DEF M, ps
<1> QED BY <1>6, <1>7 DEF OnlyGaps
\* Besides the known gaps, C refuses no expression that was found and whose operands are not misread.
LEMMA ExpressionGaps ==
    ASSUME NEW t, OnTable(t), NEW e \in Expressions, FoundSomehow(e, t), \A o \in Operands(e) : ~Misread(o)
    PROVE  OnlyGaps(Refused(e))
<1>1. CASE e.kind = "Identifier"
    BY <1>1, GapsAre, NothingIsGap DEF Refused
<1>2. CASE e.kind \in {"Integer", "Float", "CString", "AddressOf", "Cast", "Eval"}
    BY <1>2, NothingIsGap DEF Refused
<1> QED BY <1>1, <1>2, TargetGaps, MemberGaps, UnaryGaps, BinopGaps, CallGaps, ExpressionForms
\* What a typehint says is of the kind of what it was found to be.
LEMMA HintKind ==
    ASSUME Good(types), NEW t, Good(t), IsPrefix(t, types), NEW h, NEW id, SeenAs(h, id, t)
    PROVE  id \in DOMAIN types /\ OfKind(Meant(h), id)
<1>1. PICK earlier : /\ Good(earlier) /\ IsDone(CheckHint(h, earlier)) /\ CheckHint(h, earlier).type = id
                     /\ IsPrefix(CheckHint(h, earlier).types, t)
    BY DEF SeenAs
<1>2. h \in Hints
    BY DEF SeenAs
<1> DEFINE r == CheckHint(h, earlier)
           u == r.types
<1>3. Good(u) /\ id \in DOMAIN u
    BY <1>1, <1>2, HintIs
<1>4. id \in DOMAIN types /\ types[id] = u[id]
    <2>1. IsPrefix(u, t)
        BY <1>1
    <2> HIDE DEF u
    <2>2. id \in DOMAIN t /\ t[id] = u[id]
        BY <1>3, <2>1, LaterTable DEF Good
    <2> QED BY <2>2, LaterTable DEF Good
<1>5. Said[h] = SaidBy(Said, h)
    BY <1>2, SaidAlwaysUnfolds DEF SaidUnfolds
<1>6. CASE h.kind = "Builtin"
    <2>1. id = h.type /\ h.type \in DOMAIN TYPES
        <3>1. r = Done(h.type, earlier)
            BY <1>1, <1>2, <1>6, HintIs
        <3> QED BY <1>1, <1>2, <1>6, <3>1, HintForms, DoneAgain
    <2>2. id \in 1 .. 12
        BY <2>1 DEF TYPES
    <2>3. types[id] = TYPES[id]
        BY <2>2, TableIs DEF Good
    <2>4. Meant(h) = TYPES[h.type]
        BY <1>5, <1>6 DEF SaidBy, Written, Meant
    <2> QED BY <1>4, <2>1, <2>3, <2>4 DEF OfKind
<1>7. CASE h.kind = "Identifier"
    <2>1. id = names[h.symbol].type
        <3>1. r = Done(names[h.symbol].type, earlier)
            BY <1>1, <1>2, <1>7, HintIs
        <3> QED BY <1>1, <3>1, DoneAgain
    <2>2. Meant(h) = Shape(id)
        BY <1>5, <1>7, <2>1 DEF SaidBy, Meant, Shape
    <2>3. Shape(id).kind = types[id].kind
        BY <1>4, ShapeIs DEF Good
    <2> QED BY <1>4, <2>2, <2>3 DEF OfKind
<1>8. CASE h.kind \in {"Pointer", "Array"}
    <2> DEFINE target == CheckHint(Target(h), earlier)
               layout == Over(h, target.type)
    <2>1. Target(h) \in Hints /\ IsDone(target) /\ r = RegisterOrGet(layout, target.types, TRUE)
        BY <1>1, <1>2, <1>8, HintIs
    <2>2. Good(target.types) /\ target.type \in DOMAIN target.types /\ target.type \in Nat
        BY <1>1, <2>1, HintIs
    <2>3. layout \in Layouts /\ layout.kind = h.kind /\ References(layout) = {target.type}
        BY <1>2, <1>8, <2>2, OverIs
    <2>4. layout.kind \in Composed
        BY <1>8, <2>3 DEF Composed
    <2>5. r.types[r.type].kind = layout.kind
        <3> DEFINE from == target.types
        <3>1. r = RegisterOrGet(layout, from, TRUE) /\ Good(from) /\ References(layout) \subseteq DOMAIN from
            BY <2>1, <2>2, <2>3
        <3>2. \A lucky : LET q == RegisterOrGet(layout, from, lucky) IN q.types[q.type].kind = layout.kind
            <4> HIDE DEF layout, from
            <4> QED BY <2>3, <2>4, <3>1, RegisterAdds
        <3> HIDE DEF layout, from, r
        <3> QED BY <3>1, <3>2
    <2>6. types[id].kind = h.kind
        BY <1>1, <1>4, <2>3, <2>5
    <2>7. Meant(h).kind = h.kind
        <3> DEFINE inside == Said[Target(h)]
        <3>1. \/ h.kind = "Pointer" /\ Said[h] = PointerRead(h.mutability, inside)
              \/ h.kind = "Array" /\ Said[h] = ArrayRead(h.element_count, inside)
            BY <1>2, <1>8, SaidOver
        <3> HIDE DEF inside
        <3>2. \A m : PointerRead(m, inside).shape.kind = "Pointer" /\ ArrayRead(m, inside).shape.kind = "Array"
            BY DEF PointerRead, ArrayRead
        <3> QED BY <3>1, <3>2 DEF Meant
    <2> QED BY <1>4, <2>6, <2>7 DEF OfKind
<1> QED BY <1>2, <1>6, <1>7, <1>8, HintForms

\* Nor, besides the known gaps, a statement whose expressions are not misread.
LEMMA StatementGaps ==
    ASSUME NEW t, OnTable(t), NEW s \in Statements, Right(s, t), \A e \in ExpressionsOf(s) : ~Misread(e)
    PROVE  OnlyGaps(RefusedStatement(s))
<1>0. Good(types) /\ Good(t) /\ IsTypes(types) /\ IsPrefix(t, types)
    BY OnTableIs DEF OnTable
<1>1. ASSUME NEW e \in ExpressionsOf(s)
      PROVE  e \in Expressions /\ \E id \in DOMAIN t : Suits(s, id, t) /\ OfKind(CType(e), id)
    <2>1. PICK c, id : e \in Expressions /\ Found(e, c, id, t) /\ Suits(s, id, t)
        BY DEF Right
    <2>2. id \in DOMAIN t /\ Emits(CType(e), id)
        BY <1>0, <2>1, FoundType, EmitsIs DEF EmitsAlways
    <2> QED BY <2>1, <2>2, EmitsOfKind
<1>2. CASE s.kind = "Variable"
    <2> DEFINE x == names[s.name].type
               T == Shape(x)
               A == IF s.initializer = None THEN {} ELSE Convert(T, CType(s.initializer))
               B == IF ArraysAt(Inner(x)) # {} THEN Why("array", T, T) ELSE {}
    <2>1. RefusedStatement(s) = A \cup B
        BY <1>2 DEF RefusedStatement
    <2>2. OnlyGaps(B)
        BY GapsAre, NothingIsGap
    <2>3. ASSUME s.initializer # None
          PROVE  OnlyGaps(Convert(T, CType(s.initializer)))
        <3>1. s.initializer \in ExpressionsOf(s)
            BY <1>2, <2>3 DEF ExpressionsOf
        <3>2. PICK id \in DOMAIN t : Suits(s, id, t) /\ OfKind(CType(s.initializer), id)
            BY <1>1, <3>1
        <3>3. x \in DOMAIN t /\ Strictly(x, id, types)
            BY <1>2, <3>2, CoercedOnTable DEF Suits
        <3>4. OfKind(T, x)
            BY <1>0, <3>3, OnTableIs, ShapeEmits, EmitsOfKind
        <3> QED BY <3>2, <3>3, <3>4, KindsMeet, ConvertMeets
    <2>4. OnlyGaps(A)
        BY <2>3, NothingIsGap
    <2> HIDE DEF A, B
    <2> QED BY <2>1, <2>2, <2>4, MoreGaps
<1>3. CASE s.kind = "If"
    BY <1>3, GapsAre, NothingIsGap DEF RefusedStatement
<1>4. CASE s.kind = "Return"
    <2>1. s.value \in ExpressionsOf(s)
        BY <1>4 DEF ExpressionsOf
    <2>2. PICK id \in DOMAIN t : Suits(s, id, t) /\ OfKind(CType(s.value), id)
        BY <1>1, <2>1
    <2>3. PICK ret \in DOMAIN t : SeenAs(s.typehint, ret, t) /\ Loosely(ret, id, t)
        BY <1>4, <2>2 DEF Suits
    <2>4. OfKind(Meant(s.typehint), ret) /\ Loosely(ret, id, types)
        BY <1>0, <2>3, HintKind, CoercedOnTable
    <2>5. OnlyGaps(Convert(Meant(s.typehint), CType(s.value)))
        BY <2>2, <2>4, KindsMeet, ConvertMeets
    <2> QED BY <1>4, <2>5 DEF RefusedStatement
<1>5. CASE s.kind = "Prototype"
    BY <1>5, GapsAre, NothingIsGap DEF RefusedStatement
<1>6. CASE s.kind = "Struct"
    <2> DEFINE fs == types[names[s.name].type].fields
               A == IF \E f \in ToSet(fs) : ArraysAt(f.type) # {} THEN Why("array", Plain(""), Plain("")) ELSE {}
               B == IF \E i, j \in DOMAIN fs : i # j /\ fs[i].name = fs[j].name
                    THEN Why("members", Plain(""), Plain("")) ELSE {}
    <2>1. RefusedStatement(s) = A \cup B
        BY <1>6 DEF RefusedStatement
    <2>2. OnlyGaps(A) /\ OnlyGaps(B)
        BY GapsAre, NothingIsGap
    <2> HIDE DEF A, B
    <2> QED BY <2>1, <2>2, MoreGaps
<1>7. CASE s.kind = "Expr"
    BY <1>7, NothingIsGap DEF RefusedStatement
<1> QED BY <1>2, <1>3, <1>4, <1>5, <1>6, <1>7, StatementForms
\* What is right compiles.
LEMMA CompilesRight ==
    ASSUME NEW t, OnTable(t), AllRight(t), Accepted \subseteq Statements
    PROVE  AcceptedCompiles
<1>1. ASSUME NEW s \in Accepted
      PROVE  /\ \A e \in PartsOf(s) : (\E o \in Operands(e) : Misread(o)) \/ \A why \in Refused(e) : KnownGap(why)
             /\ (\E e \in ExpressionsOf(s) : Misread(e)) \/ \A why \in RefusedStatement(s) : KnownGap(why)
    <2>1. Right(s, t) /\ s \in Statements /\ Good(t)
        BY OnTableIs DEF AllRight
    <2>2. ASSUME NEW e \in PartsOf(s), \A o \in Operands(e) : ~Misread(o)
          PROVE  \A why \in Refused(e) : KnownGap(why)
        <3>1. e \in Expressions /\ FoundSomehow(e, t)
            BY <2>1, PartsRight
        <3>2. OnlyGaps(Refused(e))
            BY <2>2, <3>1, ExpressionGaps
        <3> QED BY <3>2 DEF OnlyGaps
    <2>3. (\A e \in ExpressionsOf(s) : ~Misread(e)) => \A why \in RefusedStatement(s) : KnownGap(why)
        BY <2>1, StatementGaps DEF OnlyGaps
    <2> QED BY <2>2, <2>3
<1> QED BY <1>1 DEF AcceptedCompiles

-----------------------------------------------------------------------------
(* A step keeps what is right, and adds a statement that is.               *)

\* What was found for a statement still suits it.
LEMMA SuitsStays ==
    ASSUME NEW t, NEW u, Follows(t, u), NEW s, NEW id \in DOMAIN t, Suits(s, id, t)
    PROVE  Suits(s, id, u)'
<1>1. SameIds(t, u) /\ NamesStay
    BY IdsAreTheSame DEF Follows
<1>2. ASSUME NEW x \in DOMAIN t
      PROVE  /\ x \in DOMAIN u
             /\ Strictly(x, id, t) <=> Strictly(x, id, u)
             /\ Loosely(x, id, t) <=> Loosely(x, id, u)
    <2>1. x \in DOMAIN u
        BY FollowsAt
    <2>2. Strictly(x, id, t) <=> Strictly(x, id, u)
        BY <1>1, CoercesStrictly DEF Strictly
    <2>3. Loosely(x, id, t) <=> Loosely(x, id, u)
        BY <1>1, CoercesLoosely DEF Loosely
    <2> QED BY <2>1, <2>2, <2>3
<1>3. ASSUME s.kind = "Variable"
      PROVE  /\ s.name \in DOMAIN names' /\ names'[s.name].type \in DOMAIN u
             /\ Strictly(names'[s.name].type, id, u)
    <2>1. /\ s.name \in DOMAIN names /\ names[s.name].type \in DOMAIN t
          /\ Strictly(names[s.name].type, id, t)
        BY <1>3 DEF Suits
    <2>2. s.name \in DOMAIN names' /\ names'[s.name] = names[s.name]
        BY <1>1, <2>1 DEF NamesStay
    <2> QED BY <1>2, <2>1, <2>2
<1>4. ASSUME s.kind = "Return"
      PROVE  \E ret \in DOMAIN u : SeenAs(s.typehint, ret, u)' /\ Loosely(ret, id, u)
    <2>1. PICK ret \in DOMAIN t : SeenAs(s.typehint, ret, t) /\ Loosely(ret, id, t)
        BY <1>4 DEF Suits
    <2>2. SeenAs(s.typehint, ret, u)'
        BY <2>1, SeenAsStays DEF Follows
    <2> QED BY <1>2, <2>1, <2>2
<1> QED BY <1>3, <1>4 DEF Suits, Strictly, Loosely
\* What was found is found.
LEMMA FoundStays ==
    ASSUME NEW t, NEW u, Follows(t, u), NEW e \in Expressions, NEW c, NEW id, Found(e, c, id, t)
    PROVE  Found(e, c, id, u)'
<1>1. NamesStay /\ Good(t) /\ IsTypes(t) /\ IsTypes(u) /\ IsPrefix(t, u)
    BY DEF Follows, Good
<1> DEFINE r == CheckTree[e][c][t]
<1>2. c \in 0 .. Len(t) /\ IsDone(r) /\ r.type = id /\ r.types = t
    BY <1>1, FoundType
<1>3. CheckAgain(e)
    BY <1>1, ChecksAgain
<1>4. FoundAgain(r, u, CheckTree[e][c][u]')
    BY <1>1, <1>2, <1>3 DEF CheckAgain, Repeats
<1> HIDE DEF r
<1>5. CheckTree[e][c][u]' = Done(id, u)
    BY <1>1, <1>2, <1>4 DEF FoundAgain
<1>6. c \in 0 .. Len(u)
    <2>1. Len(t) \in Nat /\ Len(u) \in Nat /\ Len(t) <= Len(u)
        BY <1>1, TableIs, LaterTable
    <2> QED BY <1>2, <2>1
<1> QED BY <1>5, <1>6 DEF Found, Done, Result
\* What is right is right.
LEMMA RightStays ==
    ASSUME NEW t, NEW u, Follows(t, u), NEW s, Right(s, t)
    PROVE  Right(s, u)'
<1>1. Good(t)
    BY DEF Follows
<1>2. ASSUME NEW e \in ExpressionsOf(s)
      PROVE  e \in Expressions /\ \E c, id : Found(e, c, id, u)' /\ Suits(s, id, u)'
    <2>1. PICK c, id : e \in Expressions /\ Found(e, c, id, t) /\ Suits(s, id, t)
        BY DEF Right
    <2>2. id \in DOMAIN t
        BY <1>1, <2>1, FoundType
    <2> QED BY <2>1, <2>2, FoundStays, SuitsStays
<1> QED BY <1>2 DEF Right, ExpressionsOf

\* A struct keeps its name, and a new one has it.
LEMMA StructsStay ==
    ASSUME NamesStay, NEW t, StructsNamed(t)
    PROVE  StructsNamed(t)'
<1>1. ASSUME NEW x \in DOMAIN t, t[x].kind = "Struct"
      PROVE  t[x].name \in DOMAIN names' /\ names'[t[x].name].type = x
    BY <1>1 DEF StructsNamed, NamesStay
<1> QED BY <1>1 DEF StructsNamed
LEMMA StructsStart ==
    ASSUME Good(types), NamesStay, StructsNamed(types), NEW s, NEW u, Brings(s, u),
           s.kind = "Struct" => s.name \in DOMAIN names' /\ \E id : id = names'[s.name].type /\ OnlyStruct(id, u)
    PROVE  StructsNamed(u)'
<1>1. ASSUME NEW x \in DOMAIN u, u[x].kind = "Struct"
      PROVE  u[x].name \in DOMAIN names' /\ names'[u[x].name].type = x
    <2>1. CASE x \in DOMAIN types
        <3>1. u[x] = types[x]
            BY <2>1, LaterTable DEF Brings, Good
        <3>2. u[x].name \in DOMAIN names /\ names[u[x].name].type = x
            BY <1>1, <2>1, <3>1 DEF StructsNamed
        <3> QED BY <3>2 DEF NamesStay
    <2>2. CASE x \notin DOMAIN types
        <3>1. s.kind = "Struct" /\ u[x].name = s.name
            BY <1>1, <2>2 DEF Brings, NewTypes
        <3>2. PICK id : id = names'[s.name].type /\ OnlyStruct(id, u)
            BY <3>1
        <3>3. x = id
            BY <1>1, <2>2, <3>2 DEF OnlyStruct
        <3> QED BY <3>1, <3>2, <3>3
    <2> QED BY <2>1, <2>2
<1> QED BY <1>1 DEF StructsNamed

\* What was checked is found, after the step, over the table that it left.
LEMMA FoundAfter ==
    ASSUME NamesStay, NEW e \in Expressions, NEW t, Good(t), NEW c \in 0 .. Len(t), IsDone(Check(e, c, t)),
           NEW u, u = Check(e, c, t).types
    PROVE  /\ DOMAIN t \subseteq DOMAIN u
           /\ \E id \in DOMAIN u : id = Check(e, c, t).type /\ Found(e, c, id, u)'
<1> DEFINE r == CheckTree[e][c][t]
<1>1. Check(e, c, t) = r /\ IsDone(r) /\ u = r.types
    BY DEF Check
<1>2. Sound(r, t)
    BY ChecksAreSound DEF Sounds
<1>3. CheckAgain(e)
    BY ChecksAgain
<1>4. FoundAgain(r, u, CheckTree[e][c][u]')
    BY <1>1, <1>3 DEF CheckAgain, Repeats
<1>5. PICK id : id = r.type
    OBVIOUS
<1> HIDE DEF r
<1>6. IsTypes(u) /\ IsPrefix(t, u) /\ id \in DOMAIN u
    BY <1>1, <1>2, <1>5 DEF Sound
<1>7. CheckTree[e][c][u]' = Done(id, u)
    <2>1. IsPrefix(u, u)
        BY <1>6, TableIs
    <2> QED BY <1>1, <1>4, <1>5, <1>6, <2>1 DEF FoundAgain
<1>8. c \in 0 .. Len(u)
    <2>1. Len(t) \in Nat /\ Len(u) \in Nat /\ Len(t) <= Len(u)
        BY <1>6, TableIs, LaterTable DEF Good
    <2> QED BY <2>1
<1>9. Found(e, c, id, u)'
    BY <1>7, <1>8 DEF Found, Done, Result
<1>10. DOMAIN t \subseteq DOMAIN u
    BY <1>6, LaterTable DEF Good
<1> QED BY <1>1, <1>5, <1>6, <1>9, <1>10

\* The one expression of a statement that is accepted is right.
LEMMA OneRight ==
    ASSUME NEW s, NEW e \in Expressions, ExpressionsOf(s) \subseteq {e},
           NEW u, NEW c, NEW id, Found(e, c, id, u)', Suits(s, id, u)'
    PROVE  Right(s, u)'
BY DEF Right, ExpressionsOf
\* A statement without one is right.
LEMMA NoneRight ==
    ASSUME NEW s, ExpressionsOf(s) = {}, NEW u
    PROVE  Right(s, u)'
BY DEF Right, ExpressionsOf
\* A statement that is accepted was Done.
LEMMA ConcludedDone ==
    ASSUME NEW s, NEW r, NEW declared, Conclude(s, r, declared), r.status \in Statuses,
           phase' \in {"checking", "accepted"}
    PROVE  IsDone(r) /\ types' = r.types /\ names' = With(declared)
<1>1. /\ types' = r.types /\ phase' = Verdict[r.status]
      /\ names' = IF r.status = "Done" THEN With(declared) ELSE names
    BY DEF Conclude
<1>2. IsDone(r)
    BY <1>1 DEF Verdict, IsDone, Statuses
<1> QED BY <1>1, <1>2 DEF IsDone
\* So each kind of statement is right when it is accepted.
LEMMA TypedVariableRight ==
    ASSUME NEW s \in Statements, Good(types), NamesStay, CheckTypedVariable(s), phase' \in {"checking", "accepted"},
           NEW u, u = types'
    PROVE  Right(s, u)'
<1> DEFINE h == Resolve(s.typehint, types)
           v == Check(s.initializer, h.type, h.types)
           r == CASE ~IsDone(h) \/ s.initializer = None -> h
                  [] IsDone(h) /\ s.initializer # None /\ ~IsDone(v) -> v
                  [] OTHER -> IF TryCoerce(h.type, v.type, v.types, TRUE)
                              THEN Done(h.type, v.types) ELSE Failed(v.types)
           f == Fresh(s, Valued(s, r))
           declared == Named(s, "Variable", r.type)
<1>1. /\ s.kind = "Variable" /\ s.typehint \in Hints /\ s.typehint # None
      /\ s.initializer \in Expressions \cup {None}
    BY StatementForms DEF CheckTypedVariable
<1>2. Conclude(s, f, declared)
    BY DEF CheckTypedVariable
<1>3. ExpressionsOf(s) = {s.initializer} \ {None}
    BY <1>1 DEF ExpressionsOf
<1>4. CASE s.initializer = None
    BY <1>3, <1>4, NoneRight
<1>5. CASE s.initializer # None
    <2>1. h.status \in Statuses
        BY <1>1, ResolveStatus
    <2>2. IsDone(h) => Good(h.types) /\ h.type \in DOMAIN h.types /\ h.type \in 0 .. Len(h.types)
        BY <1>1, TypesKnown, ResolveAdds
    <2> HIDE DEF h
    <2>3. IsDone(h) => v.status \in Statuses
        BY <1>1, <1>5, <2>2, CheckStatus
    <2>4. PICK c, t : c = h.type /\ t = h.types
        OBVIOUS
    <2>5. v = Check(s.initializer, c, t)
        BY <2>4
    <2> HIDE DEF v
    <2>6. r.status \in Statuses
          /\ (IsDone(r) => /\ IsDone(h) /\ IsDone(v) /\ Strictly(h.type, v.type, v.types)
                           /\ r.type = h.type /\ r.types = v.types)
        <3>1. CASE ~IsDone(h)
            BY <2>1, <3>1
        <3>2. CASE IsDone(h) /\ ~IsDone(v)
            BY <1>5, <2>3, <3>2
        <3>3. CASE IsDone(h) /\ IsDone(v) /\ ~Strictly(h.type, v.type, v.types)
            <4>1. r = Failed(v.types)
                BY <1>5, <3>3 DEF Strictly
            <4> HIDE DEF r
            <4> QED BY <4>1 DEF Failed, Stop, Result, IsDone, Statuses
        <3>4. CASE IsDone(h) /\ IsDone(v) /\ Strictly(h.type, v.type, v.types)
            <4>1. r = Done(h.type, v.types)
                BY <1>5, <3>4 DEF Strictly
            <4> HIDE DEF r
            <4> QED BY <3>4, <4>1, DoneAgain DEF Statuses
        <3> QED BY <3>1, <3>2, <3>3, <3>4
    <2> HIDE DEF r
    <2>7. f.status \in Statuses /\ (IsDone(f) => f = r /\ IsDone(r))
        BY <2>6, FreshIs, ValuedIs
    <2>8. DOMAIN declared = {s.name} /\ declared[s.name].type = r.type
        BY DEF Named
    <2> HIDE DEF f, declared
    <2>9. IsDone(f) /\ types' = f.types /\ names' = With(declared)
        BY <1>2, <2>7, ConcludedDone
    <2>10. /\ IsDone(h) /\ IsDone(v) /\ u = v.types /\ Strictly(c, v.type, u)
           /\ s.name \in DOMAIN names' /\ names'[s.name].type = c
        BY <2>4, <2>6, <2>7, <2>8, <2>9 DEF With
    <2>11. Good(t) /\ c \in DOMAIN t /\ c \in 0 .. Len(t)
        BY <2>2, <2>4, <2>10
    <2>12. /\ DOMAIN t \subseteq DOMAIN u
           /\ \E id \in DOMAIN u : id = v.type /\ Found(s.initializer, c, id, u)'
        BY <1>1, <1>5, <2>5, <2>10, <2>11, FoundAfter
    <2>13. PICK id \in DOMAIN u : id = v.type /\ Found(s.initializer, c, id, u)'
        BY <2>12
    <2>14. Suits(s, id, u)'
        BY <1>1, <2>10, <2>11, <2>12, <2>13 DEF Suits, Strictly
    <2> QED BY <1>1, <1>3, <1>5, <2>13, <2>14, OneRight
<1> QED BY <1>4, <1>5
LEMMA InferredVariableRight ==
    ASSUME NEW s \in Statements, Good(types), NamesStay, CheckInferredVariable(s), phase' \in {"checking", "accepted"},
           NEW u, u = types'
    PROVE  Right(s, u)'
<1> DEFINE v == Check(s.initializer, NoContext, types)
           f == Fresh(s, Valued(s, v))
           r == IF s.initializer = None THEN Failed(types) ELSE f
           declared == Named(s, "Variable", r.type)
<1>1. /\ s.kind = "Variable" /\ s.typehint = None
      /\ s.initializer \in Expressions \cup {None}
    BY StatementForms DEF CheckInferredVariable
<1>2. Conclude(s, r, declared)
    BY DEF CheckInferredVariable
<1>3. ExpressionsOf(s) = {s.initializer} \ {None}
    BY <1>1 DEF ExpressionsOf
<1>4. CASE s.initializer = None
    BY <1>3, <1>4, NoneRight
<1>5. CASE s.initializer # None
    <2>1. v.status \in Statuses
        BY <1>1, <1>5, NoContextIs, CheckStatus
    <2>2. PICK t, c : t = types /\ c = NoContext
        OBVIOUS
    <2>3. Good(t) /\ c \in 0 .. Len(t)
        BY <2>2, NoContextIs
    <2>4. v = Check(s.initializer, c, t)
        BY <2>2
    <2>5. r = f
        BY <1>5
    <2> HIDE DEF v
    <2>6. f.status \in Statuses /\ (IsDone(f) => f = v /\ IsDone(v))
        BY <2>1, FreshIs, ValuedIs
    <2>7. DOMAIN declared = {s.name} /\ declared[s.name].type = r.type
        BY DEF Named
    <2> HIDE DEF f, r, declared
    <2>8. IsDone(r) /\ types' = r.types /\ names' = With(declared)
        BY <1>2, <2>5, <2>6, ConcludedDone
    <2>9. /\ IsDone(v) /\ u = v.types
          /\ s.name \in DOMAIN names' /\ names'[s.name].type = v.type
        BY <2>5, <2>6, <2>7, <2>8 DEF With
    <2>10. PICK id \in DOMAIN u : id = v.type /\ Found(s.initializer, c, id, u)'
        BY <1>1, <1>5, <2>3, <2>4, <2>9, FoundAfter
    <2>11. Suits(s, id, u)'
        BY <1>1, <2>9, <2>10, CoercesToItself DEF Suits, Strictly
    <2> QED BY <1>1, <1>3, <1>5, <2>10, <2>11, OneRight
<1> QED BY <1>4, <1>5
LEMMA CheckedRight ==
    ASSUME Good(types), NamesStay, NEW s, s.kind \notin {"Variable", "Return"},
           NEW e \in Expressions, ExpressionsOf(s) = {e},
           Conclude(s, Check(e, NoContext, types), <<>>), phase' \in {"checking", "accepted"}, NEW u, u = types'
    PROVE  Right(s, u)'
<1> DEFINE v == Check(e, NoContext, types)
<1>1. v.status \in Statuses
    BY NoContextIs, CheckStatus
<1>2. IsDone(v) /\ types' = v.types
    BY <1>1, ConcludedDone
<1>3. PICK t, c : t = types /\ c = NoContext
    OBVIOUS
<1>4. Good(t) /\ c \in 0 .. Len(t)
    BY <1>3, NoContextIs
<1>5. v = Check(e, c, t)
    BY <1>3
<1> HIDE DEF v
<1>6. PICK id \in DOMAIN u : id = v.type /\ Found(e, c, id, u)'
    BY <1>2, <1>4, <1>5, FoundAfter
<1>7. Suits(s, id, u)'
    BY DEF Suits
<1> QED BY <1>6, <1>7, OneRight
LEMMA ExpressionRight ==
    ASSUME NEW s \in Statements, Good(types), NamesStay, CheckExpression(s) \/ CheckCondition(s),
           phase' \in {"checking", "accepted"}, NEW u, u = types'
    PROVE  Right(s, u)'
<1>1. CASE CheckExpression(s)
    <2>1. s.expr \in Expressions /\ s.kind = "Expr"
        BY <1>1, StatementForms DEF CheckExpression
    <2>2. ExpressionsOf(s) = {s.expr}
        BY <2>1 DEF ExpressionsOf
    <2> QED BY <1>1, <2>1, <2>2, CheckedRight DEF CheckExpression
<1>2. CASE CheckCondition(s)
    <2>1. s.condition \in Expressions /\ s.kind = "If"
        BY <1>2, StatementForms DEF CheckCondition
    <2>2. ExpressionsOf(s) = {s.condition}
        BY <2>1 DEF ExpressionsOf
    <2> QED BY <1>2, <2>1, <2>2, CheckedRight DEF CheckCondition
<1> QED BY <1>1, <1>2
LEMMA ReturnRight ==
    ASSUME NEW s \in Statements, Good(types), NamesStay, CheckReturn(s), phase' \in {"checking", "accepted"},
           NEW u, u = types', IsTypes(u), Good(u)'
    PROVE  Right(s, u)'
<1> DEFINE return == Resolve(s.typehint, types)
           v == Check(s.value, NoContext, return.types)
           r == CASE ~IsDone(return) -> return
                  [] IsDone(return) /\ ~IsDone(v) -> v
                  [] OTHER -> IF TryCoerce(return.type, v.type, v.types, FALSE) THEN v ELSE Failed(v.types)
<1>1. s.kind = "Return" /\ s.typehint \in Hints /\ s.value \in Expressions
    BY StatementForms DEF CheckReturn
<1>2. Conclude(s, r, <<>>)
    BY DEF CheckReturn
<1>3. ExpressionsOf(s) = {s.value}
    BY <1>1 DEF ExpressionsOf
<1>4. return.status \in Statuses
    BY <1>1, ResolveStatus
<1>5. IsDone(return) => /\ Good(return.types) /\ return.type \in DOMAIN return.types
                        /\ SeenAs(s.typehint, return.type, return.types)
    BY <1>1, TypesKnown, ResolveAdds
<1> HIDE DEF return
<1>6. IsDone(return) => v.status \in Statuses
    BY <1>1, <1>5, NoContextIs, CheckStatus
<1>7. PICK c, t, ret : c = NoContext /\ t = return.types /\ ret = return.type
    OBVIOUS
<1>8. v = Check(s.value, c, t)
    BY <1>7
<1> HIDE DEF v
<1>9. /\ r.status \in Statuses
      /\ IsDone(r) => /\ IsDone(return) /\ IsDone(v) /\ r = v
                      /\ Loosely(return.type, v.type, v.types)
    <2>1. CASE ~IsDone(return)
        BY <1>4, <2>1
    <2>2. CASE IsDone(return) /\ ~IsDone(v)
        BY <1>6, <2>2
    <2>3. CASE IsDone(return) /\ IsDone(v) /\ ~Loosely(return.type, v.type, v.types)
        <3>1. r = Failed(v.types)
            BY <2>3 DEF Loosely
        <3> HIDE DEF r
        <3> QED BY <3>1 DEF Failed, Stop, Result, IsDone, Statuses
    <2>4. CASE IsDone(return) /\ IsDone(v) /\ Loosely(return.type, v.type, v.types)
        <3>1. r = v
            BY <2>4 DEF Loosely
        <3> HIDE DEF r
        <3> QED BY <1>6, <2>4, <3>1
    <2> QED BY <2>1, <2>2, <2>3, <2>4
<1> HIDE DEF r
<1>10. IsDone(r) /\ types' = r.types
    BY <1>2, <1>9, ConcludedDone
<1>11. IsDone(return) /\ IsDone(v) /\ u = v.types /\ Loosely(ret, v.type, u)
    BY <1>7, <1>9, <1>10
<1>12. Good(t) /\ c \in 0 .. Len(t) /\ ret \in DOMAIN t /\ SeenAs(s.typehint, ret, t)
    BY <1>5, <1>7, <1>11, NoContextIs
<1>13. /\ DOMAIN t \subseteq DOMAIN u
       /\ \E id \in DOMAIN u : id = v.type /\ Found(s.value, c, id, u)'
    BY <1>1, <1>8, <1>11, <1>12, FoundAfter
<1>14. PICK id \in DOMAIN u : id = v.type /\ Found(s.value, c, id, u)'
    BY <1>13
<1>15. IsPrefix(t, u)
    <2>1. Sound(CheckTree[s.value][c][t], t)
        BY <1>1, <1>12, ChecksAreSound DEF Sounds
    <2> QED BY <1>8, <1>11, <2>1 DEF Check, Sound
<1>16. SeenAs(s.typehint, ret, u)'
    BY <1>12, <1>15, SeenAsStays
<1>17. Suits(s, id, u)'
    BY <1>1, <1>11, <1>12, <1>13, <1>14, <1>16 DEF Suits, Loosely
<1> QED BY <1>1, <1>3, <1>14, <1>17, OneRight
\* A prototype and a struct have no expressions.
LEMMA DeclarationRight ==
    ASSUME NEW s, CheckPrototype(s) \/ CheckStruct(s), NEW u
    PROVE  Right(s, u)'
<1>1. ExpressionsOf(s) = {}
    BY DEF CheckPrototype, CheckStruct, ExpressionsOf
<1> QED BY <1>1, NoneRight
Checked(s) ==
    \/ CheckTypedVariable(s) \/ CheckInferredVariable(s)
    \/ CheckExpression(s) \/ CheckCondition(s) \/ CheckReturn(s)
    \/ CheckPrototype(s) \/ CheckStruct(s)
\* Whatever statement was accepted is right.
LEMMA StatementRight ==
    ASSUME NEW s \in Statements, Good(types), NamesStay, Checked(s), phase' \in {"checking", "accepted"},
           NEW u, u = types', IsTypes(u), Good(u)'
    PROVE  Right(s, u)'
BY TypedVariableRight, InferredVariableRight, ExpressionRight, ReturnRight, DeclarationRight DEF Checked

-----------------------------------------------------------------------------
(* The invariant, and what it says of C.                                   *)

\* The table that the accepted statements left has a type for each of their
\* expressions, and a struct for each name of one.
KeptRight ==
    \E t : /\ Good(t) /\ IsPrefix(t, types)
           /\ StructsNamed(t) /\ AllRight(t)
           /\ phase \in {"checking", "accepted"} => t = types

\* The statements that were accepted stay right.
LEMMA AllRightStays ==
    ASSUME NEW t, NEW u, Follows(t, u), AllRight(t)
    PROVE  \A s \in Accepted : Right(s, u)'
BY RightStays DEF AllRight
\* A step that accepts nothing.
LEMMA RightUnmoved ==
    ASSUME NEW t, Good(t), NamesStay, names' = names, Accepted' = Accepted, StructsNamed(t), AllRight(t)
    PROVE  Good(t)' /\ StructsNamed(t)' /\ AllRight(t)'
<1>1. Good(t)' /\ IsPrefix(t, t)
    BY TableIs DEF Good, Symbols
<1>2. Follows(t, t)
    BY <1>1 DEF Follows, Good
<1>3. \A s \in Accepted : Right(s, t)'
    BY <1>2, AllRightStays
<1>4. AllRight(t)'
    BY <1>3 DEF AllRight
<1> QED BY <1>1, <1>4, StructsStay
\* A step that accepts a statement.
LEMMA RightAccepted ==
    ASSUME TypeOK, TypeOK', NamesStay, Good(types), IsTypes(types'), phase = "checking",
           StructsNamed(types), AllRight(types), NEW s \in Statements, Checked(s),
           NEW r, NEW declared, Concludes(s, r, declared), IsDone(r)
    PROVE  /\ phase' \in {"checking", "accepted"}
           /\ \E u : u = types' /\ Good(u)' /\ StructsNamed(u)' /\ AllRight(u)'
<1>1. /\ types' = r.types /\ phase' \in {"checking", "accepted"} /\ seen' = Append(seen, s)
      /\ names' = With(declared)
    BY DEF Concludes, Conclude, Verdict, IsDone
<1>2. PICK u : u = types'
    OBVIOUS
<1>3. Good(types)'
    BY DEF TypeOK, Good, IsTypes, Symbols
<1>4. Good(u)' /\ IsTypes(u)
    BY <1>2, <1>3
<1>5. /\ Brings(s, u)
      /\ Declares(s) => DOMAIN declared = {s.name}
      /\ s.kind = "Struct" => OnlyStruct(declared[s.name].type, u)
    BY <1>1, <1>2 DEF Concludes, Declared
<1>6. s.kind = "Struct" => s.name \in DOMAIN names' /\ \E id : id = names'[s.name].type /\ OnlyStruct(id, u)
    BY <1>1, <1>5 DEF With, Declares
<1>7. StructsNamed(u)'
    BY <1>5, <1>6, StructsStart
<1>8. PICK t : t = types
    OBVIOUS
<1>9. Follows(t, u)
    BY <1>4, <1>5, <1>8 DEF Follows, Brings
<1>10. \A p \in Accepted : Right(p, u)'
    BY <1>8, <1>9, AllRightStays
<1>11. Right(s, u)'
    BY <1>1, <1>2, <1>4, StatementRight
<1>12. Accepted' = Accepted \cup {s}
    BY <1>1, AcceptedIs
<1>13. AllRight(u)'
    BY <1>10, <1>11, <1>12 DEF AllRight
<1> QED BY <1>1, <1>2, <1>4, <1>7, <1>13
\* Whatever statement is checked, what is right is kept.
LEMMA StatementKeepsRight ==
    ASSUME TypeOK, TypeOK', KeptRight, phase = "checking", NamesStay, Good(types), IsTypes(types'),
           IsPrefix(types, types'), NEW s \in Statements, Checked(s), NEW r, NEW declared, Concludes(s, r, declared)
    PROVE  KeptRight'
<1>1. StructsNamed(types) /\ AllRight(types)
    BY DEF KeptRight
<1>2. CASE IsDone(r)
    <2>1. PICK u : u = types' /\ Good(u)' /\ StructsNamed(u)' /\ AllRight(u)'
        BY <1>1, <1>2, RightAccepted
    <2>2. IsPrefix(u, u)
        BY <2>1, TableIs
    <2> QED BY <2>1, <2>2 DEF KeptRight
<1>3. CASE ~IsDone(r)
    <2>1. /\ phase' \notin {"checking", "accepted"} /\ names' = names /\ seen' = Append(seen, s)
        BY <1>3 DEF Concludes, Conclude, Verdict, IsDone, Statuses
    <2>2. Accepted' = Accepted
        BY <2>1, AcceptedGrows
    <2>3. PICK t : t = types
        OBVIOUS
    <2>4. Good(t)' /\ StructsNamed(t)' /\ AllRight(t)'
        BY <1>1, <2>1, <2>2, <2>3, RightUnmoved
    <2> QED BY <2>1, <2>3, <2>4 DEF KeptRight
<1> QED BY <1>2, <1>3
\* A step keeps what is right.
LEMMA StepKeepsRight ==
    ASSUME TypeOK, EndsWithAVerdict, Kept, KeptRight, [Next]_vars
    PROVE  KeptRight'
<1>1. TypeOK' /\ NamesStay /\ Good(types) /\ IsTypes(types') /\ IsPrefix(types, types')
    BY StepIs
<1>2. CASE UNCHANGED vars
    <2>1. types' = types /\ names' = names /\ phase' = phase /\ seen' = seen
        BY <1>2 DEF vars
    <2>2. Accepted' = Accepted
        BY <2>1 DEF Accepted
    <2>3. PICK t : /\ Good(t) /\ IsPrefix(t, types) /\ StructsNamed(t) /\ AllRight(t)
                   /\ phase \in {"checking", "accepted"} => t = types
        BY DEF KeptRight
    <2>4. Good(t)' /\ StructsNamed(t)' /\ AllRight(t)'
        BY <1>1, <2>1, <2>2, <2>3, RightUnmoved
    <2> QED BY <2>1, <2>3, <2>4 DEF KeptRight
<1>3. CASE Next
    <2>1. PICK s \in Programs[text][Len(seen) + 1] : Checked(s)
        BY <1>3 DEF Next, Checked
    <2>2. phase = "checking" /\ s \in Statements
        BY <1>3, NextStatement DEF Next
    <2>3. StructsKept(types)
        BY <2>2 DEF Kept, Keeps
    <2>4. \E r, declared : Concludes(s, r, declared)
        BY <1>1, <2>1, <2>2, <2>3, StatementBrings DEF Checked
    <2> QED BY <1>1, <2>1, <2>2, <2>4, StatementKeepsRight
<1> QED BY <1>2, <1>3
\* At first nothing was accepted.
LEMMA InitKeepsRight ==
    ASSUME Init
    PROVE  TypeOK /\ EndsWithAVerdict /\ Kept /\ KeptRight
<1>1. TypeOK /\ EndsWithAVerdict /\ Kept
    BY InitKeeps
<1>2. Accepted = {} /\ types = TYPES
    BY DEF Init, Accepted, ToSet
<1>3. Good(types) /\ IsPrefix(types, types)
    BY <1>1, TableIs DEF TypeOK, Good, IsTypes, Symbols
<1>4. \A x \in DOMAIN TYPES : TYPES[x].kind # "Struct"
    BY DEF TYPES, Plain
<1>5. StructsNamed(types) /\ AllRight(types)
    BY <1>2, <1>4 DEF StructsNamed, AllRight
<1> QED BY <1>1, <1>3, <1>5 DEF KeptRight
\* What was kept right is given to C as it was checked.
LEMMA RightMeans ==
    ASSUME TypeOK, KeptRight
    PROVE  KeepsItsWidth /\ AcceptedCompiles
<1>1. PICK t : Good(t) /\ IsPrefix(t, types) /\ StructsNamed(t) /\ AllRight(t)
    BY DEF KeptRight
<1>2. Good(types)
    BY DEF TypeOK, Good, IsTypes, Symbols
<1>3. OnTable(t)
    BY <1>1, <1>2 DEF OnTable
<1> QED BY <1>1, <1>3, AcceptedAre, WidthsRight, CompilesRight

\* Every reachable state keeps it.
THEOREM AlwaysRight == Spec => [](TypeOK /\ KeptRight)
<1>1. Init => TypeOK /\ EndsWithAVerdict /\ Kept /\ KeptRight
    BY InitKeepsRight
<1>2. TypeOK /\ EndsWithAVerdict /\ Kept /\ KeptRight /\ [Next]_vars
        => TypeOK' /\ EndsWithAVerdict' /\ Kept' /\ KeptRight'
    BY NextKeeps, StepKeeps, StepKeepsRight
<1> QED BY <1>1, <1>2, PTL DEF Spec
\* No accepted initializer or argument brings a wider number into a narrower
\* place, though C cuts it without a word, but for the exceptions that
\* KeepsItsWidth names: whatever the program and whatever the statements before.
THEOREM WidthsAreKept == Spec => []KeepsItsWidth
BY AlwaysRight, RightMeans, PTL
\* The C compiler finds nothing to refuse in an accepted statement, the known
\* gaps and what is misread aside: whatever the program, and though a rejected
\* statement may have left its types in the table.
THEOREM AcceptedIsCompiled == Spec => []AcceptedCompiles
BY AlwaysRight, RightMeans, PTL
=============================================================================
