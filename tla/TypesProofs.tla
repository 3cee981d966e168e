----------------------------- MODULE TypesProofs -----------------------------
(***************************************************************************)
(* What the check of a program keeps to, whatever the program: the table   *)
(* of types stays one, ids and symbols keep their meaning, and the check   *)
(* stops without a verdict only where it has no code.                      *)
(***************************************************************************)
EXTENDS Types, SequenceLemmas, TLAPS

-----------------------------------------------------------------------------
(* What register_or_get_type does to a table, whatever is in it: it stays   *)
(* a table of types, no id changes its meaning, a type that was registered  *)
(* is found by its id ever after, and what is shared says the same thing.   *)

\* A layout is made by one of the five constructors.
Formed(layout) ==
    CASE layout.kind = "Pointer" -> layout = PointerType(layout.mutability, layout.target_type)
      [] layout.kind = "Array" -> layout = ArrayType(layout.element_count, layout.element_type)
      [] layout.kind = "Function" -> layout = FunctionType(layout.parameters, layout.return_type)
      [] layout.kind = "Struct" -> layout = StructType(layout.name, layout.fields)
      [] OTHER -> layout = Plain(layout.kind)

\* The ids that are taken for a layout's.
Same(layout, table, lucky) == {id \in DOMAIN table : SameType(table[id], layout, lucky)}

-----------------------------------------------------------------------------
(* Sequences and equality.                                                  *)

\* A prefix has the same elements at its places.
LEMMA PrefixIs ==
    ASSUME NEW S, NEW s \in Seq(S), NEW t \in Seq(S)
    PROVE  IsPrefix(s, t) <=> Len(s) <= Len(t) /\ \A i \in 1 .. Len(s) : s[i] = t[i]
<1>1. Len(s) \in Nat /\ Len(t) \in Nat
    OBVIOUS
<1>2. ASSUME IsPrefix(s, t), NEW i \in 1 .. Len(s)
      PROVE  s[i] = t[i]
    <2>1. SubSeq(s, 1, Len(s)) = SubSeq(t, 1, Len(s)) /\ Len(s) <= Len(t)
        BY <1>2 DEF IsPrefix
    <2>2. SubSeq(s, 1, Len(s))[i] = s[i] /\ SubSeq(t, 1, Len(s))[i] = t[i]
        BY <1>1, <1>2, <2>1
    <2> QED BY <2>1, <2>2
<1>3. ASSUME Len(s) <= Len(t), \A i \in 1 .. Len(s) : s[i] = t[i]
      PROVE  IsPrefix(s, t)
    <2>1. /\ SubSeq(s, 1, Len(s)) = [i \in 1 .. Len(s) |-> s[i]]
          /\ SubSeq(t, 1, Len(s)) = [i \in 1 .. Len(s) |-> t[i]]
        BY <1>1, <1>3
    <2> QED BY <1>3, <2>1 DEF IsPrefix
<1> QED BY <1>2, <1>3 DEF IsPrefix

\* operator== finds a type equal to itself, unless it is Error.
LEMMA SameAsItself ==
    ASSUME NEW layout, layout.kind # "Error", NEW lucky
    PROVE  SameType(layout, layout, lucky)
BY DEF SameType

\* The two outcomes: the first of the ids that are taken for the layout's, or
\* the layout's own, behind the others.
LEMMA RegisterIs ==
    ASSUME NEW Layout, NEW table \in Seq(Layout), NEW layout \in Layout, NEW lucky
    PROVE  LET same == Same(layout, table, lucky)
               r == RegisterOrGet(layout, table, lucky)
           IN  /\ same # {} => /\ r.type \in same
                               /\ \A id \in same : r.type <= id
                               /\ r = Done(r.type, table)
               /\ same = {} => r = Done(Len(table) + 1, Append(table, layout))
<1> DEFINE same == Same(layout, table, lucky)
           r == RegisterOrGet(layout, table, lucky)
<1>1. r = IF same # {} THEN Done(Min(same), table)
                       ELSE Done(Len(table) + 1, Append(table, layout))
    BY DEF RegisterOrGet, Same
<1>2. same \subseteq Nat
    BY DEF Same
<1> HIDE DEF same, r
<1>3. ASSUME same # {}
      PROVE  Min(same) \in same /\ \A id \in same : Min(same) <= id
    BY <1>2, <1>3, LeastNumber DEF Min
<1>4. ASSUME same # {}
      PROVE  r.type = Min(same) /\ r = Done(Min(same), table)
    BY <1>1, <1>4 DEF Done, Result
<1> QED BY <1>1, <1>3, <1>4 DEF same, r

-----------------------------------------------------------------------------
(* The table.                                                               *)

\* Registering a type leaves a table of types, in which every id that was there
\* stands for what it stood for, and the id that comes back is one of them.
THEOREM RegisterKeepsTable ==
    ASSUME NEW Layout, NEW table \in Seq(Layout), NEW layout \in Layout, NEW lucky,
           IsTable(table), layout.kind \in Composed, References(layout) \subseteq DOMAIN table
    PROVE  LET r == RegisterOrGet(layout, table, lucky)
           IN  /\ IsDone(r)
               /\ r.types \in Seq(Layout)
               /\ IsTable(r.types)
               /\ IsPrefix(table, r.types)
               /\ r.type \in DOMAIN r.types
<1> DEFINE same == Same(layout, table, lucky)
           r == RegisterOrGet(layout, table, lucky)
           longer == Append(table, layout)
<1>1. CASE same # {}
    <2>1. r.type \in DOMAIN table /\ r = Done(r.type, table)
        BY <1>1, RegisterIs DEF Same
    <2>2. IsDone(r) /\ r.types = table
        BY <2>1 DEF IsDone, Done, Result
    <2>3. IsPrefix(table, table)
        BY PrefixIs
    <2> QED BY <2>1, <2>2, <2>3
<1>2. CASE same = {}
    <2> DEFINE end == Len(table) + 1
    <2>1. r = Done(end, longer)
        BY <1>2, RegisterIs
    <2>2. IsDone(r) /\ r.types = longer /\ r.type = end
        BY <2>1 DEF IsDone, Done, Result
    <2>3. /\ longer \in Seq(Layout)
          /\ Len(table) \in Nat
          /\ Len(longer) = end
          /\ DOMAIN table = 1 .. Len(table)
          /\ DOMAIN longer = 1 .. end
          /\ longer[end] = layout
          /\ \A i \in 1 .. Len(table) : longer[i] = table[i]
        OBVIOUS
    <2> HIDE DEF longer, r, same
    <2>4. IsPrefix(table, longer)
        BY <2>3, PrefixIs
    <2>5. IsPrefix(TYPES, longer)
        <3>1. /\ Len(TYPES) <= Len(table)
              /\ SubSeq(TYPES, 1, Len(TYPES)) = SubSeq(table, 1, Len(TYPES))
              /\ Len(TYPES) \in Nat
            BY DEF IsTable, IsPrefix, TYPES
        <3>2. SubSeq(table, 1, Len(TYPES)) = SubSeq(longer, 1, Len(TYPES))
            <4>1. /\ SubSeq(table, 1, Len(TYPES)) = [i \in 1 .. Len(TYPES) |-> table[i]]
                  /\ SubSeq(longer, 1, Len(TYPES)) = [i \in 1 .. Len(TYPES) |-> longer[i]]
                BY <2>3, <3>1
            <4>2. \A i \in 1 .. Len(TYPES) : i \in 1 .. Len(table)
                BY <2>3, <3>1
            <4> QED BY <2>3, <4>1, <4>2
        <3> QED BY <2>3, <3>1, <3>2 DEF IsPrefix
    <2>6. ASSUME NEW id \in DOMAIN longer, NEW ref \in References(longer[id])
          PROVE  ref \in 1 .. id - 1
        <3>1. CASE id = end
            <4>1. ref \in 1 .. Len(table)
                BY <2>3, <2>6, <3>1
            <4> QED BY <2>3, <3>1, <4>1
        <3>2. CASE id # end
            <4>1. id \in DOMAIN table
                BY <2>3, <3>2
            <4>2. longer[id] = table[id]
                BY <2>3, <4>1
            <4> QED BY <2>6, <4>1, <4>2 DEF IsTable
        <3> QED BY <3>1, <3>2
    <2>7. \A i \in DOMAIN table : table[i] # layout
        BY <1>2, SameAsItself DEF same, Same, Composed
    <2>8. ASSUME NEW i \in Len(TYPES) + 1 .. Len(longer), NEW j \in Len(TYPES) + 1 .. Len(longer),
                 longer[i] = longer[j]
          PROVE  i = j
        <3>0. Len(TYPES) \in Nat
            BY DEF TYPES
        <3>1. CASE i # end /\ j # end
            <4>1. /\ i \in Len(TYPES) + 1 .. Len(table) /\ j \in Len(TYPES) + 1 .. Len(table)
                  /\ i \in 1 .. Len(table) /\ j \in 1 .. Len(table)
                BY <2>3, <3>0, <3>1
            <4>2. table[i] = table[j]
                BY <2>3, <2>8, <4>1
            <4> QED BY <4>1, <4>2 DEF IsTable
        <3>2. CASE i = end /\ j # end
            <4>1. j \in 1 .. Len(table)
                BY <2>3, <3>0, <3>2
            <4> QED BY <2>3, <2>7, <2>8, <3>2, <4>1
        <3>3. CASE i # end /\ j = end
            <4>1. i \in 1 .. Len(table)
                BY <2>3, <3>0, <3>3
            <4> QED BY <2>3, <2>7, <2>8, <3>3, <4>1
        <3> QED BY <3>1, <3>2, <3>3
    <2>9. ASSUME NEW id \in Len(TYPES) + 1 .. Len(longer)
          PROVE  longer[id].kind \in Composed
        <3>1. Len(TYPES) \in Nat
            BY DEF TYPES
        <3>2. CASE id = end
            BY <2>3, <3>2
        <3>3. CASE id # end
            <4>1. id \in Len(TYPES) + 1 .. Len(table) /\ id \in 1 .. Len(table)
                BY <2>3, <3>1, <3>3
            <4> QED BY <2>3, <4>1 DEF IsTable
        <3> QED BY <3>2, <3>3
    <2>10. IsTable(longer)
        BY <2>5, <2>6, <2>8, <2>9 DEF IsTable
    <2> QED BY <2>2, <2>3, <2>4, <2>10 DEF r
<1> QED BY <1>1, <1>2

\* A type that was registered is found under the same id for ever, whatever is
\* registered after it: two declarations that write it share it.
THEOREM RegisteredIsFound ==
    ASSUME NEW Layout, NEW table \in Seq(Layout), NEW layout \in Layout, NEW lucky,
           layout.kind # "Error", NEW later \in Seq(Layout),
           IsPrefix(RegisterOrGet(layout, table, lucky).types, later)
    PROVE  RegisterOrGet(layout, later, lucky)
             = Done(RegisterOrGet(layout, table, lucky).type, later)
<1> DEFINE r == RegisterOrGet(layout, table, lucky)
           found == RegisterOrGet(layout, later, lucky)
           same == Same(layout, table, lucky)
           all == Same(layout, later, lucky)
<1>1. /\ r.types \in Seq(Layout)
      /\ r.type \in DOMAIN r.types
      /\ SameType(r.types[r.type], layout, lucky)
      /\ \A id \in DOMAIN r.types : SameType(r.types[id], layout, lucky) => r.type <= id
    <2>1. CASE same # {}
        <3>1. r.type \in same /\ (\A id \in same : r.type <= id) /\ r = Done(r.type, table)
            BY <2>1, RegisterIs
        <3>2. r.types = table
            BY <3>1 DEF Done, Result
        <3> QED BY <3>1, <3>2 DEF Same
    <2>2. CASE same = {}
        <3>1. r = Done(Len(table) + 1, Append(table, layout))
            BY <2>2, RegisterIs
        <3>2. r.types = Append(table, layout) /\ r.type = Len(table) + 1
            BY <3>1 DEF Done, Result
        <3> HIDE DEF r
        <3>3. /\ r.types \in Seq(Layout) /\ Len(table) \in Nat
              /\ DOMAIN table = 1 .. Len(table)
              /\ DOMAIN r.types = 1 .. Len(table) + 1
              /\ r.types[Len(table) + 1] = layout
              /\ \A i \in 1 .. Len(table) : r.types[i] = table[i]
            BY <3>2
        <3>4. \A i \in DOMAIN table : ~SameType(table[i], layout, lucky)
            BY <2>2 DEF same, Same
        <3>5. \A id \in DOMAIN r.types : SameType(r.types[id], layout, lucky) => id = Len(table) + 1
            BY <3>3, <3>4
        <3>6. SameType(layout, layout, lucky)
            BY SameAsItself
        <3> QED BY <3>2, <3>3, <3>5, <3>6 DEF r
    <2> QED BY <2>1, <2>2
<1> HIDE DEF r
<1>2. /\ Len(r.types) \in Nat /\ Len(later) \in Nat
      /\ DOMAIN r.types = 1 .. Len(r.types) /\ DOMAIN later = 1 .. Len(later)
      /\ Len(r.types) <= Len(later)
      /\ \A i \in 1 .. Len(r.types) : r.types[i] = later[i]
    <2>1. IsPrefix(r.types, later)
        BY DEF r
    <2> QED BY <1>1, <2>1, PrefixIs
<1>3. r.type \in all
    <2>1. r.type \in DOMAIN later /\ later[r.type] = r.types[r.type]
        BY <1>1, <1>2
    <2> QED BY <1>1, <2>1 DEF Same
<1>4. \A id \in all : r.type <= id
    <2> SUFFICES ASSUME NEW id \in all PROVE r.type <= id
        OBVIOUS
    <2>1. id \in 1 .. Len(later) /\ SameType(later[id], layout, lucky)
        BY <1>2 DEF Same
    <2>2. CASE id \in 1 .. Len(r.types)
        BY <1>1, <1>2, <2>1, <2>2
    <2>3. CASE id \notin 1 .. Len(r.types)
        <3>1. r.type \in 1 .. Len(r.types) /\ Len(r.types) \in Nat /\ Len(later) \in Nat
            BY <1>1, <1>2
        <3>2. id \in Nat /\ id >= 1
            BY <2>1, <3>1
        <3>3. id > Len(r.types)
            BY <2>3, <3>1, <3>2
        <3> QED BY <3>1, <3>2, <3>3
    <2> QED BY <2>2, <2>3
<1>5. found.type \in all /\ (\A id \in all : found.type <= id) /\ found = Done(found.type, later)
    BY <1>3, RegisterIs
<1>6. all \subseteq Nat
    BY <1>2 DEF Same
<1> HIDE DEF found, all
<1>7. found.type = r.type
    <2>1. found.type \in Nat /\ r.type \in Nat
        BY <1>3, <1>5, <1>6
    <2>2. r.type <= found.type /\ found.type <= r.type
        BY <1>3, <1>4, <1>5
    <2> QED BY <2>1, <2>2
<1> QED BY <1>5, <1>7 DEF r, found

\* The id that comes back for a built-in type or a pointer stands for exactly
\* that type; so it does for a function among functions with as many
\* parameters, and for a struct it has the struct's name.  Only parameter lists
\* of other lengths, and arrays, get the id of something else.
THEOREM SharedSaysTheSame ==
    ASSUME NEW Layout, NEW table \in Seq(Layout), NEW layout \in Layout, NEW lucky,
           Formed(layout), \A id \in DOMAIN table : Formed(table[id])
    PROVE  LET r == RegisterOrGet(layout, table, lucky)
               shared == r.types[r.type]
           IN  /\ shared.kind = layout.kind
               /\ layout.kind \notin {"Array", "Function", "Struct"} => shared = layout
               /\ (/\ layout.kind = "Function"
                   /\ shared.parameters \in Seq(Nat) /\ layout.parameters \in Seq(Nat)
                   /\ Len(shared.parameters) = Len(layout.parameters)) => shared = layout
               /\ layout.kind = "Struct" => shared.name = layout.name
<1> DEFINE same == Same(layout, table, lucky)
           r == RegisterOrGet(layout, table, lucky)
           shared == r.types[r.type]
<1>1. CASE same # {}
    <2>1. r.type \in same /\ r = Done(r.type, table)
        BY <1>1, RegisterIs
    <2>2. r.types = table
        BY <2>1 DEF Done, Result
    <2>3. SameType(shared, layout, lucky) /\ Formed(shared)
        BY <2>1, <2>2 DEF Same
    <2> HIDE DEF shared, r, same
    <2>4. shared.kind = layout.kind
        BY <2>3 DEF SameType
    <2>5. ASSUME layout.kind \notin {"Array", "Function", "Struct"}
          PROVE  shared = layout
        <3>1. CASE layout.kind = "Pointer"
            <4>1. /\ shared = PointerType(shared.mutability, shared.target_type)
                  /\ layout = PointerType(layout.mutability, layout.target_type)
                BY <2>3, <2>4, <3>1 DEF Formed
            <4>2. /\ shared.mutability = layout.mutability
                  /\ shared.target_type = layout.target_type
                BY <2>3, <2>4, <3>1 DEF SameType
            <4> QED BY <4>1, <4>2
        <3>2. CASE layout.kind # "Pointer"
            <4>1. shared = Plain(shared.kind) /\ layout = Plain(layout.kind)
                BY <2>3, <2>4, <2>5, <3>2 DEF Formed
            <4> QED BY <2>4, <4>1
        <3> QED BY <3>1, <3>2
    <2>6. ASSUME layout.kind = "Function",
                 shared.parameters \in Seq(Nat), layout.parameters \in Seq(Nat),
                 Len(shared.parameters) = Len(layout.parameters)
          PROVE  shared = layout
        <3>1. /\ shared = FunctionType(shared.parameters, shared.return_type)
              /\ layout = FunctionType(layout.parameters, layout.return_type)
            BY <2>3, <2>4, <2>6 DEF Formed
        <3>2. /\ shared.return_type = layout.return_type
              /\ \A n \in DOMAIN shared.parameters :
                   n \in DOMAIN layout.parameters => shared.parameters[n] = layout.parameters[n]
            BY <2>3, <2>4, <2>6 DEF SameType
        <3>3. DOMAIN shared.parameters = DOMAIN layout.parameters
            BY <2>6
        <3>4. shared.parameters = layout.parameters
            BY <2>6, <3>2, <3>3
        <3> QED BY <3>1, <3>2, <3>4
    <2>7. layout.kind = "Struct" => shared.name = layout.name
        BY <2>3, <2>4 DEF SameType
    <2> QED BY <2>4, <2>5, <2>6, <2>7 DEF shared, r
<1>2. CASE same = {}
    <2>1. r = Done(Len(table) + 1, Append(table, layout))
        BY <1>2, RegisterIs
    <2>2. r.types = Append(table, layout) /\ r.type = Len(table) + 1
        BY <2>1 DEF Done, Result
    <2>3. Append(table, layout)[Len(table) + 1] = layout
        OBVIOUS
    <2>4. shared = layout
        BY <2>2, <2>3
    <2> QED BY <2>4
<1> QED BY <1>1, <1>2

-----------------------------------------------------------------------------
(* Trees.                                                                   *)

\* What an expression is made of.
LEMMA ExpressionForms ==
    ASSUME NEW e \in Expressions
    PROVE  /\ e.kind \in {"Integer", "Float", "CString", "Identifier", "Dereference", "AddressOf",
                          "Subscript", "Unary", "Member_Access", "Binop", "Cast", "Function_Call",
                          "Eval"}
           /\ e.kind \in {"Dereference", "AddressOf"} => e.operand \in Expressions
           /\ e.kind = "Subscript" => e.expr \in Expressions /\ e.index \in Expressions
           /\ e.kind = "Unary" => e.expression \in Expressions
           /\ e.kind = "Member_Access" => e.receiver \in Expressions
           /\ e.kind = "Binop" => e.left \in Expressions /\ e.right \in Expressions
           /\ e.kind = "Cast" => e.type \in Hints \cup {None} /\ e.expr \in Expressions
           /\ e.kind = "Function_Call" => e.callee \in Expressions /\ e.arguments \in Seq(Expressions)
           /\ e.kind = "Eval" => e.expr \in Expressions
BY ProgramsAssumption DEF ExpressionTrees, Float, CString

\* What a typehint is made of.
LEMMA HintForms ==
    ASSUME NEW h \in Hints
    PROVE  /\ h.kind \in {"Builtin", "Identifier", "Pointer", "Array"}
           /\ h.kind = "Builtin" => h.type \in DOMAIN TYPES
           /\ h.kind = "Pointer" => h.mutability \in BOOLEAN /\ h.typehint \in Hints
           /\ h.kind = "Array" => h.element_count \in Nat /\ h.element_type \in Hints
BY ProgramsAssumption DEF HintTrees

\* The operands of an expression are expressions, and less high than it.
LEMMA OperandsAre ==
    ASSUME NEW e \in Expressions
    PROVE  Operands(e) \subseteq Expressions
<1>1. e.kind = "Function_Call" => ToSet(e.arguments) \subseteq Expressions
    BY ExpressionForms DEF ToSet
<1> QED BY <1>1, ExpressionForms DEF Operands

LEMMA HeightOfOperands ==
    ASSUME NEW e \in Expressions, NEW o \in Operands(e)
    PROVE  o \in Expressions /\ Height[o] \in Nat /\ Height[e] \in Nat /\ Height[o] < Height[e]
BY DepthAssumption, OperandsAre

\* The expressions, and the typehints, that are less high than n.
ExpressionsBelow(n) == {e \in Expressions : Height[e] < n}
HintsBelow(n) == {h \in Hints : Height[h] < n}

LEMMA AllBelow == /\ Depth + 1 \in Nat
                  /\ ExpressionsBelow(Depth + 1) = Expressions
                  /\ HintsBelow(Depth + 1) = Hints
<1>1. \A t \in Expressions \cup Hints : Height[t] \in 0 .. Depth
    BY DepthAssumption
<1> QED BY <1>1, DepthAssumption DEF ExpressionsBelow, HintsBelow

\* The recursion that defines Parts is well-founded.
PartsBody(g, e) == {e} \cup UNION {g[o] : o \in Operands(e)}
PartsBelow(n, g) == g = [e \in ExpressionsBelow(n) |-> PartsBody(g, e)]
LEMMA PartsExist ==
    ASSUME NEW n \in Nat
    PROVE  \E g : PartsBelow(n, g)
<1> DEFINE S == {m \in Nat : \E g : PartsBelow(m, g)}
<1>1. 0 \in S
    <2> DEFINE g == [e \in {} |-> {}]
    <2>1. ExpressionsBelow(0) = {}
        BY DepthAssumption DEF ExpressionsBelow
    <2>2. PartsBelow(0, g)
        BY <2>1 DEF PartsBelow
    <2> QED BY <2>2
<1>2. ASSUME NEW m \in Nat, m \in S
      PROVE  m + 1 \in S
    <2>1. PICK g : PartsBelow(m, g)
        BY <1>2
    <2> DEFINE h == [e \in ExpressionsBelow(m + 1) |-> PartsBody(g, e)]
    <2>2. ASSUME NEW e \in ExpressionsBelow(m + 1), NEW o \in Operands(e)
          PROVE  h[o] = g[o]
        <3>1. o \in ExpressionsBelow(m) /\ o \in ExpressionsBelow(m + 1)
            BY <2>2, HeightOfOperands DEF ExpressionsBelow
        <3> QED BY <2>1, <3>1 DEF PartsBelow
    <2>3. ASSUME NEW e \in ExpressionsBelow(m + 1)
          PROVE  PartsBody(g, e) = PartsBody(h, e)
        <3> HIDE DEF h
        <3>1. \A o \in Operands(e) : g[o] = h[o]
            BY <2>2
        <3>2. {g[o] : o \in Operands(e)} = {h[o] : o \in Operands(e)}
            BY <3>1
        <3> QED BY <3>2 DEF PartsBody
    <2>4. PartsBelow(m + 1, h)
        BY <2>3 DEF PartsBelow
    <2>5. m + 1 \in Nat
        OBVIOUS
    <2> HIDE DEF h
    <2> QED BY <2>4, <2>5
<1> HIDE DEF S
<1>3. n \in S
    BY <1>1, <1>2, SetInduction
<1> QED BY <1>3 DEF S
LEMMA PartsIs ==
    ASSUME NEW e \in Expressions
    PROVE  Parts[e] = {e} \cup UNION {Parts[o] : o \in Operands(e)}
<1>1. \E g : PartsBelow(Depth + 1, g)
    BY AllBelow, PartsExist
<1>2. \E g : g = [x \in Expressions |-> {x} \cup UNION {g[o] : o \in Operands(x)}]
    BY <1>1, AllBelow DEF PartsBelow, PartsBody
<1>3. Parts = [x \in Expressions |-> {x} \cup UNION {Parts[o] : o \in Operands(x)}]
    BY <1>2 DEF Parts
<1> QED BY <1>3

\* So is the recursion of resolve_typehint over typehints.
HintBody(g, h) == [table \in Tables |-> ResolveBy(g, h, table)]
ResolveBelow(n, g) == g = [h \in HintsBelow(n) |-> HintBody(g, h)]
LEMMA TargetIs ==
    ASSUME NEW h \in Hints, h.kind \in {"Pointer", "Array"}
    PROVE  /\ Target(h) \in Hints
           /\ Height[Target(h)] \in Nat /\ Height[h] \in Nat /\ Height[Target(h)] < Height[h]
<1>1. Target(h) \in Hints
    BY HintForms DEF Target
<1> QED BY <1>1, DepthAssumption
LEMMA ResolveAgrees ==
    ASSUME NEW f, NEW g, NEW h \in Hints,
           h.kind \in {"Pointer", "Array"} => f[Target(h)] = g[Target(h)]
    PROVE  HintBody(f, h) = HintBody(g, h)
<1>1. ASSUME NEW table
      PROVE  ResolveBy(f, h, table) = ResolveBy(g, h, table)
    <2>1. CASE h.kind \in {"Pointer", "Array"}
        <3>1. CheckHintBy(f, Target(h), table) = CheckHintBy(g, Target(h), table)
            BY <2>1 DEF CheckHintBy
        <3> QED BY <2>1, <3>1 DEF ResolveBy
    <2>2. CASE h.kind = "Builtin"
        BY <2>2 DEF ResolveBy
    <2>3. CASE h.kind = "Identifier"
        BY <2>3 DEF ResolveBy
    <2> QED BY <2>1, <2>2, <2>3, HintForms
<1> QED BY <1>1 DEF HintBody
LEMMA ResolveExists ==
    ASSUME NEW n \in Nat
    PROVE  \E g : ResolveBelow(n, g)
<1> DEFINE S == {m \in Nat : \E g : ResolveBelow(m, g)}
<1>1. 0 \in S
    <2> DEFINE g == [h \in {} |-> {}]
    <2>1. HintsBelow(0) = {}
        BY DepthAssumption DEF HintsBelow
    <2>2. ResolveBelow(0, g)
        BY <2>1 DEF ResolveBelow
    <2> QED BY <2>2
<1>2. ASSUME NEW m \in Nat, m \in S
      PROVE  m + 1 \in S
    <2>1. PICK g : ResolveBelow(m, g)
        BY <1>2
    <2> DEFINE f == [h \in HintsBelow(m + 1) |-> HintBody(g, h)]
    <2>2. ASSUME NEW h \in HintsBelow(m + 1)
          PROVE  HintBody(g, h) = HintBody(f, h)
        <3>1. ASSUME h.kind \in {"Pointer", "Array"}
              PROVE  f[Target(h)] = g[Target(h)]
            <4>1. Target(h) \in HintsBelow(m) /\ Target(h) \in HintsBelow(m + 1)
                BY <2>2, <3>1, TargetIs DEF HintsBelow
            <4> QED BY <2>1, <4>1 DEF ResolveBelow
        <3> HIDE DEF f
        <3> QED BY <3>1, ResolveAgrees DEF HintsBelow
    <2>3. ResolveBelow(m + 1, f)
        BY <2>2 DEF ResolveBelow
    <2>4. m + 1 \in Nat
        OBVIOUS
    <2> HIDE DEF f
    <2> QED BY <2>3, <2>4
<1> HIDE DEF S
<1>3. n \in S
    BY <1>1, <1>2, SetInduction
<1> QED BY <1>3 DEF S
LEMMA ResolveIs ==
    ASSUME NEW h \in Hints, NEW table \in Tables
    PROVE  Resolve(h, table) = ResolveBy(ResolveHint, h, table)
<1>1. \E g : ResolveBelow(Depth + 1, g)
    BY AllBelow, ResolveExists
<1>2. \E g : g = [x \in Hints |-> [t \in Tables |-> ResolveBy(g, x, t)]]
    BY <1>1, AllBelow DEF ResolveBelow, HintBody
<1>3. ResolveHint = [x \in Hints |-> [t \in Tables |-> ResolveBy(ResolveHint, x, t)]]
    BY <1>2 DEF ResolveHint
<1> QED BY <1>3 DEF Resolve

\* And the recursion of check_expression over expressions.
CheckBody(g, e) == [context \in Nat |-> [table \in Tables |-> CheckBy(g, e, context, table)]]
CheckBelow(n, g) == g = [e \in ExpressionsBelow(n) |-> CheckBody(g, e)]
LEMMA CheckOnAgrees ==
    ASSUME NEW f, NEW g, NEW e \in Expressions, \A o \in Operands(e) : f[o] = g[o],
           e.kind \notin {"Integer", "Float", "CString", "Identifier", "Cast"},
           NEW v, NEW context
    PROVE  CheckOn(f, e, v, context) = CheckOn(g, e, v, context)
<1>1. CASE e.kind = "Dereference"
    BY <1>1 DEF CheckOn
<1>2. CASE e.kind = "AddressOf"
    BY <1>2 DEF CheckOn
<1>3. CASE e.kind = "Subscript"
    <2>1. f[e.index] = g[e.index]
        BY <1>3 DEF Operands
    <2> QED BY <1>3, <2>1 DEF CheckOn
<1>4. CASE e.kind = "Unary"
    BY <1>4 DEF CheckOn
<1>5. CASE e.kind = "Member_Access"
    BY <1>5 DEF CheckOn
<1>6. CASE e.kind = "Binop"
    <2>1. f[e.right] = g[e.right]
        BY <1>6 DEF Operands
    <2> QED BY <1>6, <2>1 DEF CheckOn
<1>7. CASE e.kind = "Function_Call"
    <2> DEFINE fs == [n \in DOMAIN e.arguments |-> f[e.arguments[n]]]
               gs == [n \in DOMAIN e.arguments |-> g[e.arguments[n]]]
    <2>1. \A n \in DOMAIN e.arguments : e.arguments[n] \in Operands(e)
        BY <1>7 DEF Operands, ToSet
    <2>2. fs = gs
        BY <2>1
    <2>3. CheckOn(f, e, v, context) = CheckFunctionCall(fs, e, v)
        BY <1>7 DEF CheckOn
    <2>4. CheckOn(g, e, v, context) = CheckFunctionCall(gs, e, v)
        BY <1>7 DEF CheckOn
    <2> HIDE DEF fs, gs
    <2> QED BY <2>2, <2>3, <2>4
<1>8. CASE e.kind = "Eval"
    BY <1>8 DEF CheckOn
<1> QED BY <1>1, <1>2, <1>3, <1>4, <1>5, <1>6, <1>7, <1>8, ExpressionForms
LEMMA FirstIs ==
    ASSUME NEW e \in Expressions,
           e.kind \notin {"Integer", "Float", "CString", "Identifier", "Cast"}
    PROVE  First(e) \in Operands(e)
BY ExpressionForms DEF First, Operands
LEMMA CheckAgrees ==
    ASSUME NEW f, NEW g, NEW e \in Expressions, \A o \in Operands(e) : f[o] = g[o]
    PROVE  CheckBody(f, e) = CheckBody(g, e)
<1>1. ASSUME NEW context, NEW table
      PROVE  CheckBy(f, e, context, table) = CheckBy(g, e, context, table)
    <2>1. CASE e.kind \in {"Integer", "Float", "CString", "Identifier"}
        BY <2>1 DEF CheckBy
    <2>2. CASE e.kind = "Cast"
        <3>1. f[e.expr] = g[e.expr]
            BY <2>2 DEF Operands
        <3>2. CheckCast(f, e, context, table) = CheckCast(g, e, context, table)
            BY <3>1 DEF CheckCast
        <3> QED BY <2>2, <3>2 DEF CheckBy
    <2>3. CASE e.kind \notin {"Integer", "Float", "CString", "Identifier", "Cast"}
        <3>1. f[First(e)] = g[First(e)]
            BY <2>3, FirstIs
        <3>2. \A v : CheckOn(f, e, v, context) = CheckOn(g, e, v, context)
            BY <2>3, CheckOnAgrees
        <3> QED BY <2>3, <3>1, <3>2 DEF CheckBy
    <2> QED BY <2>1, <2>2, <2>3
<1> QED BY <1>1 DEF CheckBody
LEMMA CheckExists ==
    ASSUME NEW n \in Nat
    PROVE  \E g : CheckBelow(n, g)
<1> DEFINE S == {m \in Nat : \E g : CheckBelow(m, g)}
<1>1. 0 \in S
    <2> DEFINE g == [e \in {} |-> {}]
    <2>1. ExpressionsBelow(0) = {}
        BY DepthAssumption DEF ExpressionsBelow
    <2>2. CheckBelow(0, g)
        BY <2>1 DEF CheckBelow
    <2> QED BY <2>2
<1>2. ASSUME NEW m \in Nat, m \in S
      PROVE  m + 1 \in S
    <2>1. PICK g : CheckBelow(m, g)
        BY <1>2
    <2> DEFINE f == [e \in ExpressionsBelow(m + 1) |-> CheckBody(g, e)]
    <2>2. ASSUME NEW e \in ExpressionsBelow(m + 1)
          PROVE  CheckBody(g, e) = CheckBody(f, e)
        <3>1. ASSUME NEW o \in Operands(e)
              PROVE  f[o] = g[o]
            <4>1. o \in ExpressionsBelow(m) /\ o \in ExpressionsBelow(m + 1)
                BY <2>2, <3>1, HeightOfOperands DEF ExpressionsBelow
            <4> QED BY <2>1, <4>1 DEF CheckBelow
        <3> HIDE DEF f
        <3> QED BY <3>1, CheckAgrees DEF ExpressionsBelow
    <2>3. CheckBelow(m + 1, f)
        BY <2>2 DEF CheckBelow
    <2>4. m + 1 \in Nat
        OBVIOUS
    <2> HIDE DEF f
    <2> QED BY <2>3, <2>4
<1> HIDE DEF S
<1>3. n \in S
    BY <1>1, <1>2, SetInduction
<1> QED BY <1>3 DEF S
LEMMA CheckIs ==
    ASSUME NEW e \in Expressions, NEW context \in Nat, NEW table \in Tables
    PROVE  CheckTree[e][context][table] = CheckBy(CheckTree, e, context, table)
<1>1. \E g : CheckBelow(Depth + 1, g)
    BY AllBelow, CheckExists
<1>2. \E g : g = [x \in Expressions |-> [c \in Nat |-> [t \in Tables |-> CheckBy(g, x, c, t)]]]
    BY <1>1, AllBelow DEF CheckBelow, CheckBody
<1>3. CheckTree = [x \in Expressions |-> [c \in Nat |-> [t \in Tables |-> CheckBy(CheckTree, x, c, t)]]]
    BY <1>2 DEF CheckTree
<1>4. CheckTree[e] = [c \in Nat |-> [t \in Tables |-> CheckBy(CheckTree, e, c, t)]]
    BY <1>3
<1>5. CheckTree[e][context] = [t \in Tables |-> CheckBy(CheckTree, e, context, t)]
    BY <1>4
<1> QED BY <1>5

-----------------------------------------------------------------------------
(* Tables and results.                                                      *)

IsTypes(table) == table \in Tables /\ IsTable(table)
Symbols(table) == \A x \in DOMAIN names : IsSymbol(names[x], table)

\* What a check over a table yields: a table that keeps its ids, and an id in
\* it if the check was Done.
Results == [status : {"Done", "Failed", "Aborted", "Crashed"}, type : Nat, types : Tables]
Sound(r, table) ==
    /\ r \in Results
    /\ IsTypes(r.types) /\ IsPrefix(table, r.types)
    /\ r.type \in 0 .. Len(r.types)
    /\ IsDone(r) => r.type \in DOMAIN r.types

LEMMA TableIs ==
    ASSUME NEW table, IsTypes(table)
    PROVE  /\ table \in Seq(Layouts)
           /\ Len(table) \in Nat /\ DOMAIN table = 1 .. Len(table)
           /\ 1 .. 12 \subseteq DOMAIN table
           /\ \A id \in 1 .. 12 : table[id] = TYPES[id]
           /\ IsPrefix(table, table)
<1>1. table \in Seq(Layouts) /\ IsPrefix(TYPES, table)
    BY DEF IsTypes, Tables, IsTable
<1>2. Len(table) \in Nat /\ DOMAIN table = 1 .. Len(table)
    BY <1>1
<1>3. TYPES \in Seq(Layouts) /\ Len(TYPES) = 12
    <2>1. \A kind \in {"Error", "Void", "Int", "Uint", "Bool", "Char", "String", "Int64", "Uint8",
                       "Float32", "Float64", "Namespace"} : Plain(kind) \in Layouts
        BY DEF Layouts, Plain
    <2> QED BY <2>1 DEF TYPES
<1>4. 12 <= Len(table) /\ \A id \in 1 .. 12 : table[id] = TYPES[id]
    <2> HIDE DEF TYPES
    <2> DEFINE T == TYPES
    <2>1. T \in Seq(Layouts) /\ IsPrefix(T, table)
        BY <1>1, <1>3
    <2> HIDE DEF T
    <2>2. Len(T) <= Len(table) /\ \A i \in 1 .. Len(T) : T[i] = table[i]
        BY <1>1, <2>1, PrefixIs
    <2> QED BY <1>3, <2>2 DEF T
<1>5. IsPrefix(table, table)
    BY <1>1, PrefixIs
<1> QED BY <1>1, <1>2, <1>4, <1>5

\* Ids stay ids, and stand for what they stood for.
LEMMA LaterTable ==
    ASSUME NEW s, IsTypes(s), NEW t, IsTypes(t), IsPrefix(s, t)
    PROVE  /\ Len(s) <= Len(t)
           /\ DOMAIN s \subseteq DOMAIN t
           /\ \A id \in DOMAIN s : t[id] = s[id]
<1>1. /\ s \in Seq(Layouts) /\ Len(s) \in Nat /\ DOMAIN s = 1 .. Len(s)
      /\ t \in Seq(Layouts) /\ Len(t) \in Nat /\ DOMAIN t = 1 .. Len(t)
    BY TableIs
<1>2. Len(s) <= Len(t) /\ \A i \in 1 .. Len(s) : s[i] = t[i]
    BY <1>1, PrefixIs
<1> QED BY <1>1, <1>2
LEMMA LaterStill ==
    ASSUME NEW s, IsTypes(s), NEW t, IsTypes(t), NEW u, IsTypes(u), IsPrefix(s, t), IsPrefix(t, u)
    PROVE  IsPrefix(s, u)
<1>1. /\ s \in Seq(Layouts) /\ Len(s) \in Nat /\ DOMAIN s = 1 .. Len(s)
      /\ t \in Seq(Layouts) /\ Len(t) \in Nat /\ DOMAIN t = 1 .. Len(t)
      /\ u \in Seq(Layouts) /\ Len(u) \in Nat /\ DOMAIN u = 1 .. Len(u)
    BY TableIs
<1>2. Len(s) <= Len(t) /\ Len(t) <= Len(u)
    BY LaterTable
<1>3. ASSUME NEW i \in 1 .. Len(s)
      PROVE  s[i] = u[i]
    <2>1. i \in DOMAIN s /\ i \in DOMAIN t
        BY <1>1, <1>2
    <2> QED BY <2>1, LaterTable
<1>4. Len(s) <= Len(u)
    BY <1>1, <1>2
<1> QED BY <1>1, <1>3, <1>4, PrefixIs
LEMMA SymbolsLater ==
    ASSUME NEW s, IsTypes(s), NEW t, IsTypes(t), IsPrefix(s, t), NEW symbol, IsSymbol(symbol, s)
    PROVE  IsSymbol(symbol, t)
<1>1. DOMAIN s \subseteq DOMAIN t /\ \A id \in DOMAIN s : t[id] = s[id]
    BY LaterTable
<1>2. \A ps \in Seq(DOMAIN s) : ps \in Seq(DOMAIN t)
    BY <1>1
<1> QED BY <1>1, <1>2 DEF IsSymbol

LEMMA SoundLater ==
    ASSUME NEW s, IsTypes(s), NEW t, IsTypes(t), IsPrefix(s, t), NEW r, Sound(r, t)
    PROVE  Sound(r, s)
BY LaterStill DEF Sound
LEMMA DoneIsSound ==
    ASSUME NEW table, IsTypes(table), NEW id \in DOMAIN table
    PROVE  Sound(Done(id, table), table) /\ IsDone(Done(id, table))
<1>1. id \in Nat /\ table \in Tables
    BY TableIs DEF IsTypes
<1>2. Done(id, table) \in Results
    BY <1>1 DEF Done, Result, Results
<1> QED BY <1>2, TableIs DEF Sound, Done, Result, IsDone
LEMMA StopIsSound ==
    ASSUME NEW table, IsTypes(table), NEW status \in {"Failed", "Aborted", "Crashed"}
    PROVE  /\ Sound(Stop(status, table), table)
           /\ Stop(status, table).status = status /\ ~IsDone(Stop(status, table))
<1>1. Stop(status, table) \in Results
    BY DEF Stop, Result, Results, NoContext, IsTypes
<1> QED BY <1>1, TableIs DEF Sound, Stop, Result, IsDone, NoContext
LEMMA FailedIsSound ==
    ASSUME NEW table, IsTypes(table)
    PROVE  Sound(Failed(table), table) /\ Failed(table).status = "Failed" /\ ~IsDone(Failed(table))
BY StopIsSound DEF Failed

\* What a registered type is made of is registered.
LEMMA LayoutIs ==
    ASSUME NEW table, IsTypes(table), NEW id \in DOMAIN table
    PROVE  /\ table[id] \in Layouts
           /\ References(table[id]) \subseteq DOMAIN table
<1>1. /\ table \in Seq(Layouts) /\ Len(table) \in Nat /\ DOMAIN table = 1 .. Len(table)
      /\ id \in Nat /\ id <= Len(table)
    BY TableIs
<1>2. ASSUME NEW r \in References(table[id])
      PROVE  r \in DOMAIN table
    <2>1. r \in 1 .. id - 1
        BY DEF IsTypes, IsTable
    <2> QED BY <1>1, <2>1
<1> QED BY <1>1, <1>2

LEMMA RegisterIsSound ==
    ASSUME NEW table, IsTypes(table), NEW layout \in Layouts, NEW lucky,
           layout.kind \in Composed, References(layout) \subseteq DOMAIN table
    PROVE  LET r == RegisterOrGet(layout, table, lucky)
           IN  Sound(r, table) /\ IsDone(r) /\ r.types[r.type].kind = layout.kind
<1> DEFINE r == RegisterOrGet(layout, table, lucky)
<1>1. table \in Seq(Layouts) /\ IsTable(table)
    BY DEF IsTypes, Tables
<1>2. /\ IsDone(r) /\ r.types \in Seq(Layouts) /\ IsTable(r.types) /\ IsPrefix(table, r.types)
      /\ r.type \in DOMAIN r.types
    BY <1>1, RegisterKeepsTable
<1>3. r.types[r.type].kind = layout.kind
    <2>1. CASE Same(layout, table, lucky) # {}
        <3>1. r.type \in Same(layout, table, lucky) /\ r = Done(r.type, table)
            BY <1>1, <2>1, RegisterIs
        <3>2. r.types = table
            BY <3>1 DEF Done, Result
        <3> QED BY <3>1, <3>2 DEF Same, SameType
    <2>2. CASE Same(layout, table, lucky) = {}
        <3>1. r = Done(Len(table) + 1, Append(table, layout))
            BY <1>1, <2>2, RegisterIs
        <3>2. r.types = Append(table, layout) /\ r.type = Len(table) + 1
            BY <3>1 DEF Done, Result
        <3> QED BY <1>1, <3>2
    <2> QED BY <2>1, <2>2
<1> HIDE DEF r
<1>4. IsTypes(r.types)
    BY <1>2 DEF IsTypes, Tables
<1>5. r.type \in 0 .. Len(r.types)
    <2>1. Len(r.types) \in Nat /\ DOMAIN r.types = 1 .. Len(r.types)
        BY <1>4, TableIs
    <2> QED BY <1>2, <2>1
<1>6. r \in Results
    <2>1. r = Done(r.type, r.types)
        BY RegisterIs, <1>1 DEF r, Done, Result
    <2>2. r.type \in Nat /\ r.types \in Tables
        BY <1>4, <1>5 DEF IsTypes
    <2> QED BY <2>1, <2>2 DEF Done, Result, Results
<1>7. Sound(r, table)
    BY <1>2, <1>4, <1>5, <1>6 DEF Sound, IsDone
<1> QED BY <1>2, <1>3, <1>7 DEF r

-----------------------------------------------------------------------------
(* Typehints.                                                               *)

\* Checked over a table for which the symbols are good, a typehint is Done or
\* Failed, and the table grows.
Resolves(r, table) == Sound(r, table) /\ r.status \in {"Done", "Failed"}
ResolvesAlways(h) == \A table : IsTypes(table) /\ Symbols(table) => Resolves(Resolve(h, table), table)

LEMMA IdentifierResolves ==
    ASSUME NEW x, NEW table, IsTypes(table), Symbols(table)
    PROVE  Resolves(CheckIdentifier(x, table), table)
<1>1. CASE x \in DOMAIN names
    <2>1. names[x].type \in DOMAIN table
        BY <1>1 DEF Symbols, IsSymbol
    <2> QED BY <1>1, <2>1, DoneIsSound DEF CheckIdentifier, Resolves, IsDone
<1>2. CASE x \notin DOMAIN names
    BY <1>2, FailedIsSound DEF CheckIdentifier, Resolves
<1> QED BY <1>1, <1>2

LEMMA OverIs ==
    ASSUME NEW h \in Hints, h.kind \in {"Pointer", "Array"}, NEW id \in Nat
    PROVE  /\ Over(h, id) \in Layouts
           /\ Over(h, id).kind = h.kind
           /\ References(Over(h, id)) = {id}
<1>1. CASE h.kind = "Pointer"
    <2>1. h.mutability \in BOOLEAN
        BY <1>1, HintForms
    <2>2. Over(h, id) = PointerType(h.mutability, id)
        BY <1>1 DEF Over
    <2>3. PointerType(h.mutability, id) \in Layouts
        BY <2>1 DEF PointerType, Layouts
    <2>4. References(PointerType(h.mutability, id)) = {id} /\ PointerType(h.mutability, id).kind = "Pointer"
        BY DEF PointerType, References
    <2> QED BY <1>1, <2>2, <2>3, <2>4
<1>2. CASE h.kind = "Array"
    <2>1. h.element_count \in Nat
        BY <1>2, HintForms
    <2>2. Over(h, id) = ArrayType(h.element_count, id)
        BY <1>2 DEF Over
    <2>3. ArrayType(h.element_count, id) \in Layouts
        BY <2>1 DEF ArrayType, Layouts
    <2>4. References(ArrayType(h.element_count, id)) = {id} /\ ArrayType(h.element_count, id).kind = "Array"
        BY DEF ArrayType, References
    <2> QED BY <1>2, <2>2, <2>3, <2>4
<1> QED BY <1>1, <1>2

LEMMA HintStep ==
    ASSUME NEW h \in Hints, h.kind \in {"Pointer", "Array"} => ResolvesAlways(Target(h))
    PROVE  ResolvesAlways(h)
<1> SUFFICES ASSUME NEW table, IsTypes(table), Symbols(table)
             PROVE  Resolves(Resolve(h, table), table)
    BY DEF ResolvesAlways
<1>1. Resolve(h, table) = ResolveBy(ResolveHint, h, table)
    BY ResolveIs DEF IsTypes
<1>2. CASE h.kind = "Builtin"
    <2>1. h.type \in DOMAIN table
        BY <1>2, HintForms, TableIs DEF TYPES
    <2> QED BY <1>1, <1>2, <2>1, DoneIsSound DEF ResolveBy, Resolves, IsDone
<1>3. CASE h.kind = "Identifier"
    <2>1. Resolve(h, table) \in {CheckIdentifier(h.symbol, table), Failed(table)}
        BY <1>1, <1>3 DEF ResolveBy, CheckIdentifier
    <2> QED BY <2>1, IdentifierResolves, FailedIsSound DEF Resolves
<1>4. CASE h.kind \in {"Pointer", "Array"}
    <2> DEFINE target == CheckHint(Target(h), table)
               r == RegisterOrGet(Over(h, target.type), target.types, TRUE)
    <2>1. Resolve(h, table) = IF IsDone(target) THEN r ELSE target
        BY <1>1, <1>4 DEF ResolveBy, CheckHint
    <2>2. Resolves(target, table)
        <3>1. target \in {CheckIdentifier(Target(h).symbol, table), Resolve(Target(h), table)}
            BY DEF CheckHint, CheckHintBy, Resolve
        <3> QED BY <1>4, <3>1, IdentifierResolves DEF ResolvesAlways
    <2> HIDE DEF target
    <2>3. ASSUME IsDone(target)
          PROVE  Resolves(r, table)
        <3>1. IsTypes(target.types) /\ IsPrefix(table, target.types) /\ target.type \in DOMAIN target.types
            BY <2>2, <2>3 DEF Resolves, Sound
        <3>2. target.type \in Nat
            <4>1. Len(target.types) \in Nat /\ DOMAIN target.types = 1 .. Len(target.types)
                BY <3>1, TableIs
            <4> QED BY <3>1, <4>1
        <3>3. /\ Over(h, target.type) \in Layouts /\ Over(h, target.type).kind \in Composed
              /\ References(Over(h, target.type)) \subseteq DOMAIN target.types
            <4> DEFINE id == target.type
            <4>1. id \in Nat /\ id \in DOMAIN target.types
                BY <3>1, <3>2
            <4> HIDE DEF id
            <4>2. Over(h, id) \in Layouts /\ Over(h, id).kind = h.kind /\ References(Over(h, id)) = {id}
                BY <1>4, <4>1, OverIs
            <4>3. Over(h, id).kind \in Composed /\ References(Over(h, id)) \subseteq DOMAIN target.types
                BY <1>4, <4>1, <4>2 DEF Composed
            <4> QED BY <4>2, <4>3 DEF id
        <3>4. Sound(r, target.types) /\ IsDone(r)
            BY <3>1, <3>3, RegisterIsSound
        <3> QED BY <3>1, <3>4, SoundLater DEF Resolves, IsDone
    <2> QED BY <2>1, <2>2, <2>3
<1> QED BY <1>2, <1>3, <1>4, HintForms

LEMMA ResolveIsSound ==
    ASSUME NEW h \in Hints, NEW table, IsTypes(table), Symbols(table)
    PROVE  Resolves(Resolve(h, table), table)
<1> DEFINE S == {n \in Nat : \A x \in HintsBelow(n) : ResolvesAlways(x)}
<1>1. 0 \in S
    BY DepthAssumption DEF HintsBelow
<1>2. ASSUME NEW n \in Nat, n \in S
      PROVE  n + 1 \in S
    <2>1. ASSUME NEW x \in HintsBelow(n + 1), x.kind \in {"Pointer", "Array"}
          PROVE  ResolvesAlways(Target(x))
        <3>1. Target(x) \in HintsBelow(n)
            BY <2>1, TargetIs DEF HintsBelow
        <3> QED BY <1>2, <3>1
    <2>2. \A x \in HintsBelow(n + 1) : ResolvesAlways(x)
        BY <2>1, HintStep DEF HintsBelow
    <2> QED BY <2>2
<1> HIDE DEF S
<1>3. Depth + 1 \in S
    BY <1>1, <1>2, SetInduction, AllBelow
<1>4. ResolvesAlways(h)
    BY <1>3, AllBelow DEF S
<1> QED BY <1>4 DEF ResolvesAlways

LEMMA CheckHintIsSound ==
    ASSUME NEW h \in Hints, NEW table, IsTypes(table), Symbols(table)
    PROVE  Resolves(CheckHint(h, table), table)
<1>1. CheckHint(h, table) \in {CheckIdentifier(h.symbol, table), Resolve(h, table)}
    BY DEF CheckHint, CheckHintBy, Resolve
<1> QED BY <1>1, IdentifierResolves, ResolveIsSound

-----------------------------------------------------------------------------
(* Expressions.                                                             *)

\* Over a table for which the symbols are good, an expression is checked to a
\* sound result, which lacks a verdict only where a part of it explains that.
Explained(r, e) ==
    /\ r.status = "Aborted" => \E p \in Parts[e] : NotWritten(p)
    /\ r.status = "Crashed" => \E p \in Parts[e] : TooManyArguments(p)
Checks(r, e, table) == Sound(r, table) /\ Explained(r, e)
ChecksAlways(e) ==
    \A table, context : (IsTypes(table) /\ Symbols(table) /\ context \in 0 .. Len(table)) =>
        Checks(CheckTree[e][context][table], e, table)

LEMMA PartsOfOperands ==
    ASSUME NEW e \in Expressions
    PROVE  /\ e \in Parts[e]
           /\ \A o \in Operands(e) : Parts[o] \subseteq Parts[e]
BY PartsIs
LEMMA ChecksOperand ==
    ASSUME NEW e \in Expressions, NEW o \in Operands(e), NEW r, NEW table, Checks(r, o, table)
    PROVE  Checks(r, e, table)
BY PartsOfOperands DEF Checks, Explained
LEMMA ChecksLater ==
    ASSUME NEW e, NEW s, IsTypes(s), NEW t, IsTypes(t), IsPrefix(s, t), NEW r, Checks(r, e, t)
    PROVE  Checks(r, e, s)
BY SoundLater DEF Checks
LEMMA DoneChecks ==
    ASSUME NEW e, NEW table, IsTypes(table), NEW id \in DOMAIN table
    PROVE  Checks(Done(id, table), e, table)
BY DoneIsSound DEF Checks, Explained, IsDone
LEMMA FailedChecks ==
    ASSUME NEW e, NEW table, IsTypes(table)
    PROVE  Checks(Failed(table), e, table)
BY FailedIsSound DEF Checks, Explained
LEMMA AbortedChecks ==
    ASSUME NEW e \in Expressions, NotWritten(e), NEW table, IsTypes(table)
    PROVE  Checks(Stop("Aborted", table), e, table)
BY StopIsSound, PartsOfOperands DEF Checks, Explained
\* A Done result is a place to go on from.
LEMMA GoOn ==
    ASSUME NEW table, IsTypes(table), Symbols(table), NEW r, Sound(r, table)
    PROVE  /\ IsTypes(r.types) /\ Symbols(r.types) /\ IsPrefix(table, r.types)
           /\ r.type \in 0 .. Len(r.types) /\ 0 \in 0 .. Len(r.types)
           /\ DOMAIN table \subseteq DOMAIN r.types
           /\ IsDone(r) => r.type \in DOMAIN r.types
<1>1. IsTypes(r.types) /\ IsPrefix(table, r.types)
    BY DEF Sound
<1>2. Symbols(r.types)
    BY <1>1, SymbolsLater DEF Symbols
<1>3. DOMAIN table \subseteq DOMAIN r.types
    BY <1>1, LaterTable
<1>4. 0 \in 0 .. Len(r.types)
    <2>1. Len(r.types) \in Nat
        BY <1>1, TableIs
    <2> QED BY <2>1
<1> QED BY <1>1, <1>2, <1>3, <1>4 DEF Sound

LEMMA PointedAt ==
    ASSUME NEW table, IsTypes(table), NEW id \in DOMAIN table
    PROVE  /\ table[id].kind = "Pointer" => table[id].target_type \in DOMAIN table
           /\ table[id].kind = "Array" => table[id].element_type \in DOMAIN table
           /\ table[id].kind = "Function" => table[id].return_type \in DOMAIN table
BY LayoutIs DEF References
LEMMA ElementIs ==
    ASSUME NEW table, IsTypes(table), NEW id \in DOMAIN table
    PROVE  Element(id, table) \subseteq DOMAIN table
BY PointedAt DEF Element
LEMMA TheOnlyChecks ==
    ASSUME NEW e, NEW table, IsTypes(table), NEW ids, ids \subseteq DOMAIN table
    PROVE  Checks(TheOnly(ids, table), e, table)
<1>1. CASE ids = {}
    BY <1>1, FailedChecks DEF TheOnly
<1>2. CASE ids # {}
    <2>1. (CHOOSE id \in ids : TRUE) \in DOMAIN table
        BY <1>2
    <2> QED BY <1>2, <2>1, DoneChecks DEF TheOnly
<1> QED BY <1>1, <1>2
LEMMA MemberChecks ==
    ASSUME NEW e, NEW table, IsTypes(table), NEW id \in DOMAIN table
    PROVE  Checks(CheckMember(e, id, table), e, table)
<1> DEFINE struct == table[StructOf(id, table)]
           here == {i \in DOMAIN struct.fields : struct.fields[i].name = e.member}
<1>1. StructOf(id, table) \in DOMAIN table
    BY PointedAt DEF StructOf
<1>2. CASE struct.kind = "Struct" /\ \E f \in ToSet(struct.fields) : f.name = e.member
    <2>1. struct.fields \in Seq([name : STRING, type : Nat])
        BY <1>1, <1>2, LayoutIs DEF Layouts
    <2>2. here # {} /\ here \subseteq Nat
        BY <1>2, <2>1 DEF ToSet
    <2>3. Min(here) \in here
        BY <2>2, LeastOf
    <2>4. FieldOf(struct.fields, e.member) \in ToSet(struct.fields)
        BY <2>3 DEF FieldOf, ToSet
    <2>5. FieldOf(struct.fields, e.member).type \in References(struct)
        BY <1>2, <2>4 DEF References
    <2>6. FieldOf(struct.fields, e.member).type \in DOMAIN table
        BY <1>1, <2>5, LayoutIs
    <2>7. CheckMember(e, id, table) = Done(FieldOf(struct.fields, e.member).type, table)
        BY <1>2 DEF CheckMember
    <2> QED BY <2>6, <2>7, DoneChecks
<1>3. CASE ~(struct.kind = "Struct" /\ \E f \in ToSet(struct.fields) : f.name = e.member)
    <2>1. CheckMember(e, id, table) = Failed(table)
        BY <1>3 DEF CheckMember
    <2> QED BY <2>1, FailedChecks
<1> QED BY <1>2, <1>3

\* Where expression_is_lvalue has a case, what it lets through is as good as
\* before; where it has none, the expression is not written.
LEMMA LvalueChecks ==
    ASSUME NEW e \in Expressions, NEW o \in Expressions,
           o.kind \in NoLvalueCase => NotWritten(e),
           NEW table, IsTypes(table), NEW id, NEW good, Checks(good, e, table)
    PROVE  Checks(LvalueOr(o, id, table, good), e, table)
<1>1. Lvalue(o, id) \in {"yes", "no", "abort"}
    BY DEF Lvalue
<1>2. CASE Lvalue(o, id) = "yes"
    BY <1>2 DEF LvalueOr
<1>3. CASE Lvalue(o, id) = "no"
    BY <1>3, FailedChecks DEF LvalueOr
<1>4. CASE Lvalue(o, id) = "abort"
    <2>1. o.kind \in NoLvalueCase
        BY <1>4, ExpressionForms DEF Lvalue, NoLvalueCase
    <2> QED BY <1>4, <2>1, AbortedChecks DEF LvalueOr
<1> QED BY <1>1, <1>2, <1>3, <1>4
LEMMA OperandsCheck ==
    ASSUME NEW e \in Expressions, e.kind = "Binop", NEW table, IsTypes(table),
           NEW left \in DOMAIN table, NEW right \in DOMAIN table
    PROVE  Checks(CheckOperands(e, left, right, table), e, table)
<1>1. Checks(Failed(table), e, table) /\ Checks(Done(left, table), e, table)
      /\ Checks(Done(right, table), e, table) /\ Checks(Done(BoolId, table), e, table)
    BY FailedChecks, DoneChecks, TableIs DEF BoolId
<1>2. CASE e.op = "Assign"
    <2> DEFINE good == UnlessConstant(e.left, left, table)
    <2>1. Checks(good, e, table)
        BY <1>1 DEF UnlessConstant
    <2>2. e.left \in Expressions /\ (e.left.kind \in NoLvalueCase => NotWritten(e))
        BY <1>2, ExpressionForms DEF NotWritten
    <2> HIDE DEF good
    <2>3. Checks(LvalueOr(e.left, left, table, good), e, table)
        BY <2>1, <2>2, LvalueChecks
    <2>4. \/ CheckOperands(e, left, right, table) = Failed(table)
          \/ CheckOperands(e, left, right, table) = LvalueOr(e.left, left, table, good)
        BY <1>2 DEF CheckOperands, Equalities, good
    <2> QED BY <1>1, <2>3, <2>4
<1>3. CASE e.op # "Assign"
    <2>1. CheckOperands(e, left, right, table) \in {Failed(table), Done(BoolId, table), Done(right, table)}
        BY <1>3 DEF CheckOperands
    <2> QED BY <1>1, <2>1
<1> QED BY <1>2, <1>3

\* A call's arguments: whatever one of them makes of the call, it is a result
\* for the whole call, and a crash is explained by the arguments there are.
CallStates(e, table) == {call \in [result : Results, over : BOOLEAN] : Checks(call.result, e, table)}
LEMMA ArgumentStep ==
    ASSUME NEW e \in Expressions, e.kind = "Function_Call", e.callee.kind = "Identifier",
           NEW table, IsTypes(table), Symbols(table),
           NEW n \in 1 .. Len(e.arguments), ChecksAlways(e.arguments[n]),
           NEW schema, schema = names[e.callee.symbol].schema, schema.parameters \in Seq(DOMAIN table),
           NEW call \in CallStates(e, table)
    PROVE  CheckArgument(CheckTree[e.arguments[n]], n, schema, call) \in CallStates(e, table)
<1> DEFINE sofar == call.result
           context == IF HasParameter(n, schema) THEN schema.parameters[n] ELSE NoContext
           arg == CheckTree[e.arguments[n]][context][sofar.types]
           bad == \/ arg.status = "Failed"
                  \/ HasParameter(n, schema) /\ sofar.status = "Done"
                       /\ ~TryCoerce(schema.parameters[n], arg.type, arg.types, TRUE)
           next == CheckArgument(CheckTree[e.arguments[n]], n, schema, call)
           crash == HasParameter(n, schema) /\ n > Len(schema.parameters)
<1> SUFFICES next \in CallStates(e, table)
    OBVIOUS
<1> HIDE DEF next
<1>1. /\ sofar \in Results /\ call.over \in BOOLEAN /\ Checks(sofar, e, table)
      /\ call = [result |-> sofar, over |-> call.over]
    BY DEF CallStates
<1>2. /\ IsTypes(sofar.types) /\ Symbols(sofar.types) /\ IsPrefix(table, sofar.types)
      /\ DOMAIN table \subseteq DOMAIN sofar.types
      /\ sofar.type \in 0 .. Len(sofar.types)
      /\ IsDone(sofar) => sofar.type \in DOMAIN sofar.types
    BY <1>1, GoOn DEF Checks
<1>3. e.arguments \in Seq(Expressions) /\ Len(e.arguments) \in Nat /\ n \in Nat
    BY ExpressionForms
<1>4. Len(schema.parameters) \in Nat
    OBVIOUS
<1>5. ASSUME NEW r \in Results, NEW over \in BOOLEAN, Checks(r, e, table)
      PROVE  [result |-> r, over |-> over] \in CallStates(e, table)
    BY <1>5 DEF CallStates
<1>6. CASE call.over
    <2>1. next = call
        BY <1>6 DEF next, CheckArgument
    <2> QED BY <2>1
<1>7. CASE ~call.over /\ crash
    <2>1. next = [result |-> Stop("Crashed", sofar.types), over |-> TRUE]
        BY <1>7 DEF next, CheckArgument
    <2>2. TooManyArguments(e)
        <3>1. ~schema.variadic /\ Len(e.arguments) > Len(schema.parameters)
            BY <1>3, <1>4, <1>7 DEF HasParameter
        <3> QED BY <3>1 DEF TooManyArguments
    <2> DEFINE r == Stop("Crashed", sofar.types)
    <2>3. Sound(r, sofar.types) /\ r.status = "Crashed"
        BY <1>2, StopIsSound
    <2>4. Explained(r, e)
        BY <2>2, <2>3, PartsOfOperands DEF Explained
    <2>5. r \in Results
        BY <2>3 DEF Sound
    <2> HIDE DEF r
    <2>6. Checks(r, e, table)
        BY <1>2, <2>3, <2>4, ChecksLater DEF Checks
    <2> QED BY <1>5, <2>1, <2>5, <2>6 DEF r
<1>8. CASE ~call.over /\ ~crash
    <2>1. context \in 0 .. Len(sofar.types)
        <3>1. Len(sofar.types) \in Nat /\ DOMAIN sofar.types = 1 .. Len(sofar.types)
            BY <1>2, TableIs
        <3>2. CASE HasParameter(n, schema)
            <4>1. n \in 1 .. Len(schema.parameters)
                BY <1>3, <1>4, <1>8, <3>2
            <4>2. schema.parameters[n] \in DOMAIN table
                BY <4>1
            <4> QED BY <1>2, <3>1, <3>2, <4>2
        <3>3. CASE ~HasParameter(n, schema)
            BY <3>1, <3>3 DEF NoContext
        <3> QED BY <3>2, <3>3
    <2>2. next = CASE arg.status \in {"Aborted", "Crashed"} -> [result |-> arg, over |-> TRUE]
                   [] arg.status = "Done" /\ arg.type = NamespaceId ->
                        [result |-> Failed(arg.types), over |-> TRUE]
                   [] OTHER -> [call EXCEPT !.result =
                        Result(IF bad THEN "Failed" ELSE sofar.status, sofar.type, arg.types)]
        BY <1>8 DEF next, CheckArgument
    <2> HIDE DEF context
    <2>3. Checks(arg, e, sofar.types)
        <3>1. Checks(arg, e.arguments[n], sofar.types)
            BY <1>2, <2>1 DEF ChecksAlways
        <3>2. e.arguments[n] \in Operands(e)
            BY <1>3 DEF Operands, ToSet
        <3> HIDE DEF arg
        <3> QED BY <3>1, <3>2, ChecksOperand
    <2> HIDE DEF arg
    <2>4. /\ arg \in Results /\ IsTypes(arg.types) /\ IsPrefix(sofar.types, arg.types)
          /\ DOMAIN sofar.types \subseteq DOMAIN arg.types
        BY <1>2, <2>3, GoOn DEF Checks, Sound
    <2>5. IsPrefix(table, arg.types)
        BY <1>2, <2>4, LaterStill
    <2>6. Checks(arg, e, table)
        BY <1>2, <2>3, ChecksLater
    <2>7. CASE arg.status \in {"Aborted", "Crashed"}
        <3>1. next = [result |-> arg, over |-> TRUE]
            BY <2>2, <2>7
        <3> QED BY <1>5, <2>4, <2>6, <3>1
    <2>8. CASE arg.status = "Done" /\ arg.type = NamespaceId
        <3> DEFINE r == Failed(arg.types)
        <3>1. next = [result |-> r, over |-> TRUE]
            BY <2>2, <2>8
        <3>2. Checks(r, e, arg.types)
            BY <2>4, FailedChecks
        <3> HIDE DEF r
        <3>3. Checks(r, e, table) /\ r \in Results
            BY <2>4, <2>5, <3>2, ChecksLater DEF Checks, Sound
        <3> QED BY <1>5, <3>1, <3>3
    <2>9. CASE arg.status \notin {"Aborted", "Crashed"} /\ ~(arg.status = "Done" /\ arg.type = NamespaceId)
        <3> DEFINE status == IF bad THEN "Failed" ELSE sofar.status
                   r == Result(status, sofar.type, arg.types)
        <3>1. next = [call EXCEPT !.result = r]
            BY <2>2, <2>9
        <3>2. next = [result |-> r, over |-> call.over]
            BY <1>1, <3>1
        <3>3. status \in {"Failed", sofar.status}
            OBVIOUS
        <3> HIDE DEF status
        <3>4. r.status = status /\ r.type = sofar.type /\ r.types = arg.types
            BY DEF Result
        <3>5. r \in Results
            BY <1>1, <2>4, <3>3 DEF Result, Results
        <3> HIDE DEF r
        <3>6. sofar.type \in 0 .. Len(arg.types)
            <4>1. Len(sofar.types) \in Nat /\ Len(arg.types) \in Nat /\ Len(sofar.types) <= Len(arg.types)
                BY <1>2, <2>4, TableIs, LaterTable
            <4> QED BY <1>2, <4>1
        <3>7. IsDone(r) => r.type \in DOMAIN r.types
            BY <1>2, <2>4, <3>3, <3>4 DEF IsDone
        <3>8. Explained(r, e)
            BY <1>1, <3>3, <3>4 DEF Checks, Explained
        <3>9. Checks(r, e, table)
            BY <2>4, <2>5, <3>4, <3>5, <3>6, <3>7, <3>8 DEF Checks, Sound
        <3> QED BY <1>1, <1>5, <3>2, <3>5, <3>9
    <2> QED BY <2>7, <2>8, <2>9
<1> QED BY <1>1, <1>6, <1>7, <1>8

LEMMA ArgumentsCheck ==
    ASSUME NEW e \in Expressions, e.kind = "Function_Call", e.callee.kind = "Identifier",
           NEW table, IsTypes(table), Symbols(table),
           \A n \in 1 .. Len(e.arguments) : ChecksAlways(e.arguments[n]),
           NEW schema, schema = names[e.callee.symbol].schema, schema.parameters \in Seq(DOMAIN table),
           NEW r, Checks(r, e, table)
    PROVE  Checks(CheckArguments([n \in DOMAIN e.arguments |-> CheckTree[e.arguments[n]]], schema, r), e, table)
<1> DEFINE checks == [n \in DOMAIN e.arguments |-> CheckTree[e.arguments[n]]]
           T == CallStates(e, table)
           m == Len(e.arguments)
           first == [result |-> r, over |-> FALSE]
           step == [n \in 1 .. m |-> [call \in T |-> CheckArgument(checks[n], n, schema, call)]]
           IsAfter(f) == f = [n \in 0 .. Len(checks) |-> IF n = 0 THEN [result |-> r, over |-> FALSE]
                                   ELSE CheckArgument(checks[n], n, schema, f[n - 1])]
           after == CHOOSE f : IsAfter(f)
<1>1. e.arguments \in Seq(Expressions) /\ m \in Nat /\ DOMAIN e.arguments = 1 .. m
    BY ExpressionForms
<1>2. Len(checks) = m /\ \A n \in 1 .. m : checks[n] = CheckTree[e.arguments[n]]
    BY <1>1
<1>3. first \in T
    BY DEF CallStates, Checks, Sound
<1> HIDE DEF T, first
<1>4. ASSUME NEW n \in 1 .. m, NEW call \in T
      PROVE  CheckArgument(checks[n], n, schema, call) \in T
    <2>1. CheckArgument(CheckTree[e.arguments[n]], n, schema, call) \in T
        BY <1>4, ArgumentStep DEF T
    <2> QED BY <1>2, <2>1
<1> HIDE DEF checks
<1>5. step \in [1 .. m -> [T -> T]]
    BY <1>4
<1>6. \E f : IsAfter(f)
    <2>1. PICK f \in [0 .. m -> T] : f[0] = first /\ \A n \in 1 .. m : f[n] = step[n][f[n - 1]]
        <3> HIDE DEF step
        <3>1. m \in Nat
            BY <1>1
        <3>2. step \in Steps(m, T)
            BY <1>5 DEF Steps
        <3>3. \E f \in [0 .. m -> T] : Runs(f, first, m, step)
            <4> HIDE DEF m
            <4> QED BY <1>3, <3>1, <3>2, StepsExist
        <3> QED BY <3>3 DEF Runs
    <2>2. ASSUME NEW n \in 1 .. m
          PROVE  f[n] = CheckArgument(checks[n], n, schema, f[n - 1])
        <3>1. n - 1 \in 0 .. m
            BY <1>1
        <3>2. f[n - 1] \in T
            BY <3>1
        <3> QED BY <2>1, <3>2
    <2>3. ASSUME NEW n \in 0 .. m
          PROVE  f[n] = IF n = 0 THEN [result |-> r, over |-> FALSE]
                        ELSE CheckArgument(checks[n], n, schema, f[n - 1])
        <3>1. CASE n = 0
            BY <2>1, <3>1 DEF first
        <3>2. CASE n # 0
            <4>1. n \in 1 .. m
                BY <1>1, <3>2
            <4> QED BY <2>2, <3>2, <4>1
        <3> QED BY <3>1, <3>2
    <2>4. IsAfter(f)
        BY <1>2, <2>3
    <2> HIDE DEF IsAfter
    <2> QED BY <2>4
<1>7. IsAfter(after)
    <2> HIDE DEF IsAfter
    <2> QED BY <1>6
<1> HIDE DEF after
<1>8. \A n \in Nat : n <= m => after[n] \in T
    <2> DEFINE S == {n \in Nat : n <= m => after[n] \in T}
    <2>1. 0 \in S
        <3>1. after[0] = first
            BY <1>1, <1>2, <1>7 DEF first
        <3> QED BY <1>3, <3>1
    <2>2. ASSUME NEW n \in Nat, n \in S
          PROVE  n + 1 \in S
        <3> SUFFICES ASSUME n + 1 <= m
                     PROVE  after[n + 1] \in T
            OBVIOUS
        <3>1. after[n] \in T
            BY <1>1, <2>2
        <3>2. n + 1 \in 1 .. m /\ n + 1 \in 0 .. m /\ n + 1 # 0 /\ (n + 1) - 1 = n
            BY <1>1
        <3>3. after[n + 1] = CheckArgument(checks[n + 1], n + 1, schema, after[n])
            BY <1>2, <1>7, <3>2
        <3> QED BY <1>4, <3>1, <3>2, <3>3
    <2> HIDE DEF S
    <2>3. \A n \in Nat : n \in S
        BY <2>1, <2>2, SetInduction
    <2> QED BY <2>3 DEF S
<1>9. CheckArguments(checks, schema, r) = after[m].result
    BY <1>2 DEF CheckArguments, after
<1>10. after[m] \in T
    BY <1>1, <1>8
<1>11. Checks(CheckArguments(checks, schema, r), e, table)
    BY <1>9, <1>10 DEF T, CallStates
<1> QED BY <1>11 DEF checks

\* The callee is checked, to v; if it is a name, the name is a symbol.
LEMMA CallChecks ==
    ASSUME NEW e \in Expressions, e.kind = "Function_Call",
           \A o \in Operands(e) : ChecksAlways(o),
           NEW v, IsTypes(v.types), Symbols(v.types), v.type \in DOMAIN v.types,
           e.callee.kind = "Identifier" => e.callee.symbol \in DOMAIN names
    PROVE  Checks(CheckFunctionCall([n \in DOMAIN e.arguments |-> CheckTree[e.arguments[n]]], e, v), e, v.types)
<1> DEFINE table == v.types
           layout == table[v.type]
           symbol == names[e.callee.symbol]
           status == IF EnoughArguments(Len(e.arguments), symbol.schema) THEN "Done" ELSE "Failed"
           checks == [n \in DOMAIN e.arguments |-> CheckTree[e.arguments[n]]]
           call == Result(status, layout.return_type, table)
           r == CheckFunctionCall(checks, e, v)
<1>1. r = CASE layout.kind # "Function" -> Failed(table)
            [] layout.kind = "Function" /\ (e.callee.kind # "Identifier" \/ symbol.sort # "Function") ->
                 Stop("Aborted", table)
            [] OTHER -> CheckArguments(checks, symbol.schema, call)
    BY DEF CheckFunctionCall
<1> SUFFICES Checks(r, e, table)
    OBVIOUS
<1> HIDE DEF r, checks
<1>2. CASE layout.kind # "Function"
    BY <1>1, <1>2, FailedChecks
<1>3. CASE layout.kind = "Function" /\ (e.callee.kind # "Identifier" \/ symbol.sort # "Function")
    <2>1. NotWritten(e)
        BY <1>3 DEF NotWritten
    <2> QED BY <1>1, <1>3, <2>1, AbortedChecks
<1>4. CASE layout.kind = "Function" /\ e.callee.kind = "Identifier" /\ symbol.sort = "Function"
    <2>1. symbol.schema.parameters \in Seq(DOMAIN table)
        BY <1>4 DEF Symbols, IsSymbol
    <2>2. layout.return_type \in DOMAIN table
        BY <1>4, PointedAt
    <2>3. /\ Len(table) \in Nat /\ layout.return_type \in 0 .. Len(table) /\ layout.return_type \in Nat
          /\ table \in Tables
        <3>1. Len(table) \in Nat /\ DOMAIN table = 1 .. Len(table)
            BY TableIs
        <3> QED BY <2>2, <3>1 DEF IsTypes
    <2>4. status \in {"Done", "Failed"}
        OBVIOUS
    <2> HIDE DEF layout, status
    <2>5. call.status = status /\ call.type = layout.return_type /\ call.types = table
        BY DEF Result
    <2>6. call \in Results
        BY <2>3, <2>4 DEF Result, Results
    <2> HIDE DEF call, table
    <2>7. IsTypes(table) /\ Symbols(table) /\ IsPrefix(table, table)
        BY TableIs DEF table
    <2>8. Checks(call, e, table)
        BY <2>2, <2>3, <2>4, <2>5, <2>6, <2>7 DEF Checks, Sound, Explained
    <2>9. \A n \in 1 .. Len(e.arguments) : ChecksAlways(e.arguments[n])
        <3>1. \A n \in 1 .. Len(e.arguments) : e.arguments[n] \in Operands(e)
            BY ExpressionForms DEF Operands, ToSet
        <3> QED BY <3>1
    <2> DEFINE schema == symbol.schema
    <2>10. schema = names[e.callee.symbol].schema /\ schema.parameters \in Seq(DOMAIN table)
        BY <2>1
    <2> HIDE DEF schema
    <2>11. Checks(CheckArguments(checks, schema, call), e, table)
        BY <1>4, <2>7, <2>8, <2>9, <2>10, ArgumentsCheck DEF checks
    <2> QED BY <1>1, <1>4, <2>11 DEF schema
<1> QED BY <1>2, <1>3, <1>4

LEMMA CastChecks ==
    ASSUME NEW e \in Expressions, e.kind = "Cast", ChecksAlways(e.expr),
           NEW table, IsTypes(table), Symbols(table), NEW context \in 0 .. Len(table)
    PROVE  Checks(CheckCast(CheckTree, e, context, table), e, table)
<1> DEFINE target == IF e.type # None THEN Resolve(e.type, table)
                     ELSE IF context # NoContext THEN Done(context, table) ELSE Failed(table)
           v == CheckTree[e.expr][NoContext][target.types]
           r == CheckCast(CheckTree, e, context, table)
<1>1. r = CASE ~IsDone(target) -> target
            [] IsDone(target) /\ ~IsDone(v) -> v
            [] OTHER -> IF v.type = target.type \/ TryCoerce(target.type, v.type, v.types, FALSE)
                        THEN Done(target.type, v.types) ELSE Failed(v.types)
    BY DEF CheckCast
<1>2. Checks(target, e, table)
    <2>1. CASE e.type # None
        <3>1. e.type \in Hints
            BY <2>1, ExpressionForms
        <3>2. Resolves(Resolve(e.type, table), table)
            BY <3>1, ResolveIsSound
        <3> QED BY <2>1, <3>2 DEF Resolves, Checks, Explained
    <2>2. CASE e.type = None /\ context # NoContext
        <3>1. context \in DOMAIN table
            <4>1. Len(table) \in Nat /\ DOMAIN table = 1 .. Len(table)
                BY TableIs
            <4> QED BY <2>2, <4>1 DEF NoContext
        <3> QED BY <2>2, <3>1, DoneChecks
    <2>3. CASE e.type = None /\ context = NoContext
        BY <2>3, FailedChecks
    <2> QED BY <2>1, <2>2, <2>3
<1> SUFFICES Checks(r, e, table)
    OBVIOUS
<1> HIDE DEF r, target
<1>3. /\ IsTypes(target.types) /\ Symbols(target.types) /\ IsPrefix(table, target.types)
      /\ 0 \in 0 .. Len(target.types)
      /\ IsDone(target) => target.type \in DOMAIN target.types
    BY <1>2, GoOn DEF Checks
<1>4. Checks(v, e, target.types)
    <2>1. Checks(v, e.expr, target.types)
        BY <1>3 DEF ChecksAlways, NoContext
    <2>2. e.expr \in Operands(e)
        BY DEF Operands
    <2> HIDE DEF v
    <2> QED BY <2>1, <2>2, ChecksOperand
<1> HIDE DEF v
<1>5. /\ IsTypes(v.types) /\ IsPrefix(target.types, v.types)
      /\ DOMAIN target.types \subseteq DOMAIN v.types
    BY <1>3, <1>4, GoOn DEF Checks
<1>6. IsPrefix(table, v.types) /\ Checks(v, e, table)
    BY <1>3, <1>4, <1>5, LaterStill, ChecksLater
<1>7. Checks(Failed(v.types), e, table)
    BY <1>5, <1>6, FailedChecks, ChecksLater
<1>8. IsDone(target) => Checks(Done(target.type, v.types), e, table)
    <2>1. SUFFICES ASSUME IsDone(target)
                   PROVE  Checks(Done(target.type, v.types), e, table)
        OBVIOUS
    <2>2. Checks(Done(target.type, v.types), e, v.types)
        BY <1>3, <1>5, <2>1, DoneChecks
    <2> QED BY <1>5, <1>6, <2>2, ChecksLater
<1> QED BY <1>1, <1>2, <1>6, <1>7, <1>8

\* What is made of an expression whose first operand was checked, to v.
LEMMA CheckOnChecks ==
    ASSUME NEW e \in Expressions, e.kind \notin {"Integer", "Float", "CString", "Identifier", "Cast"},
           \A o \in Operands(e) : ChecksAlways(o),
           NEW table, IsTypes(table), Symbols(table), NEW context \in 0 .. Len(table),
           NEW v, Checks(v, e, table), IsDone(v),
           First(e).kind = "Identifier" => First(e).symbol \in DOMAIN names
    PROVE  Checks(CheckOn(CheckTree, e, v, context), e, table)
<1>1. /\ IsTypes(v.types) /\ Symbols(v.types) /\ IsPrefix(table, v.types)
      /\ v.type \in DOMAIN v.types /\ v.type \in 0 .. Len(v.types)
      /\ context \in 0 .. Len(v.types)
    <2>1. /\ IsTypes(v.types) /\ Symbols(v.types) /\ IsPrefix(table, v.types)
          /\ v.type \in DOMAIN v.types /\ v.type \in 0 .. Len(v.types)
        BY GoOn DEF Checks
    <2>2. Len(table) \in Nat /\ Len(v.types) \in Nat /\ Len(table) <= Len(v.types)
        BY <2>1, TableIs, LaterTable
    <2> QED BY <2>1, <2>2
<1> DEFINE r == CheckOn(CheckTree, e, v, context)
<1> SUFFICES Checks(r, e, v.types)
    BY <1>1, ChecksLater
<1> HIDE DEF r
<1>2. CASE e.kind = "Dereference"
    <2> DEFINE ids == IF v.types[v.type].kind = "Pointer" THEN Element(v.type, v.types) ELSE {}
    <2>1. r = TheOnly(ids, v.types)
        BY <1>2 DEF r, CheckOn
    <2>2. ids \subseteq DOMAIN v.types
        BY <1>1, ElementIs
    <2> HIDE DEF ids
    <2> QED BY <1>1, <2>1, <2>2, TheOnlyChecks
<1>3. CASE e.kind = "AddressOf"
    <2> DEFINE layout == PointerType(FALSE, v.type)
               good == RegisterOrGet(layout, v.types, TRUE)
    <2>1. r = LvalueOr(e.operand, v.type, v.types, good)
        BY <1>3 DEF r, CheckOn
    <2>2. v.type \in Nat
        BY <1>1
    <2>3. layout \in Layouts /\ layout.kind \in Composed /\ References(layout) = {v.type}
        <3>1. layout \in [kind : {"Pointer"}, mutability : BOOLEAN, target_type : Nat]
            BY <2>2 DEF PointerType
        <3> QED BY <3>1 DEF PointerType, Layouts, References, Composed
    <2> HIDE DEF layout
    <2>4. Sound(good, v.types) /\ IsDone(good)
        BY <1>1, <2>3, RegisterIsSound
    <2>5. Checks(good, e, v.types)
        BY <2>4 DEF Checks, Explained, IsDone
    <2>6. e.operand \in Expressions /\ (e.operand.kind \in NoLvalueCase => NotWritten(e))
        BY <1>3, ExpressionForms DEF NotWritten
    <2> HIDE DEF good
    <2> QED BY <1>1, <2>1, <2>5, <2>6, LvalueChecks
<1>4. CASE e.kind = "Subscript"
    <2> DEFINE i == CheckTree[e.index][context][v.types]
               ids == IF TryCoerce(IntId, i.type, i.types, TRUE) THEN Element(v.type, i.types) ELSE {}
    <2>1. r = IF ~IsDone(i) THEN i ELSE TheOnly(ids, i.types)
        BY <1>4 DEF r, CheckOn
    <2>2. Checks(i, e, v.types)
        <3>1. e.index \in Operands(e)
            BY <1>4 DEF Operands
        <3>2. Checks(i, e.index, v.types)
            BY <1>1, <3>1 DEF ChecksAlways
        <3> HIDE DEF i
        <3> QED BY <3>1, <3>2, ChecksOperand
    <2> HIDE DEF i
    <2>3. /\ IsTypes(i.types) /\ IsPrefix(v.types, i.types)
          /\ v.type \in DOMAIN i.types
        BY <1>1, <2>2, GoOn DEF Checks
    <2>4. ids \subseteq DOMAIN i.types
        BY <2>3, ElementIs
    <2> HIDE DEF ids
    <2>5. Checks(TheOnly(ids, i.types), e, v.types)
        BY <1>1, <2>3, <2>4, TheOnlyChecks, ChecksLater
    <2> QED BY <2>1, <2>2, <2>5
<1>5. CASE e.kind = "Unary"
    <2>1. r \in {Done(BoolId, v.types), Failed(v.types)}
        BY <1>5 DEF r, CheckOn
    <2>2. BoolId \in DOMAIN v.types
        <3>1. 1 .. 12 \subseteq DOMAIN v.types
            BY <1>1, TableIs
        <3> QED BY <3>1 DEF BoolId
    <2> QED BY <1>1, <2>1, <2>2, DoneChecks, FailedChecks
<1>6. CASE e.kind = "Member_Access"
    <2>1. r = CheckMember(e, v.type, v.types)
        BY <1>6 DEF r, CheckOn
    <2> QED BY <1>1, <2>1, MemberChecks
<1>7. CASE e.kind = "Binop"
    <2> DEFINE right == CheckTree[e.right][v.type][v.types]
    <2>1. r = IF IsDone(right) THEN CheckOperands(e, v.type, right.type, right.types) ELSE right
        BY <1>7 DEF r, CheckOn
    <2>2. Checks(right, e, v.types)
        <3>1. e.right \in Operands(e)
            BY <1>7 DEF Operands
        <3>2. Checks(right, e.right, v.types)
            BY <1>1, <3>1 DEF ChecksAlways
        <3> HIDE DEF right
        <3> QED BY <3>1, <3>2, ChecksOperand
    <2> HIDE DEF right
    <2>3. /\ IsTypes(right.types) /\ IsPrefix(v.types, right.types)
          /\ v.type \in DOMAIN right.types
          /\ IsDone(right) => right.type \in DOMAIN right.types
        BY <1>1, <2>2, GoOn DEF Checks
    <2>4. ASSUME IsDone(right)
          PROVE  Checks(CheckOperands(e, v.type, right.type, right.types), e, v.types)
        BY <1>1, <1>7, <2>3, <2>4, OperandsCheck, ChecksLater
    <2> QED BY <2>1, <2>2, <2>4
<1>8. CASE e.kind = "Function_Call"
    <2>1. r = CheckFunctionCall([n \in DOMAIN e.arguments |-> CheckTree[e.arguments[n]]], e, v)
        BY <1>8 DEF r, CheckOn
    <2>2. e.callee.kind = "Identifier" => e.callee.symbol \in DOMAIN names
        BY <1>8 DEF First
    <2> QED BY <1>1, <1>8, <2>1, <2>2, CallChecks
<1>9. CASE e.kind = "Eval"
    <2>1. r = Stop("Aborted", v.types)
        BY <1>9 DEF r, CheckOn
    <2>2. NotWritten(e)
        BY <1>9 DEF NotWritten
    <2> QED BY <1>1, <2>1, <2>2, AbortedChecks
<1> QED BY <1>2, <1>3, <1>4, <1>5, <1>6, <1>7, <1>8, <1>9, ExpressionForms

LEMMA ExpressionStep ==
    ASSUME NEW e \in Expressions, \A o \in Operands(e) : ChecksAlways(o)
    PROVE  ChecksAlways(e)
<1> SUFFICES ASSUME NEW table, NEW context, IsTypes(table), Symbols(table), context \in 0 .. Len(table)
             PROVE  Checks(CheckTree[e][context][table], e, table)
    BY DEF ChecksAlways
<1> DEFINE r == CheckTree[e][context][table]
<1>1. Len(table) \in Nat /\ context \in Nat /\ table \in Tables /\ DOMAIN table = 1 .. Len(table)
    BY TableIs DEF IsTypes
<1>2. r = CheckBy(CheckTree, e, context, table)
    BY <1>1, CheckIs
<1> SUFFICES Checks(r, e, table)
    OBVIOUS
<1> HIDE DEF r
<1>3. CASE e.kind = "Integer"
    <2>1. CheckInteger(context, table) \in DOMAIN table
        <3>1. IntId \in DOMAIN table
            BY TableIs DEF IntId
        <3>2. context # NoContext => context \in DOMAIN table
            BY <1>1 DEF NoContext
        <3> QED BY <3>1, <3>2 DEF CheckInteger
    <2>2. r = Done(CheckInteger(context, table), table)
        BY <1>2, <1>3 DEF CheckBy
    <2> QED BY <2>1, <2>2, DoneChecks
<1>4. CASE e.kind = "Float"
    <2>1. r = Done(Float32Id, table)
        BY <1>2, <1>4 DEF CheckBy
    <2>2. Float32Id \in DOMAIN table
        BY TableIs DEF Float32Id
    <2> QED BY <2>1, <2>2, DoneChecks
<1>5. CASE e.kind = "CString"
    <2> DEFINE layout == PointerType(TRUE, CharId)
    <2>1. r = RegisterOrGet(layout, table, TRUE)
        BY <1>2, <1>5 DEF CheckBy
    <2>2. CharId \in DOMAIN table
        BY TableIs DEF CharId
    <2>3. layout \in Layouts /\ layout.kind \in Composed /\ References(layout) = {CharId}
        <3>1. layout \in [kind : {"Pointer"}, mutability : BOOLEAN, target_type : Nat]
            BY DEF PointerType, CharId
        <3> QED BY <3>1 DEF PointerType, Layouts, References, Composed
    <2> HIDE DEF layout
    <2>4. Sound(r, table) /\ IsDone(r)
        BY <2>1, <2>2, <2>3, RegisterIsSound
    <2> QED BY <2>4 DEF Checks, Explained, IsDone
<1>6. CASE e.kind = "Identifier"
    <2>1. r = CheckIdentifier(e.symbol, table)
        BY <1>2, <1>6 DEF CheckBy
    <2> QED BY <2>1, IdentifierResolves DEF Resolves, Checks, Explained
<1>7. CASE e.kind = "Cast"
    <2>1. r = CheckCast(CheckTree, e, context, table)
        BY <1>2, <1>7 DEF CheckBy
    <2>2. ChecksAlways(e.expr)
        BY <1>7 DEF Operands
    <2> QED BY <1>7, <2>1, <2>2, CastChecks
<1>8. CASE e.kind \notin {"Integer", "Float", "CString", "Identifier", "Cast"}
    <2> DEFINE v == CheckTree[First(e)][context][table]
    <2>1. r = IF IsDone(v) THEN CheckOn(CheckTree, e, v, context) ELSE v
        BY <1>2, <1>8 DEF CheckBy
    <2>2. First(e) \in Operands(e) /\ First(e) \in Expressions
        BY <1>8, FirstIs, OperandsAre
    <2>3. Checks(v, e, table)
        <3>1. Checks(v, First(e), table)
            BY <2>2 DEF ChecksAlways
        <3> HIDE DEF v
        <3> QED BY <2>2, <3>1, ChecksOperand
    <2>4. IsDone(v) /\ First(e).kind = "Identifier" => First(e).symbol \in DOMAIN names
        <3> SUFFICES ASSUME IsDone(v), First(e).kind = "Identifier"
                     PROVE  First(e).symbol \in DOMAIN names
            OBVIOUS
        <3>1. v = CheckBy(CheckTree, First(e), context, table)
            BY <1>1, <2>2, CheckIs
        <3>2. v = CheckIdentifier(First(e).symbol, table)
            BY <3>1 DEF CheckBy
        <3> QED BY <3>2, FailedIsSound DEF CheckIdentifier
    <2> HIDE DEF v
    <2> QED BY <1>8, <2>1, <2>3, <2>4, CheckOnChecks
<1> QED BY <1>3, <1>4, <1>5, <1>6, <1>7, <1>8

LEMMA CheckIsSound ==
    ASSUME NEW e \in Expressions, NEW table, IsTypes(table), Symbols(table), NEW context \in 0 .. Len(table)
    PROVE  Checks(Check(e, context, table), e, table)
<1> DEFINE S == {n \in Nat : \A x \in ExpressionsBelow(n) : ChecksAlways(x)}
<1>1. 0 \in S
    BY DepthAssumption DEF ExpressionsBelow
<1>2. ASSUME NEW n \in Nat, n \in S
      PROVE  n + 1 \in S
    <2>1. ASSUME NEW x \in ExpressionsBelow(n + 1), NEW o \in Operands(x)
          PROVE  ChecksAlways(o)
        <3>1. o \in ExpressionsBelow(n)
            BY <2>1, HeightOfOperands DEF ExpressionsBelow
        <3> QED BY <1>2, <3>1
    <2>2. \A x \in ExpressionsBelow(n + 1) : ChecksAlways(x)
        BY <2>1, ExpressionStep DEF ExpressionsBelow
    <2> QED BY <2>2
<1> HIDE DEF S
<1>3. Depth + 1 \in S
    BY <1>1, <1>2, SetInduction, AllBelow
<1>4. ChecksAlways(e)
    BY <1>3, AllBelow DEF S
<1> QED BY <1>4 DEF ChecksAlways, Check

-----------------------------------------------------------------------------
(* Lists of typehints.                                                      *)

\* The typehints of a list resolve to a table that grows and, if all of them
\* do, to ids of it.
Lists(r, table) ==
    /\ r \in [status : {"Done", "Failed"}, type : Seq(Nat), types : Tables]
    /\ IsTypes(r.types) /\ IsPrefix(table, r.types)
    /\ IsDone(r) => r.type \in Seq(DOMAIN r.types)
HintLists(table) == {r \in [status : {"Done", "Failed"}, type : Seq(Nat), types : Tables] : Lists(r, table)}

LEMMA ListStep ==
    ASSUME NEW h \in Hints, NEW table, IsTypes(table), Symbols(table), NEW sofar, Lists(sofar, table)
    PROVE  /\ Lists(ResolveNext(h, sofar), table)
           /\ IsDone(ResolveNext(h, sofar)) =>
                IsDone(sofar) /\ Len(ResolveNext(h, sofar).type) = Len(sofar.type) + 1
<1> DEFINE r == Resolve(h, sofar.types)
           ids == Append(sofar.type, r.type)
           next == ResolveNext(h, sofar)
<1>1. next = IF IsDone(sofar) THEN [r EXCEPT !.type = ids] ELSE sofar
    BY DEF ResolveNext
<1>2. /\ IsTypes(sofar.types) /\ IsPrefix(table, sofar.types) /\ sofar.type \in Seq(Nat)
      /\ Symbols(sofar.types)
    BY SymbolsLater DEF Lists, Symbols
<1>3. Resolves(r, sofar.types)
    BY <1>2, ResolveIsSound
<1> HIDE DEF next, r
<1>4. /\ r \in Results /\ r.status \in {"Done", "Failed"} /\ IsTypes(r.types)
      /\ IsPrefix(sofar.types, r.types) /\ (IsDone(r) => r.type \in DOMAIN r.types) /\ r.type \in Nat
    BY <1>3 DEF Resolves, Sound, Results
<1>5. IsPrefix(table, r.types) /\ DOMAIN sofar.types \subseteq DOMAIN r.types
    BY <1>2, <1>4, LaterStill, LaterTable
<1>6. ids \in Seq(Nat) /\ Len(ids) = Len(sofar.type) + 1
    BY <1>2, <1>4
<1>7. CASE IsDone(sofar)
    <2>1. next = [r EXCEPT !.type = ids]
        BY <1>1, <1>7
    <2>2. next.status = r.status /\ next.type = ids /\ next.types = r.types
        BY <1>4, <2>1 DEF Results
    <2>3. IsDone(r) => ids \in Seq(DOMAIN r.types)
        <3>1. sofar.type \in Seq(DOMAIN sofar.types)
            BY <1>7 DEF Lists
        <3> DEFINE D == DOMAIN r.types
        <3>2. IsDone(r) => r.type \in D
            BY <1>4
        <3>3. DOMAIN sofar.types \subseteq D
            BY <1>5
        <3> HIDE DEF D
        <3>4. sofar.type \in Seq(D)
            BY <3>1, <3>3
        <3>5. IsDone(r) => Append(sofar.type, r.type) \in Seq(D)
            BY <3>2, <3>4
        <3> QED BY <3>5 DEF D
    <2> HIDE DEF ids
    <2>4. next \in [status : {"Done", "Failed"}, type : Seq(Nat), types : Tables]
        BY <1>4, <1>6, <2>1 DEF Results
    <2>5. Lists(next, table)
        BY <1>4, <1>5, <2>2, <2>3, <2>4 DEF Lists, IsDone
    <2> QED BY <1>6, <1>7, <2>2, <2>5 DEF next
<1>8. CASE ~IsDone(sofar)
    BY <1>1, <1>8 DEF next
<1> QED BY <1>7, <1>8

\* The typehints of a list, one after the other.
ListRuns(after, hs) ==
    /\ after[0] = Result("Done", <<>>, types)
    /\ \A n \in 1 .. Len(hs) : after[n] = ResolveNext(hs[n], after[n - 1])
    /\ ResolveAll(hs) = after[Len(hs)]
LEMMA ResolveAllRuns ==
    ASSUME NEW hs \in Seq(Hints), IsTypes(types), Symbols(types)
    PROVE  \E after : ListRuns(after, hs)
<1> DEFINE T == HintLists(types)
           m == Len(hs)
           first == Result("Done", <<>>, types)
           step == [n \in 1 .. m |-> [r \in T |-> ResolveNext(hs[n], r)]]
           IsAfter(f) == f = [n \in 0 .. Len(hs) |-> IF n = 0 THEN Result("Done", <<>>, types)
                                                              ELSE ResolveNext(hs[n], f[n - 1])]
           after == CHOOSE f : IsAfter(f)
<1>1. m \in Nat /\ DOMAIN hs = 1 .. m /\ \A n \in 1 .. m : hs[n] \in Hints
    OBVIOUS
<1>2. Lists(first, types) /\ IsDone(first) /\ first.type = <<>>
    BY TableIs DEF Lists, Result, IsDone, IsTypes
<1>3. ASSUME NEW r
      PROVE  r \in T <=> Lists(r, types)
    BY DEF Lists, HintLists
<1> HIDE DEF T, first
<1>4. ASSUME NEW n \in 1 .. m, NEW r \in T
      PROVE  ResolveNext(hs[n], r) \in T
    BY <1>1, <1>3, ListStep
<1>5. step \in [1 .. m -> [T -> T]]
    BY <1>4
<1>6. \E f : IsAfter(f)
    <2>1. PICK f \in [0 .. m -> T] : f[0] = first /\ \A n \in 1 .. m : f[n] = step[n][f[n - 1]]
        <3> HIDE DEF step
        <3>1. m \in Nat
            BY <1>1
        <3>2. step \in Steps(m, T)
            BY <1>5 DEF Steps
        <3>3. \E f \in [0 .. m -> T] : Runs(f, first, m, step)
            <4> HIDE DEF m
            <4> QED BY <1>2, <1>3, <3>1, <3>2, StepsExist
        <3> QED BY <3>3 DEF Runs
    <2>2. ASSUME NEW n \in 1 .. m
          PROVE  f[n] = ResolveNext(hs[n], f[n - 1])
        <3>1. n - 1 \in 0 .. m
            BY <1>1
        <3>2. f[n - 1] \in T
            BY <3>1
        <3> QED BY <2>1, <3>2
    <2>3. ASSUME NEW n \in 0 .. m
          PROVE  f[n] = IF n = 0 THEN Result("Done", <<>>, types) ELSE ResolveNext(hs[n], f[n - 1])
        <3>1. CASE n = 0
            BY <2>1, <3>1 DEF first
        <3>2. CASE n # 0
            <4>1. n \in 1 .. m
                BY <1>1, <3>2
            <4> QED BY <2>2, <3>2, <4>1
        <3> QED BY <3>1, <3>2
    <2>4. IsAfter(f)
        BY <2>3
    <2> HIDE DEF IsAfter
    <2> QED BY <2>4
<1>7. IsAfter(after)
    <2> HIDE DEF IsAfter
    <2> QED BY <1>6
<1>8. ResolveAll(hs) = after[m]
    BY DEF ResolveAll, after
<1> HIDE DEF after
<1>9. after[0] = Result("Done", <<>>, types)
    BY <1>1, <1>7
<1>10. ASSUME NEW n \in 1 .. m
       PROVE  after[n] = ResolveNext(hs[n], after[n - 1])
    <2>1. n \in 0 .. m /\ n # 0
        BY <1>1
    <2> QED BY <1>7, <2>1
<1> HIDE DEF IsAfter
<1> QED BY <1>8, <1>9, <1>10 DEF ListRuns
LEMMA ResolveAllIsSound ==
    ASSUME NEW hs \in Seq(Hints), IsTypes(types), Symbols(types)
    PROVE  /\ Lists(ResolveAll(hs), types)
           /\ IsDone(ResolveAll(hs)) => Len(ResolveAll(hs).type) = Len(hs)
<1> DEFINE m == Len(hs)
           first == Result("Done", <<>>, types)
<1>1. m \in Nat /\ \A n \in 1 .. m : hs[n] \in Hints
    OBVIOUS
<1>2. Lists(first, types) /\ IsDone(first) /\ first.type = <<>>
    BY TableIs DEF Lists, Result, IsDone, IsTypes
<1>3. PICK after : ListRuns(after, hs)
    BY ResolveAllRuns
<1> DEFINE Good(n) == Lists(after[n], types) /\ (IsDone(after[n]) => Len(after[n].type) = n)
<1>4. \A n \in Nat : n <= m => Good(n)
    <2> DEFINE S == {n \in Nat : n <= m => Good(n)}
    <2>1. 0 \in S
        BY <1>2, <1>3 DEF ListRuns
    <2>2. ASSUME NEW n \in Nat, n \in S
          PROVE  n + 1 \in S
        <3> SUFFICES ASSUME n + 1 <= m
                     PROVE  Good(n + 1)
            OBVIOUS
        <3>1. Good(n)
            BY <1>1, <2>2
        <3>2. n + 1 \in 1 .. m /\ (n + 1) - 1 = n
            BY <1>1
        <3>3. after[n + 1] = ResolveNext(hs[n + 1], after[n]) /\ hs[n + 1] \in Hints
            BY <1>1, <1>3, <3>2 DEF ListRuns
        <3> QED BY <3>1, <3>3, ListStep
    <2> HIDE DEF S
    <2>3. \A n \in Nat : n \in S
        BY <2>1, <2>2, SetInduction
    <2> QED BY <2>3 DEF S
<1>5. Good(m) /\ ResolveAll(hs) = after[m]
    BY <1>1, <1>3, <1>4 DEF ListRuns
<1> QED BY <1>5

-----------------------------------------------------------------------------
(* Statements.                                                              *)

\* What a statement is made of.
LEMMA StatementForms ==
    ASSUME NEW s \in Statements
    PROVE  /\ s.kind \in {"Variable", "Expr", "If", "Return", "Prototype", "Struct"}
           /\ s.kind = "Variable" => /\ s.typehint \in Hints \cup {None} /\ s.constant \in BOOLEAN
                                     /\ s.initializer \in Expressions \cup {None}
           /\ s.kind = "Expr" => s.expr \in Expressions
           /\ s.kind = "If" => s.condition \in Expressions
           /\ s.kind = "Return" => s.typehint \in Hints /\ s.value \in Expressions
           /\ s.kind = "Prototype" => s.parameters \in Seq(Hints) /\ s.return_type \in Hints
           /\ s.kind = "Struct" => /\ s.name \in STRING
                                   /\ s.fields \in Seq([names : Seq(STRING) \ {<<>>}, typehint : Hints])
BY DEF Statements

\* The check of a statement comes to a table that keeps its ids; it lacks a
\* verdict only where the statement explains that, and when it is Done the new
\* names are new, and symbols of the table.
Ends(r, s) ==
    /\ r.status \in {"Done", "Failed", "Aborted", "Crashed"}
    /\ IsTypes(r.types) /\ IsPrefix(types, r.types)
    /\ r.status = "Aborted" => \/ s.kind = "Variable" /\ s.constant
                               \/ \E e \in PartsOf(s) : NotWritten(e)
    /\ r.status = "Crashed" => \E e \in PartsOf(s) : TooManyArguments(e)
Yields(s, r, declared) ==
    /\ Ends(r, s)
    /\ IsDone(r) => \A x \in DOMAIN declared : x \notin DOMAIN names /\ IsSymbol(declared[x], r.types)

LEMMA FailedEnds ==
    ASSUME NEW s, NEW table, IsTypes(table), IsPrefix(types, table)
    PROVE  Ends(Failed(table), s) /\ ~IsDone(Failed(table))
BY DEF Ends, Failed, Stop, Result, IsDone
LEMMA ChecksEnds ==
    ASSUME NEW s, NEW e \in ExpressionsOf(s), NEW table, IsTypes(table), Symbols(table),
           IsTypes(types), IsPrefix(types, table), NEW r, Checks(r, e, table)
    PROVE  Ends(r, s)
<1>1. r.status \in {"Done", "Failed", "Aborted", "Crashed"} /\ IsTypes(r.types) /\ IsPrefix(table, r.types)
    BY DEF Checks, Sound, Results
<1>2. IsPrefix(types, r.types)
    BY <1>1, LaterStill
<1>3. Parts[e] \subseteq PartsOf(s)
    BY DEF PartsOf
<1> QED BY <1>1, <1>2, <1>3 DEF Checks, Explained, Ends
LEMMA ResolvesEnds ==
    ASSUME NEW s, NEW r, Resolves(r, types)
    PROVE  Ends(r, s)
BY DEF Resolves, Sound, Ends

\* A name that is taken fails the declaration.
LEMMA FreshEnds ==
    ASSUME NEW s, NEW r, Ends(r, s), IsTypes(types)
    PROVE  /\ Ends(Fresh(s, r), s)
           /\ IsDone(Fresh(s, r)) => Fresh(s, r) = r /\ s.name \notin DOMAIN names
<1>1. Ends(Failed(types), s) /\ ~IsDone(Failed(types))
    BY FailedEnds, TableIs
<1> QED BY <1>1 DEF Fresh
\* A constant is not evaluated.
LEMMA ValuedEnds ==
    ASSUME NEW s, s.kind = "Variable", NEW r, Ends(r, s)
    PROVE  /\ Ends(Valued(s, r), s)
           /\ IsDone(Valued(s, r)) => Valued(s, r) = r
<1>1. CASE r.status = "Done" /\ s.constant
    <2>1. Valued(s, r) = Stop("Aborted", r.types)
        BY <1>1 DEF Valued
    <2> QED BY <1>1, <2>1 DEF Ends, Stop, Result, IsDone
<1>2. CASE ~(r.status = "Done" /\ s.constant)
    BY <1>2 DEF Valued
<1> QED BY <1>1, <1>2
\* One name declared, with a symbol of the table.
LEMMA NamedYields ==
    ASSUME NEW s, NEW r, Ends(r, s), IsTypes(types), NEW symbol, IsDone(r) => IsSymbol(symbol, r.types)
    PROVE  Yields(s, Fresh(s, r), [x \in {s.name} |-> symbol])
BY FreshEnds DEF Yields, IsDone
LEMMA VariableYields ==
    ASSUME NEW s, s.kind = "Variable", NEW r, Ends(r, s), IsTypes(types),
           IsDone(r) => r.type \in DOMAIN r.types
    PROVE  Yields(s, Fresh(s, Valued(s, r)), Named(s, "Variable", r.type))
<1>1. Ends(Valued(s, r), s) /\ (IsDone(Valued(s, r)) => Valued(s, r) = r)
    BY ValuedEnds
<1>2. IsDone(Valued(s, r)) => IsSymbol([sort |-> "Variable", type |-> r.type], Valued(s, r).types)
    BY <1>1 DEF IsSymbol
<1> QED BY <1>1, <1>2, NamedYields DEF Named
LEMMA NothingYields ==
    ASSUME NEW s, NEW r, Ends(r, s)
    PROVE  Yields(s, r, <<>>)
BY DEF Yields

LEMMA TypedVariableYields ==
    ASSUME NEW s \in Statements, IsTypes(types), Symbols(types), CheckTypedVariable(s)
    PROVE  \E r, declared : Conclude(s, r, declared) /\ Yields(s, r, declared)
<1> DEFINE h == Resolve(s.typehint, types)
           v == Check(s.initializer, h.type, h.types)
           r == CASE ~IsDone(h) \/ s.initializer = None -> h
                  [] IsDone(h) /\ s.initializer # None /\ ~IsDone(v) -> v
                  [] OTHER -> IF TryCoerce(h.type, v.type, v.types, TRUE)
                              THEN Done(h.type, v.types) ELSE Failed(v.types)
<1>1. s.kind = "Variable" /\ s.typehint \in Hints /\ s.initializer \in Expressions \cup {None}
    BY StatementForms DEF CheckTypedVariable
<1>2. Conclude(s, Fresh(s, Valued(s, r)), Named(s, "Variable", r.type))
    BY DEF CheckTypedVariable
<1>3. Resolves(h, types)
    BY <1>1, ResolveIsSound
<1> HIDE DEF h
<1>4. /\ IsTypes(h.types) /\ Symbols(h.types) /\ IsPrefix(types, h.types) /\ h.type \in 0 .. Len(h.types)
      /\ IsDone(h) => h.type \in DOMAIN h.types
    BY <1>3, GoOn DEF Resolves
<1>5. Ends(h, s)
    BY <1>3, ResolvesEnds
<1>6. s.initializer # None => Ends(v, s) /\ Sound(v, h.types)
    <2> SUFFICES ASSUME s.initializer # None
                 PROVE  Ends(v, s) /\ Sound(v, h.types)
        OBVIOUS
    <2>1. s.initializer \in Expressions /\ s.initializer \in ExpressionsOf(s)
        BY <1>1 DEF ExpressionsOf
    <2>2. Checks(v, s.initializer, h.types)
        BY <1>4, <2>1, CheckIsSound
    <2> HIDE DEF v
    <2> QED BY <1>4, <2>1, <2>2, ChecksEnds DEF Checks
<1> HIDE DEF v
<1>7. s.initializer # None /\ IsDone(h) /\ IsDone(v) =>
        /\ Ends(Done(h.type, v.types), s) /\ Ends(Failed(v.types), s)
        /\ h.type \in DOMAIN v.types
    <2> SUFFICES ASSUME s.initializer # None, IsDone(h), IsDone(v)
                 PROVE  /\ Ends(Done(h.type, v.types), s) /\ Ends(Failed(v.types), s)
                        /\ h.type \in DOMAIN v.types
        OBVIOUS
    <2>1. IsTypes(v.types) /\ IsPrefix(types, v.types) /\ DOMAIN h.types \subseteq DOMAIN v.types
        BY <1>4, <1>6, GoOn DEF Ends
    <2> QED BY <1>4, <2>1, FailedEnds DEF Ends, Done, Result
<1>8. Ends(r, s) /\ (IsDone(r) => r.type \in DOMAIN r.types)
    <2>1. CASE ~IsDone(h) \/ s.initializer = None
        BY <1>4, <1>5, <2>1
    <2>2. CASE IsDone(h) /\ s.initializer # None /\ ~IsDone(v)
        BY <1>6, <2>2
    <2>3. CASE IsDone(h) /\ s.initializer # None /\ IsDone(v)
        <3>1. r \in {Done(h.type, v.types), Failed(v.types)}
            BY <2>3
        <3> HIDE DEF r
        <3>2. CASE r = Done(h.type, v.types)
            BY <1>7, <2>3, <3>2 DEF Done, Result
        <3>3. CASE r = Failed(v.types)
            BY <1>7, <2>3, <3>3 DEF Failed, Stop, Result, IsDone
        <3> QED BY <3>1, <3>2, <3>3
    <2> QED BY <2>1, <2>2, <2>3
<1> HIDE DEF r
<1>9. Yields(s, Fresh(s, Valued(s, r)), Named(s, "Variable", r.type))
    BY <1>1, <1>8, VariableYields
<1> QED BY <1>2, <1>9

\* Without a typehint the symbol has the type of the result itself.
LEMMA InferredVariableYields ==
    ASSUME NEW s \in Statements, IsTypes(types), Symbols(types), CheckInferredVariable(s)
    PROVE  \E r, declared : Conclude(s, r, declared) /\ Yields(s, r, declared)
<1> DEFINE v == Check(s.initializer, NoContext, types)
           f == Fresh(s, Valued(s, v))
           r == IF s.initializer = None THEN Failed(types) ELSE f
<1>1. s.kind = "Variable" /\ s.initializer \in Expressions \cup {None}
    BY StatementForms DEF CheckInferredVariable
<1>2. Conclude(s, r, Named(s, "Variable", r.type))
    BY DEF CheckInferredVariable
<1>3. CASE s.initializer = None
    <2>1. Ends(r, s) /\ ~IsDone(r)
        BY <1>3, FailedEnds, TableIs
    <2> QED BY <1>2, <2>1 DEF Yields
<1>4. CASE s.initializer # None
    <2>1. s.initializer \in Expressions /\ s.initializer \in ExpressionsOf(s)
        BY <1>1, <1>4 DEF ExpressionsOf
    <2>2. Len(types) \in Nat /\ NoContext \in 0 .. Len(types) /\ IsPrefix(types, types)
        BY TableIs DEF NoContext
    <2>3. Checks(v, s.initializer, types)
        BY <2>1, <2>2, CheckIsSound
    <2>4. r = f
        BY <1>4
    <2> HIDE DEF v
    <2>5. Ends(v, s) /\ (IsDone(v) => v.type \in DOMAIN v.types)
        BY <2>1, <2>2, <2>3, ChecksEnds DEF Checks, Sound
    <2>6. Yields(s, f, Named(s, "Variable", v.type))
        BY <1>1, <2>5, VariableYields
    <2>7. IsDone(f) => f = v
        BY <1>1, <2>5, ValuedEnds, FreshEnds
    <2> HIDE DEF f, r
    <2>8. Yields(s, f, Named(s, "Variable", f.type))
        BY <2>6, <2>7 DEF Yields
    <2> QED BY <1>2, <2>4, <2>8
<1> QED BY <1>3, <1>4

LEMMA ExpressionYields ==
    ASSUME NEW s \in Statements, IsTypes(types), Symbols(types), CheckExpression(s)
    PROVE  \E r, declared : Conclude(s, r, declared) /\ Yields(s, r, declared)
<1> DEFINE v == Check(s.expr, NoContext, types)
<1>1. s.expr \in Expressions /\ s.expr \in ExpressionsOf(s)
    BY StatementForms DEF CheckExpression, ExpressionsOf
<1>2. Len(types) \in Nat /\ NoContext \in 0 .. Len(types) /\ IsPrefix(types, types)
    BY TableIs DEF NoContext
<1>3. Checks(v, s.expr, types) /\ Conclude(s, v, <<>>)
    BY <1>1, <1>2, CheckIsSound DEF CheckExpression
<1> HIDE DEF v
<1> QED BY <1>1, <1>2, <1>3, ChecksEnds, NothingYields
LEMMA ConditionYields ==
    ASSUME NEW s \in Statements, IsTypes(types), Symbols(types), CheckCondition(s)
    PROVE  \E r, declared : Conclude(s, r, declared) /\ Yields(s, r, declared)
<1> DEFINE v == Check(s.condition, NoContext, types)
<1>1. s.condition \in Expressions /\ s.condition \in ExpressionsOf(s)
    BY StatementForms DEF CheckCondition, ExpressionsOf
<1>2. Len(types) \in Nat /\ NoContext \in 0 .. Len(types) /\ IsPrefix(types, types)
    BY TableIs DEF NoContext
<1>3. Checks(v, s.condition, types) /\ Conclude(s, v, <<>>)
    BY <1>1, <1>2, CheckIsSound DEF CheckCondition
<1> HIDE DEF v
<1> QED BY <1>1, <1>2, <1>3, ChecksEnds, NothingYields

LEMMA ReturnYields ==
    ASSUME NEW s \in Statements, IsTypes(types), Symbols(types), CheckReturn(s)
    PROVE  \E r, declared : Conclude(s, r, declared) /\ Yields(s, r, declared)
<1> DEFINE return == Resolve(s.typehint, types)
           v == Check(s.value, NoContext, return.types)
           r == CASE ~IsDone(return) -> return
                  [] IsDone(return) /\ ~IsDone(v) -> v
                  [] OTHER -> IF TryCoerce(return.type, v.type, v.types, FALSE) THEN v ELSE Failed(v.types)
<1>1. s.typehint \in Hints /\ s.value \in Expressions /\ s.value \in ExpressionsOf(s)
    BY StatementForms DEF CheckReturn, ExpressionsOf
<1>2. Conclude(s, r, <<>>)
    BY DEF CheckReturn
<1>3. Resolves(return, types)
    BY <1>1, ResolveIsSound
<1> HIDE DEF return
<1>4. /\ IsTypes(return.types) /\ Symbols(return.types) /\ IsPrefix(types, return.types)
      /\ NoContext \in 0 .. Len(return.types)
    BY <1>3, GoOn DEF Resolves, NoContext
<1>5. Checks(v, s.value, return.types)
    BY <1>1, <1>4, CheckIsSound
<1> HIDE DEF v
<1>6. Ends(v, s)
    BY <1>1, <1>4, <1>5, ChecksEnds
<1>7. Ends(Failed(v.types), s)
    BY <1>6, FailedEnds DEF Ends
<1>8. Ends(return, s)
    BY <1>3, ResolvesEnds
<1>9. Ends(r, s)
    BY <1>6, <1>7, <1>8
<1> HIDE DEF r
<1> QED BY <1>2, <1>9, NothingYields

LEMMA PrototypeYields ==
    ASSUME NEW s \in Statements, IsTypes(types), Symbols(types), CheckPrototype(s)
    PROVE  \E r, declared : Conclude(s, r, declared) /\ Yields(s, r, declared)
<1> DEFINE ps == ResolveAll(s.parameters)
           return == IF IsDone(ps) THEN CheckHint(s.return_type, ps.types) ELSE ps
           layout == FunctionType(ps.type, return.type)
           R(lucky) == RegisterOrGet(layout, return.types, lucky)
           r(lucky) == IF IsDone(return) THEN R(lucky) ELSE return
           symbol(id) == [sort |-> "Function", type |-> id,
                          schema |-> [parameters |-> ps.type, variadic |-> s.variadic]]
<1>1. s.parameters \in Seq(Hints) /\ s.return_type \in Hints
    BY StatementForms DEF CheckPrototype
<1>2. PICK lucky \in BOOLEAN : Conclude(s, Fresh(s, r(lucky)), [x \in {s.name} |-> symbol(r(lucky).type)])
    BY DEF CheckPrototype
<1>3. Lists(ps, types)
    BY <1>1, ResolveAllIsSound
<1> HIDE DEF ps
<1>4. /\ ps.status \in {"Done", "Failed"} /\ IsTypes(ps.types) /\ Symbols(ps.types)
      /\ IsPrefix(types, ps.types) /\ (IsDone(ps) => ps.type \in Seq(DOMAIN ps.types))
      /\ ps.type \in Seq(Nat)
    BY <1>3, SymbolsLater DEF Lists, Symbols
<1>5. /\ return.status \in {"Done", "Failed"} /\ IsTypes(return.types) /\ IsPrefix(types, return.types)
      /\ IsDone(return) => /\ IsDone(ps) /\ return.type \in DOMAIN return.types
                           /\ DOMAIN ps.types \subseteq DOMAIN return.types
    <2>1. CASE IsDone(ps)
        <3>1. return = CheckHint(s.return_type, ps.types)
            BY <2>1
        <3>2. Resolves(return, ps.types)
            BY <1>1, <1>4, <3>1, CheckHintIsSound
        <3> HIDE DEF return
        <3>3. /\ IsTypes(return.types) /\ IsPrefix(ps.types, return.types)
              /\ DOMAIN ps.types \subseteq DOMAIN return.types
              /\ IsDone(return) => return.type \in DOMAIN return.types
            BY <1>4, <3>2, GoOn DEF Resolves
        <3>4. IsPrefix(types, return.types)
            BY <1>4, <3>3, LaterStill
        <3> QED BY <2>1, <3>2, <3>3, <3>4 DEF Resolves
    <2>2. CASE ~IsDone(ps)
        BY <1>4, <2>2
    <2> QED BY <2>1, <2>2
<1> HIDE DEF return
<1>6. IsDone(return) => /\ layout \in Layouts /\ layout.kind = "Function"
                        /\ References(layout) \subseteq DOMAIN return.types
                        /\ ps.type \in Seq(DOMAIN return.types)
    <2> SUFFICES ASSUME IsDone(return)
                 PROVE  /\ layout \in Layouts /\ layout.kind = "Function"
                        /\ References(layout) \subseteq DOMAIN return.types
                        /\ ps.type \in Seq(DOMAIN return.types)
        OBVIOUS
    <2> DEFINE D == DOMAIN return.types
    <2>1. return.type \in D /\ DOMAIN ps.types \subseteq D
        BY <1>5
    <2>2. return.type \in Nat
        <3>1. Len(return.types) \in Nat /\ DOMAIN return.types = 1 .. Len(return.types)
            BY <1>5, TableIs
        <3> QED BY <2>1, <3>1
    <2>3. ps.type \in Seq(DOMAIN ps.types)
        BY <1>4, <1>5
    <2> HIDE DEF D
    <2>4. ps.type \in Seq(D)
        BY <2>1, <2>3
    <2>5. layout \in [kind : {"Function"}, parameters : Seq(Nat), return_type : Nat]
        BY <1>4, <2>2 DEF FunctionType
    <2>6. References(layout) = ToSet(ps.type) \cup {return.type}
        BY DEF FunctionType, References
    <2>7. ToSet(ps.type) \subseteq D
        BY <2>4 DEF ToSet
    <2> HIDE DEF layout
    <2> QED BY <2>1, <2>4, <2>5, <2>6, <2>7 DEF D, Layouts
<1> HIDE DEF layout
<1> DEFINE q == r(lucky)
<1>7. Ends(q, s) /\ (IsDone(q) => IsSymbol(symbol(q.type), q.types))
    <2>1. CASE IsDone(return)
        <3>1. q = R(lucky)
            BY <2>1
        <3>2. layout.kind \in Composed
            BY <1>6, <2>1 DEF Composed
        <3>3. Sound(R(lucky), return.types) /\ IsDone(R(lucky))
              /\ R(lucky).types[R(lucky).type].kind = layout.kind
            BY <1>5, <1>6, <2>1, <3>2, RegisterIsSound
        <3> HIDE DEF R, q
        <3>4. /\ IsTypes(q.types) /\ IsPrefix(return.types, q.types) /\ q.type \in DOMAIN q.types
              /\ q.types[q.type].kind = "Function" /\ q.status = "Done"
            BY <1>6, <2>1, <3>1, <3>3 DEF Sound, IsDone
        <3>5. IsPrefix(types, q.types) /\ DOMAIN return.types \subseteq DOMAIN q.types
            BY <1>5, <3>4, LaterStill, LaterTable
        <3>6. ps.type \in Seq(DOMAIN q.types)
            <4>1. ps.type \in Seq(DOMAIN return.types)
                BY <1>6, <2>1
            <4> QED BY <3>5, <4>1
        <3>7. Ends(q, s)
            BY <3>4, <3>5 DEF Ends
        <3>8. IsSymbol(symbol(q.type), q.types)
            BY <3>4, <3>6 DEF IsSymbol
        <3> QED BY <3>7, <3>8
    <2>2. CASE ~IsDone(return)
        <3>1. q = return
            BY <2>2
        <3> HIDE DEF q
        <3> QED BY <1>5, <2>2, <3>1 DEF Ends
    <2> QED BY <2>1, <2>2
<1> HIDE DEF q, symbol
<1>8. Yields(s, Fresh(s, q), [x \in {s.name} |-> symbol(q.type)])
    BY <1>7, NamedYields
<1>9. Conclude(s, Fresh(s, q), [x \in {s.name} |-> symbol(q.type)])
    BY <1>2 DEF q
<1> QED BY <1>8, <1>9

\* The members of a struct: each has a name and one of the types.
LEMMA FieldDataIs ==
    ASSUME NEW groups \in Seq([names : Seq(STRING) \ {<<>>}, typehint : Hints]), NEW D, NEW ids \in Seq(D),
           Len(ids) = Len(groups)
    PROVE  FieldData(groups, ids) \in Seq([name : STRING, type : D])
<1> DEFINE F == [name : STRING, type : D]
           fields(g) == [n \in DOMAIN groups[g].names |-> [name |-> groups[g].names[1], type |-> ids[g]]]
           seqs == [g \in DOMAIN groups |-> fields(g)]
<1>1. DOMAIN groups = 1 .. Len(groups) /\ Len(groups) \in Nat
    OBVIOUS
<1>2. ASSUME NEW g \in 1 .. Len(groups)
      PROVE  fields(g) \in Seq(F)
    <2>1. groups[g].names \in Seq(STRING) /\ ids[g] \in D
        <3>1. groups[g] \in [names : Seq(STRING) \ {<<>>}, typehint : Hints] /\ ids[g] \in D
            BY <1>1, ElementOfSeq
        <3> QED BY <3>1
    <2> DEFINE ns == groups[g].names
               id == ids[g]
    <2> HIDE DEF ns, id
    <2>2. ns \in Seq(STRING) /\ id \in D
        BY <2>1 DEF ns, id
    <2>3. DOMAIN ns = 1 .. Len(ns) /\ Len(ns) \in Nat
        BY <2>2
    <2>4. \A n \in 1 .. Len(ns) : ns[1] \in STRING
        <3>1. \A n \in 1 .. Len(ns) : 1 \in 1 .. Len(ns)
            BY <2>3
        <3> QED BY <2>2, <3>1
    <2>5. \A n \in 1 .. Len(ns) : [name |-> ns[1], type |-> id] \in F
        BY <2>2, <2>4
    <2> HIDE DEF F
    <2>6. [n \in 1 .. Len(ns) |-> [name |-> ns[1], type |-> id]] \in Seq(F)
        BY <2>3, <2>5
    <2> QED BY <2>3, <2>6 DEF ns, id
<1> HIDE DEF F, fields
<1>3. seqs \in Seq(Seq(F))
    BY <1>1, <1>2
<1> HIDE DEF seqs
<1>4. FlattenSeq(seqs) \in Seq(F)
    BY <1>3, FlattenType
<1> QED BY <1>4 DEF FieldData, seqs, fields, F

LEMMA StructYields ==
    ASSUME NEW s \in Statements, IsTypes(types), Symbols(types), CheckStruct(s)
    PROVE  \E r, declared : Conclude(s, r, declared) /\ Yields(s, r, declared)
<1> DEFINE hints == [i \in DOMAIN s.fields |-> s.fields[i].typehint]
           hs == ResolveAll(hints)
           layout == StructType(s.name, FieldData(s.fields, hs.type))
           R == RegisterOrGet(layout, hs.types, TRUE)
           r == IF IsDone(hs) THEN R ELSE hs
<1>1. s.name \in STRING /\ s.fields \in Seq([names : Seq(STRING) \ {<<>>}, typehint : Hints])
    BY StatementForms DEF CheckStruct
<1>2. Conclude(s, Fresh(s, r), Named(s, "Type", r.type))
    BY DEF CheckStruct
<1>3. hints \in Seq(Hints) /\ Len(hints) = Len(s.fields)
    <2>1. \A i \in 1 .. Len(s.fields) : s.fields[i] \in [names : Seq(STRING) \ {<<>>}, typehint : Hints]
        BY <1>1, ElementOfSeq
    <2>2. \A i \in 1 .. Len(s.fields) : s.fields[i].typehint \in Hints
        BY <2>1
    <2>3. DOMAIN s.fields = 1 .. Len(s.fields) /\ Len(s.fields) \in Nat
        BY <1>1
    <2> QED BY <2>2, <2>3
<1> HIDE DEF hints
<1>4. Lists(hs, types) /\ (IsDone(hs) => Len(hs.type) = Len(s.fields))
    BY <1>3, ResolveAllIsSound
<1> HIDE DEF hs
<1>5. hs.status \in {"Done", "Failed"} /\ IsTypes(hs.types) /\ IsPrefix(types, hs.types)
    BY <1>4 DEF Lists
<1>6. IsDone(hs) => /\ layout \in Layouts /\ layout.kind = "Struct"
                    /\ References(layout) \subseteq DOMAIN hs.types
    <2> SUFFICES ASSUME IsDone(hs)
                 PROVE  /\ layout \in Layouts /\ layout.kind = "Struct"
                        /\ References(layout) \subseteq DOMAIN hs.types
        OBVIOUS
    <2> DEFINE D == DOMAIN hs.types
               fs == FieldData(s.fields, hs.type)
    <2>1. hs.type \in Seq(D) /\ Len(hs.type) = Len(s.fields)
        BY <1>4 DEF Lists
    <2>2. D \subseteq Nat
        <3>1. Len(hs.types) \in Nat /\ DOMAIN hs.types = 1 .. Len(hs.types)
            BY <1>5, TableIs
        <3> QED BY <3>1
    <2> HIDE DEF D
    <2>3. fs \in Seq([name : STRING, type : D])
        BY <1>1, <2>1, FieldDataIs
    <2> HIDE DEF fs
    <2> DEFINE F == [name : STRING, type : D]
    <2>4. fs \in Seq([name : STRING, type : Nat])
        <3>1. F \subseteq [name : STRING, type : Nat]
            BY <2>2
        <3>2. fs \in Seq(F)
            BY <2>3
        <3> HIDE DEF F
        <3> DEFINE G == [name : STRING, type : Nat]
        <3>3. F \subseteq G
            BY <3>1
        <3> HIDE DEF G
        <3>4. fs \in Seq(G)
            BY <3>2, <3>3
        <3> QED BY <3>4 DEF G
    <2>5. {f.type : f \in ToSet(fs)} \subseteq D
        <3>1. \A i \in 1 .. Len(fs) : fs[i] \in F
            BY <2>3, ElementOfSeq
        <3>2. \A i \in 1 .. Len(fs) : fs[i].type \in D
            BY <3>1
        <3>3. DOMAIN fs = 1 .. Len(fs)
            BY <2>3
        <3> QED BY <3>2, <3>3 DEF ToSet
    <2>6. layout = StructType(s.name, fs)
        BY DEF fs
    <2> HIDE DEF layout
    <2>7. layout \in [kind : {"Struct"}, name : STRING, fields : Seq([name : STRING, type : Nat])]
        BY <1>1, <2>4, <2>6 DEF StructType
    <2>8. References(layout) = {f.type : f \in ToSet(fs)}
        BY <2>6 DEF StructType, References
    <2> QED BY <2>5, <2>7, <2>8 DEF D, Layouts
<1> HIDE DEF layout
<1>7. Ends(r, s) /\ (IsDone(r) => IsSymbol([sort |-> "Type", type |-> r.type], r.types))
    <2>1. CASE IsDone(hs)
        <3>1. r = R /\ layout.kind \in Composed
            BY <1>6, <2>1 DEF Composed
        <3>2. Sound(R, hs.types) /\ IsDone(R) /\ R.types[R.type].kind = layout.kind
            BY <1>5, <1>6, <2>1, <3>1, RegisterIsSound
        <3> HIDE DEF R, r
        <3>3. /\ IsTypes(r.types) /\ IsPrefix(hs.types, r.types) /\ r.type \in DOMAIN r.types
              /\ r.types[r.type].kind = "Struct" /\ r.status = "Done"
            BY <1>6, <2>1, <3>1, <3>2 DEF Sound, IsDone
        <3>4. IsPrefix(types, r.types)
            BY <1>5, <3>3, LaterStill
        <3> QED BY <3>3, <3>4 DEF Ends, IsSymbol
    <2>2. CASE ~IsDone(hs)
        <3>1. r = hs
            BY <2>2
        <3> HIDE DEF r
        <3> QED BY <1>5, <2>2, <3>1 DEF Ends
    <2> QED BY <2>1, <2>2
<1> HIDE DEF r
<1>8. Yields(s, Fresh(s, r), Named(s, "Type", r.type))
    BY <1>7, NamedYields DEF Named
<1> QED BY <1>2, <1>8

-----------------------------------------------------------------------------
(* Every program.                                                           *)

\* A step checks the next statement of the text.
LEMMA NextStatement ==
    ASSUME TypeOK, phase = "checking"
    PROVE  /\ Len(seen) + 1 \in 1 .. Len(Programs[text])
           /\ Len(seen) \in Nat /\ Len(Programs[text]) \in Nat
           /\ Programs[text][Len(seen) + 1] \subseteq Statements
<1>1. Programs[text] \in Seq(SUBSET Statements) \ {<<>>}
    BY ProgramsAssumption DEF TypeOK
<1> DEFINE program == Programs[text]
<1>2. program \in Seq(SUBSET Statements)
    BY <1>1
<1>3. Len(seen) < Len(program) /\ Len(seen) \in Nat
    BY DEF TypeOK
<1> HIDE DEF program
<1>4. Len(program) \in Nat /\ Len(seen) + 1 \in 1 .. Len(program)
    BY <1>2, <1>3
<1>5. program[Len(seen) + 1] \in SUBSET Statements
    BY <1>2, <1>4, ElementOfSeq
<1> QED BY <1>3, <1>4, <1>5 DEF program

LEMMA StatementYields ==
    ASSUME NEW s \in Statements, IsTypes(types), Symbols(types),
           \/ CheckTypedVariable(s) \/ CheckInferredVariable(s)
           \/ CheckExpression(s) \/ CheckCondition(s) \/ CheckReturn(s)
           \/ CheckPrototype(s) \/ CheckStruct(s)
    PROVE  \E r, declared : Conclude(s, r, declared) /\ Yields(s, r, declared)
BY TypedVariableYields, InferredVariableYields, ExpressionYields, ConditionYields, ReturnYields,
   PrototypeYields, StructYields

\* What ids and names stood for, they stand for.
IdsAndNamesStay ==
    /\ IsPrefix(types, types')
    /\ \A x \in DOMAIN names : x \in DOMAIN names' /\ names'[x] = names[x]

\* What a statement comes to keeps the invariant.
LEMMA ConcludeKeeps ==
    ASSUME TypeOK, phase = "checking", NEW s \in Programs[text][Len(seen) + 1],
           NEW r, NEW declared, Conclude(s, r, declared), Yields(s, r, declared)
    PROVE  TypeOK' /\ EndsWithAVerdict' /\ IdsAndNamesStay
<1>1. /\ types' = r.types /\ phase' = Verdict[r.status] /\ seen' = Append(seen, s) /\ text' = text
      /\ names' = IF IsDone(r) THEN With(declared) ELSE names
    BY DEF Conclude, IsDone
<1>2. /\ Len(seen) + 1 \in 1 .. Len(Programs[text]) /\ Len(seen) \in Nat /\ Len(Programs[text]) \in Nat
      /\ s \in Statements
    BY NextStatement
<1>3. /\ r.status \in {"Done", "Failed", "Aborted", "Crashed"}
      /\ IsTypes(r.types) /\ IsPrefix(types, r.types)
    BY DEF Yields, Ends
<1>4. IsTypes(types) /\ Symbols(types)
    BY DEF TypeOK, IsTypes, Symbols
<1>5. /\ r.status = "Done" => phase' = IF Len(seen) + 1 = Len(Programs[text]) THEN "accepted" ELSE "checking"
      /\ r.status = "Failed" => phase' = "rejected"
      /\ r.status = "Aborted" => phase' = "aborted"
      /\ r.status = "Crashed" => phase' = "crashed"
    BY <1>1 DEF Verdict
<1>6. /\ seen' \in Seq(Statements) /\ Len(seen') = Len(seen) + 1
      /\ seen'[Len(seen) + 1] = s /\ \A n \in 1 .. Len(seen) : seen'[n] = seen[n]
    BY <1>1, <1>2 DEF TypeOK
<1>7. \A n \in DOMAIN seen' : seen'[n] \in Programs[text'][n]
    <2>1. DOMAIN seen' = 1 .. Len(seen) + 1 /\ DOMAIN seen = 1 .. Len(seen)
        BY <1>2, <1>6 DEF TypeOK
    <2> SUFFICES ASSUME NEW n \in 1 .. Len(seen) + 1
                 PROVE  seen'[n] \in Programs[text][n]
        BY <1>1, <2>1
    <2>2. CASE n = Len(seen) + 1
        BY <1>6, <2>2
    <2>3. CASE n # Len(seen) + 1
        <3>1. n \in 1 .. Len(seen)
            BY <1>2, <2>3
        <3> QED BY <1>6, <2>1, <3>1 DEF TypeOK
    <2> QED BY <2>2, <2>3
<1>8. ASSUME NEW x \in DOMAIN names
      PROVE  x \in DOMAIN names' /\ names'[x] = names[x] /\ IsSymbol(names[x], r.types)
    <2>1. IsSymbol(names[x], r.types)
        BY <1>3, <1>4, SymbolsLater DEF Symbols
    <2>2. CASE IsDone(r)
        <3>1. x \notin DOMAIN declared
            BY <2>2 DEF Yields
        <3> QED BY <1>1, <2>1, <2>2, <3>1 DEF With
    <2>3. CASE ~IsDone(r)
        BY <1>1, <2>1, <2>3
    <2> QED BY <2>2, <2>3
<1>9. ASSUME NEW x \in DOMAIN names'
      PROVE  IsSymbol(names'[x], r.types)
    <2>1. CASE x \in DOMAIN names
        BY <1>8, <2>1
    <2>2. CASE x \notin DOMAIN names
        <3>1. IsDone(r)
            BY <1>1, <2>2
        <3>2. x \in DOMAIN declared /\ names'[x] = declared[x]
            BY <1>1, <2>2, <3>1 DEF With
        <3> QED BY <3>1, <3>2 DEF Yields
    <2> QED BY <2>1, <2>2
<1>10. TypeOK'
    <2>1. phase' \in {"checking", "accepted", "rejected", "aborted", "crashed"}
        BY <1>3, <1>5
    <2>2. types' \in Tables /\ IsTable(types')
        BY <1>1, <1>3 DEF IsTypes
    <2>3. \A x \in DOMAIN names' : IsSymbol(names'[x], types')
        BY <1>1, <1>9
    <2>4. text' \in DOMAIN Programs
        BY <1>1 DEF TypeOK
    <2>5. Len(seen') <= Len(Programs[text'])
        BY <1>1, <1>2, <1>6
    <2>6. phase' = "checking" => Len(seen') < Len(Programs[text'])
        <3> SUFFICES ASSUME phase' = "checking"
                     PROVE  Len(seen') < Len(Programs[text'])
            OBVIOUS
        <3>1. Len(seen) + 1 # Len(Programs[text])
            BY <1>3, <1>5
        <3> QED BY <1>1, <1>2, <1>6, <3>1
    <2>7. phase' = "accepted" => Len(seen') = Len(Programs[text'])
        BY <1>1, <1>3, <1>5, <1>6
    <2> QED BY <1>6, <1>7, <2>1, <2>2, <2>3, <2>4, <2>5, <2>6, <2>7 DEF TypeOK
<1>11. EndsWithAVerdict'
    <2>1. Last(seen') = s
        BY <1>6 DEF Last
    <2>2. phase' \in {"aborted", "crashed"} => names' = names
        BY <1>1, <1>3, <1>5 DEF IsDone
    <2>3. phase' = "aborted" => \/ s.kind = "Variable" /\ s.constant
                                \/ \E e \in PartsOf(s) : NotWritten(e)
        BY <1>3, <1>5 DEF Yields, Ends
    <2>4. phase' = "crashed" => \E e \in PartsOf(s) : TooManyArguments(e)
        BY <1>3, <1>5 DEF Yields, Ends
    <2> QED BY <2>1, <2>2, <2>3, <2>4 DEF EndsWithAVerdict, NotWritten, TooManyArguments
<1>12. IdsAndNamesStay
    BY <1>1, <1>3, <1>8 DEF IdsAndNamesStay
<1> QED BY <1>10, <1>11, <1>12

\* The table a program starts with.
LEMMA InitOK ==
    ASSUME Init
    PROVE  TypeOK /\ EndsWithAVerdict
<1>1. TYPES \in Tables
    <2>1. \A kind \in {"Error", "Void", "Int", "Uint", "Bool", "Char", "String", "Int64", "Uint8",
                       "Float32", "Float64", "Namespace"} : Plain(kind) \in Layouts
        BY DEF Layouts, Plain
    <2> QED BY <2>1 DEF TYPES, Tables
<1>2. Len(TYPES) = 12 /\ DOMAIN TYPES = 1 .. 12 /\ \A id \in 1 .. 12 : References(TYPES[id]) = {}
    BY DEF TYPES, Plain, References
<1>3. IsTable(TYPES)
    <2> DEFINE T == TYPES
    <2>1. T \in Seq(Layouts) /\ Len(T) = 12 /\ DOMAIN T = 1 .. 12 /\ \A id \in 1 .. 12 : References(T[id]) = {}
        BY <1>1, <1>2 DEF Tables
    <2> HIDE DEF T
    <2>2. IsPrefix(T, T)
        BY <2>1, PrefixIs
    <2>3. \A id \in DOMAIN T : \A r \in References(T[id]) : r \in 1 .. id - 1
        BY <2>1
    <2>4. Len(T) + 1 .. Len(T) = {}
        BY <2>1
    <2>6. \A id \in Len(T) + 1 .. Len(T) : T[id].kind \in Composed
        BY <2>4
    <2>5. \A i, j \in Len(T) + 1 .. Len(T) : T[i] = T[j] => i = j
        BY <2>4
    <2> QED BY <2>2, <2>3, <2>5, <2>6 DEF T, IsTable
<1>4. Programs[text] \in Seq(SUBSET Statements) \ {<<>>} /\ text \in DOMAIN Programs
    BY ProgramsAssumption DEF Init
<1> DEFINE program == Programs[text]
<1>5. program \in Seq(SUBSET Statements) /\ program # <<>>
    BY <1>4
<1> HIDE DEF program
<1>6. 0 < Len(program)
    BY <1>5, EmptySeq
<1> QED BY <1>1, <1>3, <1>4, <1>6 DEF Init, TypeOK, EndsWithAVerdict, program

LEMMA NextKeeps ==
    ASSUME TypeOK, EndsWithAVerdict, [Next]_vars
    PROVE  TypeOK' /\ EndsWithAVerdict' /\ [IdsAndNamesStay]_vars
<1>1. CASE Next
    <2>1. PICK s \in Programs[text][Len(seen) + 1] :
              \/ CheckTypedVariable(s) \/ CheckInferredVariable(s)
              \/ CheckExpression(s) \/ CheckCondition(s) \/ CheckReturn(s)
              \/ CheckPrototype(s) \/ CheckStruct(s)
        BY <1>1 DEF Next
    <2>2. phase = "checking"
        BY <1>1 DEF Next
    <2>3. s \in Statements /\ IsTypes(types) /\ Symbols(types)
        BY <2>2, NextStatement DEF TypeOK, IsTypes, Symbols
    <2>4. PICK r, declared : Conclude(s, r, declared) /\ Yields(s, r, declared)
        BY <2>1, <2>3, StatementYields
    <2> QED BY <2>2, <2>4, ConcludeKeeps
<1>2. CASE UNCHANGED vars
    <2>1. /\ types' = types /\ names' = names /\ text' = text /\ seen' = seen /\ phase' = phase
        BY <1>2 DEF vars
    <2>2. TypeOK'
        BY <2>1 DEF TypeOK
    <2>3. EndsWithAVerdict'
        BY <2>1 DEF EndsWithAVerdict, NotWritten, TooManyArguments
    <2> QED BY <1>2, <2>2, <2>3
<1> QED BY <1>1, <1>2

\* Whatever the program, the table stays a table of types, every name stands
\* for a type of it that goes with its sort, and the statements are checked in
\* the order of the text.
THEOREM TypesTyped == Spec => []TypeOK
<1> USE DEF Spec
<1>1. Init => TypeOK /\ EndsWithAVerdict
    BY InitOK
<1>2. TypeOK /\ EndsWithAVerdict /\ [Next]_vars => TypeOK' /\ EndsWithAVerdict'
    BY NextKeeps
<1> QED BY <1>1, <1>2, PTL

\* Whatever the program, however deep its expressions are nested, the check
\* stops without a verdict only at a construct it has no case for, and falls
\* only over a call with more arguments than the function has parameters.
THEOREM AlwaysAVerdict == Spec => []EndsWithAVerdict
<1> USE DEF Spec
<1>1. Init => TypeOK /\ EndsWithAVerdict
    BY InitOK
<1>2. TypeOK /\ EndsWithAVerdict /\ [Next]_vars => TypeOK' /\ EndsWithAVerdict'
    BY NextKeeps
<1> QED BY <1>1, <1>2, PTL

\* A type id and a name keep for good what they stood for when they were first
\* handed out, whatever is checked after them; a statement that fails after it
\* has registered types takes none of them back and changes none.
THEOREM MeaningStays == Spec => [][IdsAndNamesStay]_vars
<1> USE DEF Spec
<1>1. Init => TypeOK /\ EndsWithAVerdict
    BY InitOK
<1>2. TypeOK /\ EndsWithAVerdict /\ [Next]_vars => TypeOK' /\ EndsWithAVerdict' /\ [IdsAndNamesStay]_vars
    BY NextKeeps
<1> QED BY <1>1, <1>2, PTL
=============================================================================
