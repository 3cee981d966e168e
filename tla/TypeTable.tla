------------------------------ MODULE TypeTable ------------------------------
(***************************************************************************)
(* The table of types that every declaration shares: what a type id stands *)
(* for, and register_or_get_type, which gives a type the id it already has *)
(* if operator== finds it in the table (entities/type.h, type/resolver.cc).*)
(***************************************************************************)
EXTENDS Naturals, Sequences, SequencesExt, FiniteSetsExt

\* sema::Type: what a type id stands for; ids count from 1 here.
Plain(kind)          == [kind |-> kind]
PointerType(const, id) == [kind |-> "Pointer", mutability |-> const, target_type |-> id]
ArrayType(n, id)     == [kind |-> "Array", element_count |-> n, element_type |-> id]
FunctionType(ps, id) == [kind |-> "Function", parameters |-> ps, return_type |-> id]
StructType(s, fs)    == [kind |-> "Struct", name |-> s, fields |-> fs]

Layouts ==
  [kind : {"Error", "Void", "Int", "Uint", "Bool", "Char", "String", "Int64", "Uint8", "Float32",
           "Float64", "Namespace"}]
    \cup [kind : {"Pointer"}, mutability : BOOLEAN, target_type : Nat]
    \cup [kind : {"Array"}, element_count : Nat, element_type : Nat]
    \cup [kind : {"Function"}, parameters : Seq(Nat), return_type : Nat]
    \cup [kind : {"Struct"}, name : STRING, fields : Seq([name : STRING, type : Nat])]
Tables == Seq(Layouts)

TYPES == <<Plain("Error"), Plain("Void"), Plain("Int"), Plain("Uint"), Plain("Bool"),
           Plain("Char"), Plain("String"), Plain("Int64"), Plain("Uint8"), Plain("Float32"),
           Plain("Float64"), Plain("Namespace")>>
VoidId == 2
IntId == 3
BoolId == 5
CharId == 6
Int64Id == 8
Uint8Id == 9
Float32Id == 10
Float64Id == 11
NamespaceId == 12
NoContext == 0

----------------------------------------------------------------------------
(* The table of types.                                                     *)

\* Fault: pointers to const and to mutable targets are one type.
SameTarget(old, new, lucky) ==
  /\ old.kind = new.kind /\ old.kind # "Error"
  /\ old.kind = "Pointer" => old.target_type = new.target_type
  /\ old.kind = "Struct" => old.name = new.name
  /\ old.kind = "Function" => old.return_type = new.return_type
\* operator==, asked of the registered type: whatever else has the same kind is
\* the same, arrays among them; the parameters of a longer list are compared
\* with what lies behind the end of the shorter one, which may look equal.
SameType(old, new, lucky) ==
  /\ old.kind = new.kind /\ old.kind # "Error"
  /\ old.kind = "Pointer" => /\ old.mutability = new.mutability
                             /\ old.target_type = new.target_type
  /\ old.kind = "Struct" => old.name = new.name
  /\ old.kind = "Function" =>
       /\ old.return_type = new.return_type
       /\ \A n \in DOMAIN old.parameters :
            IF n \in DOMAIN new.parameters THEN old.parameters[n] = new.parameters[n] ELSE lucky

Result(status, id, table) == [status |-> status, type |-> id, types |-> table]
Done(id, table)   == Result("Done", id, table)
Stop(status, table) == Result(status, NoContext, table)
Failed(table)     == Stop("Failed", table)
IsDone(r)         == r.status = "Done"

\* Fault: a type is registered again each time it is written.
RegisterAlways(layout, table, lucky) == Done(Len(table) + 1, Append(table, layout))
RegisterOrGet(layout, table, lucky) ==
  LET same == {id \in DOMAIN table : SameType(table[id], layout, lucky)} IN
  IF same # {} THEN Done(Min(same), table) ELSE Done(Len(table) + 1, Append(table, layout))

\* the ids a layout is made of
References(layout) ==
  CASE layout.kind = "Pointer" -> {layout.target_type}
    [] layout.kind = "Array" -> {layout.element_type}
    [] layout.kind = "Function" -> ToSet(layout.parameters) \cup {layout.return_type}
    [] layout.kind = "Struct" -> {f.type : f \in ToSet(layout.fields)}
    [] OTHER -> {}
Composed == {"Pointer", "Array", "Function", "Struct"}
\* The built-in types keep their ids and have no others, a type is made of types
\* registered before it, so that writing one out ends, and none is registered twice.
IsTable(table) ==
  /\ IsPrefix(TYPES, table)
  /\ \A id \in Len(TYPES) + 1 .. Len(table) : table[id].kind \in Composed
  /\ \A id \in DOMAIN table : \A r \in References(table[id]) : r \in 1 .. id - 1
  /\ \A i, j \in Len(TYPES) + 1 .. Len(table) : table[i] = table[j] => i = j
=============================================================================
