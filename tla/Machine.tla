------------------------------- MODULE Machine -------------------------------
(***************************************************************************)
(* The emitted C program running: the meaning codegen/backends/c.cc gives  *)
(* each instruction of the LIR, one action per instruction.  A local is a  *)
(* pointer variable `local_i` that its Alloca sets to the address of       *)
(* `local_i_slot`; a value is evaluated where the instruction that uses it *)
(* stands.  Statements are printed one after the other, labels and gotos   *)
(* as they are, so control may pass over an Alloca.                        *)
(*                                                                         *)
(* `prog` names the program of the run, chosen in Init; `unit` is what is  *)
(* emitted for it, its functions by C name and its globals, and `meant`    *)
(* what its tree means.  Neither changes.                                  *)
(***************************************************************************)
EXTENDS Lowering, Meaning, TLC

CONSTANT Programs     \* the programs compiled and run, by name

VARIABLES prog, unit, meant, stack, mem, printed, phase

given == <<prog, unit, meant>>
vars == <<given, stack, mem, printed, phase>>

\* is_constant_value: only these are written where the global is declared
IsConstantValue(v) == v.kind \in {"Integer", "String"}

\* lower_glob_variable: an initializer is lowered outside of any function
Initializer(g) == Lower(NewBuildr, Convert(g.init)).v

Lowered(p) ==
  LET all == UNION {Range(LowerFunction(ConvertStatement(f))) : f \in Range(p.functions)}
  IN  [n \in {f.name : f \in all} |-> CHOOSE f \in all : f.name = n]
Unit(p) ==
  [functions |-> Lowered(p),
   globals |-> [i \in DOMAIN p.globals |-> [ident |-> CanonicalName(p.globals[i].symbol),
                                            value |-> Initializer(p.globals[i])]]]

GlobalBase(name) == [space |-> "global", frame |-> 0, index |-> 0, name |-> name]
SlotBase(frame, i) == [space |-> "slot", frame |-> frame, index |-> i, name |-> ""]
ItemsBase(frame, i) == [space |-> "items", frame |-> frame, index |-> i, name |-> ""]

\* emit_global_declarations: constants are there from the start, the rest is 0
StaticMemory(globals) ==
  LET Of(b) == CHOOSE g \in Range(globals) : GlobalBase(g.ident) = b
  IN  [b \in {GlobalBase(g.ident) : g \in Range(globals)} |->
         IF IsConstantValue(Of(b).value) THEN Of(b).value.value ELSE 0]

Frame(name, args) == [fn |-> name, args |-> args, pc |-> 1, locals |-> <<>>, types |-> <<>>]

\* Programs whose source ends are run.
Init == /\ \E k \in DOMAIN Programs :
             /\ prog = k
             /\ unit = Unit(Programs[k])
             /\ meant = Outcome(Programs[k])
        /\ meant.fuel > 0
        /\ stack = <<>>
        /\ mem = StaticMemory(unit.globals)
        /\ printed = <<>>
        /\ phase = "loaded"

top == stack[Len(stack)]
code == unit.functions[top.fn].code
inst == code[top.pc]

----------------------------------------------------------------------------
(* write_value                                                             *)

\* `x + n` is pointer arithmetic where C types x as a pointer.
IsPointer(fr, v) ==
  /\ v.kind = "Deref"
  /\ v.value.kind = "LocalRef"
  /\ fr.types[v.value.index] \in {"ptr", "row"}

RECURSIVE ValueOf(_, _, _), PlaceOf(_, _, _)
ValueOf(m, fr, v) ==
  CASE v.kind = "Integer" -> v.value
    [] v.kind = "True" -> 1
    [] v.kind = "False" -> 0
    [] v.kind = "LocalRef" -> fr.locals[v.index]
    [] v.kind = "ParamRef" -> fr.args[v.index]
    [] v.kind = "GlobalRef" -> Get(m, PlaceOf(m, fr, v))
    [] v.kind = "Deref" -> Get(m, ValueOf(m, fr, v.value))
    [] v.kind = "AddrOf" -> PlaceOf(m, fr, v.value)
    [] v.kind = "Cmp" ->
         LET x == ValueOf(m, fr, v.first)
             y == ValueOf(m, fr, v.second)
         IN  IF IsPointer(fr, v.first) THEN Step(x, y) ELSE Compute(v.op, x, y)

PlaceOf(m, fr, v) == CASE v.kind = "GlobalRef" -> Address(GlobalBase(v.ident), <<>>)
                       [] v.kind = "Deref" -> ValueOf(m, fr, v.value)

\* The locals a value reads when it is evaluated.
RECURSIVE LocalsIn(_)
LocalsIn(v) == CASE v.kind = "LocalRef" -> {v.index}
                 [] v.kind \in {"Deref", "AddrOf"} -> LocalsIn(v.value)
                 [] v.kind = "Cmp" -> LocalsIn(v.first) \cup LocalsIn(v.second)
                 [] OTHER -> {}

----------------------------------------------------------------------------
(* emit_global_init_function, emit_function_definition, write_instruction  *)

\* `main` calls __jeni_global_init first: the initializers that are not
\* constants, in the order of the globals
GlobalInit(globals, m) ==
  FoldLeft(LAMBDA a, g :
             IF IsConstantValue(g.value) THEN a
             ELSE Set(a, Address(GlobalBase(g.ident), <<>>), ValueOf(a, <<>>, g.value)),
           m, globals)

Enter == /\ phase = "loaded"
         /\ phase' = "running"
         /\ mem' = GlobalInit(unit.globals, mem)
         /\ stack' = <<Frame("main", <<>>)>>
         /\ UNCHANGED <<given, printed>>

\* The locals an instruction reads: one that is not set yet holds no address,
\* and the program stops there.
Reads(i) == CASE i.opcode = "Store" -> LocalsIn(i.dst) \cup LocalsIn(i.value)
              [] i.opcode = "Call" -> LocalsIn(i.dst) \cup UNION {LocalsIn(a) : a \in Range(i.arguments)}
              [] i.opcode = "JmpIfEquals" -> LocalsIn(i.first)
              [] i.opcode = "Ret" -> LocalsIn(i.value)
              [] i.opcode = "Member_Ptr" -> LocalsIn(i.receiver) \cup LocalsIn(i.dst)
              [] OTHER -> {}

Executes(opcode) == /\ phase = "running"
                    /\ top.pc <= Len(code)
                    /\ inst.opcode = opcode
                    /\ Reads(inst) \subseteq DOMAIN top.locals
Next1(frame) == stack' = [stack EXCEPT ![Len(stack)] = [frame EXCEPT !.pc = @ + 1]]
GoTo(label) == stack' = [stack EXCEPT ![Len(stack)].pc =
                           CHOOSE i \in DOMAIN code : code[i] = PutLabel(label)]

DoAlloca ==
  /\ Executes("Alloca")
  /\ LET i == inst.dst.index
     IN  Next1([top EXCEPT !.locals = (i :> Address(SlotBase(Len(stack), i), <<>>)) @@ @,
                           !.types  = (i :> inst.type) @@ @])
  /\ UNCHANGED <<given, mem, printed, phase>>

\* `*dst = (T)value;` where `(T){0}` of an array is a fresh array, and the slot
\* holds the pointer to it
DoStore ==
  /\ Executes("Store")
  /\ LET dst   == PlaceOf(mem, top, inst.dst)
         items == ItemsBase(Len(stack), dst.base.index)
     IN  mem' = IF inst.value.kind # "ZeroFill"
                THEN Set(mem, dst, AsType(inst.type, ValueOf(mem, top, inst.value)))
                ELSE IF inst.type = "row"
                THEN Set((items :> Zero("row")) @@ mem, dst, Address(items, <<0>>))
                ELSE Set(mem, dst, Zero(inst.type))
  /\ Next1(top)
  /\ UNCHANGED <<given, printed, phase>>

DoMemberPtr ==
  /\ Executes("Member_Ptr")
  /\ LET r == PlaceOf(mem, top, inst.receiver)
     IN  Next1([top EXCEPT !.locals[inst.dst.index] = Address(r.base, Append(r.path, inst.member))])
  /\ UNCHANGED <<given, mem, printed, phase>>

\* A function without a body is linked in from outside: it prints its argument.
\* Calling a local that captured the function's name is no C program: it stops.
DoCall ==
  /\ Executes("Call")
  /\ inst.callee.kind = "GlobalRef"
  /\ LET f    == unit.functions[inst.callee.ident]
         args == [i \in 0 .. Len(inst.arguments) - 1 |-> ValueOf(mem, top, inst.arguments[i + 1])]
     IN  IF f.defined
         THEN /\ stack' = Append(stack, Frame(f.name, args))
              /\ UNCHANGED <<mem, printed>>
         ELSE /\ printed' = Append(printed, args[0])
              /\ mem' = Set(mem, PlaceOf(mem, top, inst.dst), 0)
              /\ Next1(top)
  /\ UNCHANGED <<given, phase>>

DoLabel == /\ Executes("PutLabel")
           /\ Next1(top)
           /\ UNCHANGED <<given, mem, printed, phase>>

DoJmp == /\ Executes("Jmp")
         /\ GoTo(inst.label)
         /\ UNCHANGED <<given, mem, printed, phase>>

\* `if (first) goto` when the second value is true, else `if (first==second)`
DoJmpIfEquals ==
  /\ Executes("JmpIfEquals")
  /\ LET first == ValueOf(mem, top, inst.first)
         taken == IF inst.second = True THEN first # 0
                  ELSE first = ValueOf(mem, top, inst.second)
     IN  IF taken THEN GoTo(inst.label) ELSE Next1(top)
  /\ UNCHANGED <<given, mem, printed, phase>>

\* The slots of the activation that ends are gone; the caller's Call stores
\* what was returned.
Leave(value) ==
  LET kept == [b \in {b \in DOMAIN mem : b.frame < Len(stack)} |-> mem[b]]
      caller == stack[Len(stack) - 1]
  IN  IF Len(stack) = 1
      THEN stack' = <<>> /\ phase' = "exited" /\ mem' = kept
      ELSE /\ stack' = [Front(stack) EXCEPT ![Len(stack) - 1].pc = @ + 1]
           /\ mem' = Set(kept, PlaceOf(mem, caller, unit.functions[caller.fn].code[caller.pc].dst), value)
           /\ UNCHANGED phase

DoRet == /\ Executes("Ret")
         /\ Leave(ValueOf(mem, top, inst.value))
         /\ UNCHANGED <<given, printed>>

\* the closing brace: `main` returns 0, elsewhere nothing uses the result
FallOff == /\ phase = "running"
           /\ top.pc > Len(code)
           /\ Leave(0)
           /\ UNCHANGED <<given, printed>>

Next == \/ Enter
        \/ DoAlloca
        \/ DoStore
        \/ DoMemberPtr
        \/ DoCall
        \/ DoLabel
        \/ DoJmp
        \/ DoJmpIfEquals
        \/ DoRet
        \/ FallOff

\* The processor goes on: nothing outside the program keeps it from its next
\* instruction.
Spec == Init /\ [][Next]_vars /\ WF_vars(Next)
=============================================================================
