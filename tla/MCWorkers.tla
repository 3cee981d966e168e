----------------------------- MODULE MCWorkers -----------------------------
(***************************************************************************)
(* Program families for TLC.  Types are used where types are expected: the *)
(* head of a struct and of a function names structs (or nothing known).    *)
(***************************************************************************)
EXTENDS Workers

Entity(kind, heads, bodies, bad) ==
    [kind : {kind}, head : heads, body : bodies, bad : bad, clash : {FALSE}]

\* Statements that declare nothing and name one thing.
Plain(refs) == [local : {FALSE}, ref : refs]

\* Every kind of declaration, with at most one name in a head and in a body,
\* and a second declaration of a name.
AnyEntity ==
    Entity("var", SeqOf(Ref, 1), {<<>>}, {FALSE})
    \cup Entity("typed", SeqOf(Decl, 1), {<<>>}, BOOLEAN)
    \cup Entity("struct", SeqOf(Ref, 1), {<<>>}, {FALSE})
    \cup Entity("func", SeqOf(Decl, 1), SeqOf(Plain(Ref), 1), {FALSE})

\* Functions whose bodies have two statements, the first one possibly a local
\* declaration, among variables and types.
BodyEntity ==
    LET firsts == [local : BOOLEAN, ref : Decl]
        bodies == {<<s, t>> : s \in firsts, t \in Plain(Decl)}
    IN Entity("var", SeqOf(Decl, 1), {<<>>}, {FALSE})
       \cup Entity("func", {<<>>, <<N>>}, bodies, {FALSE})
       \cup Entity("struct", {<<>>}, {<<>>}, {FALSE})

\* The awkward ones: a name declared twice, a constant, a struct with a field of
\* no known type, and users of them.
OddEntity ==
    {[e EXCEPT !.clash = TRUE] : e \in Entity("var", {<<>>}, {<<>>}, {FALSE})}
    \cup Entity("const", {<<>>}, {<<>>}, {FALSE})
    \cup Entity("struct", {<<Undeclared>>}, {<<>>}, {FALSE})
    \cup Entity("var", SeqOf(Decl, 1), {<<>>}, {FALSE})

\* Only types are named where types are expected.
WellKinded(p) ==
    \A d \in Decl : p[d].kind \in {"struct", "func"} =>
        \A n \in DOMAIN p[d].head :
            p[d].head[n] # Undeclared => p[p[d].head[n]].kind = "struct"

SafetyProgram ==
    {p \in [Decl -> AnyEntity \cup BodyEntity \cup OddEntity] :
        /\ \/ Range(p) \subseteq AnyEntity
           \/ Range(p) \subseteq BodyEntity
           \/ Range(p) \subseteq OddEntity
        /\ WellKinded(p)}

\* Functions suspended in their prototype, and nowhere else: prototypes and bodies
\* name a struct that is declared below them.
LatePrototype ==
    LET bodies == {<<s, t>> : s \in [local : BOOLEAN, ref : {N}], t \in Plain({N})}
    IN {p \in [Decl -> Entity("func", {<<N>>}, bodies, {FALSE})
                         \cup Entity("struct", {<<>>}, {<<>>}, {FALSE})] :
            p[N].kind = "struct"}

\* Well-formed programs only; N = 4 leaves room for three workers on a symbol.
LiveEntity ==
    Entity("var", SeqOf(Decl, 1), {<<>>}, {FALSE})
    \cup Entity("func", {<<>>}, {<<>>} \cup
                  {<<s, t>> : s \in [local : BOOLEAN, ref : {1, N}],
                              t \in Plain({N - 1})}, {FALSE})
    \cup Entity("struct", {<<>>, <<1>>}, {<<>>}, {FALSE})

CompletingProgram ==
    {p \in [Decl -> LiveEntity] : WellKinded(p) /\ WellFormed(p)}
=============================================================================
