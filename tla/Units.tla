-------------------------------- MODULE Units --------------------------------
(***************************************************************************)
(* Programs of several files and of namespaces, from the first file to the *)
(* conversion: discover_use_expr, which opens a file and resolves it in a  *)
(* context of its own from inside the discovery of its importer,           *)
(* check_namespace_definition, which parks its members one by one, names   *)
(* that reach into namespaces, and main's way from the checker to the HIR. *)
(*                                                                         *)
(* Workers has one file and shows every step of a nested wake-up; here the *)
(* check of one statement, with the checks it wakes, is one step, and the  *)
(* interleaving is that of the contexts and of the draining loops.         *)
(* Declarations are variables, whose initializer names one thing or        *)
(* nothing, and namespaces, which may nest.                                *)
(***************************************************************************)
EXTENDS Integers, Sequences, FiniteSets, SequencesExt

CONSTANTS Root,       \* the file the compiler is called with
          Programs    \* [text : what each file says, argv : Root's path as given]

VARIABLES
    program,   \* chosen once
    sources,   \* SourceManager: the open files, known by the path they were opened with
    calls,     \* the activations of semactx_resolve, the innermost first
    world,     \* Semantic_Storage and the table of workers of the innermost context
    programs,  \* Semantic_Storage::programs: the place of a #use -> its source
    outcome,   \* of the compiler
    emitted    \* the declarations of the HIR program

vars == <<program, sources, calls, world, programs, outcome, emitted>>

(***************************************************************************)
(* A locus is a source and the places of a statement and of the statements *)
(* in it: <<2, 3, 1>> is the first member of the third statement of the    *)
(* second file.  What it is in names its scope: <<2>> is the global scope  *)
(* of a context, <<2, 3>> the scope of a namespace.                        *)
(***************************************************************************)
Text(source) == program.text[sources[source].file]

RECURSIVE Nested(_, _)
Nested(body, path) ==
    IF Len(path) = 1 THEN body[path[1]] ELSE Nested(body[path[1]].body, Tail(path))

Stmt(l) == Nested(Text(l[1]), Tail(l))

Done == [kind |-> "Done", on |-> <<>>]
Failed == [kind |-> "Failed", on |-> <<>>]
PendingOn(l) == [kind |-> "Pending", on |-> l]

Call(source) ==
    [source |-> source, loaded |-> <<>>, stage |-> "discover", at |-> 1, good |-> TRUE,
     left |-> {}]

Init ==
    /\ program \in Programs
    /\ sources = <<[path |-> program.argv, file |-> Root]>>
    /\ calls = <<Call(1)>>
    /\ world = [state |-> <<>>, pending |-> <<>>, scopes |-> (<<1>> :> <<>>),
                reported |-> FALSE, crashed |-> FALSE, status |-> Done]
    /\ programs = <<>>
    /\ outcome = "none"
    /\ emitted = <<>>

-----------------------------------------------------------------------------
(* Checking a statement in a world w, whose `status` is what was returned.  *)

\* discover_variable: a name has one place in a scope.
Declare(w, l) ==
    LET scope == Front(l)
        name == Stmt(l).name
    IN IF name \in DOMAIN w.scopes[scope]
       THEN [w EXCEPT !.reported = TRUE, !.status = Failed]
       ELSE [w EXCEPT !.scopes[scope] = (name :> l) @@ @,
                      !.state = (l :> "Unresolved") @@ @,
                      !.pending = (l :> <<>>) @@ @,
                      !.status = Done]

\* eagerly_lookup_symbol: this scope and those it is in.
RECURSIVE Lookup(_, _, _)
Lookup(scopes, scope, name) ==
    IF name \in DOMAIN scopes[scope] THEN scopes[scope][name]
    ELSE IF Len(scope) = 1 THEN <<>> ELSE Lookup(scopes, Front(scope), name)

\* check_member_access: the members of a namespace are looked up, never waited
\* for, and their types copied.
RECURSIVE Member(_, _, _)
Member(w, l, names) ==
    IF names = <<>> THEN "type"
    ELSE IF Stmt(l).kind # "ns" THEN "error"
    ELSE IF Head(names) \notin DOMAIN w.scopes[l] THEN "error"
    ELSE IF w.state[w.scopes[l][Head(names)]] # "Resolved" THEN "assert"
    ELSE Member(w, w.scopes[l][Head(names)], Tail(names))

\* check_identifier for the first name of a reference.
Yields(w, scope, ref) ==
    IF ref = <<>> THEN "type"
    ELSE LET l == Lookup(w.scopes, scope, Head(ref)) IN
         IF l = <<>> THEN "error"
         ELSE CASE w.state[l] = "Unresolved" -> "wait"
                [] w.state[l] = "Resolving"  -> "error"
                [] w.state[l] = "Failed"     -> "assert"
                [] w.state[l] = "Resolved"   -> Member(w, l, Tail(ref))

\* Fault: nobody is told of a name that is not there.
FailQuietly(w, l) == [w EXCEPT !.state[l] = "Failed", !.status = Failed]

\* register_worker, when the check of l is suspended.
Park(w, l) == [w EXCEPT !.pending[w.status.on] = Append(@, l)]

Fail(w, l) == [w EXCEPT !.state[l] = "Failed", !.reported = TRUE, !.status = Failed]

RECURSIVE DeclareAll(_, _, _)
DeclareAll(w, l, n) ==
    IF n > Len(Stmt(l).body) \/ w.status.kind = "Failed" THEN w
    ELSE DeclareAll(Declare(w, Append(l, n)), l, n + 1)

RECURSIVE CheckStatement(_, _), CheckMembers(_, _, _), WakeUp(_, _, _)

\* check_statement and check_variable.  A namespace is Resolved before its members
\* are, and nobody is woken: the early return makes its resumption do nothing.
CheckStatement(w, l) ==
    IF Stmt(l).kind = "use" \/ w.state[l] = "Resolved" THEN [w EXCEPT !.status = Done]
    ELSE IF Stmt(l).kind = "ns"
    THEN CheckMembers(DeclareAll([w EXCEPT !.scopes = (l :> <<>>) @@ @, !.state[l] = "Resolved",
                                           !.status = Done], l, 1), l, 1)
    ELSE LET ref == Stmt(l).ref
             yields == Yields([w EXCEPT !.state[l] = "Resolving"], Front(l), ref)
         IN CASE yields = "wait"   ->
                   [w EXCEPT !.status = PendingOn(Lookup(w.scopes, Front(l), Head(ref)))]
              [] yields = "error"  -> Fail(w, l)
              [] yields = "assert" -> [w EXCEPT !.crashed = TRUE]
              [] yields = "type"   ->
                   [WakeUp([w EXCEPT !.state[l] = "Resolved"], l, 1) EXCEPT !.status = Done]

\* Fault: a namespace leaves the parking of its members to its caller.
MembersUnparked(w, l, n) ==
    IF n > Len(Stmt(l).body) \/ w.status.kind = "Failed" THEN w
    ELSE CheckMembers(CheckStatement(w, Append(l, n)), l, n + 1)

\* The loop of check_namespace_definition: it ends at the first member that fails,
\* parks those that wait, and returns the status of the last one.
CheckMembers(w, l, n) ==
    IF n > Len(Stmt(l).body) \/ w.status.kind = "Failed" THEN w
    ELSE LET m == Append(l, n)
             checked == CheckStatement(w, m)
         IN CheckMembers(IF checked.status.kind = "Pending" THEN Park(checked, m) ELSE checked,
                         l, n + 1)

\* wake_up_workers, and the same loop in semactx_resolve: the index moves on after
\* a worker was removed.
WakeUp(w, l, n) ==
    IF n > Len(w.pending[l]) THEN w
    ELSE LET woken == CheckStatement(w, w.pending[l][n])
         IN WakeUp(IF woken.status.kind = "Pending" THEN woken
                   ELSE [woken EXCEPT !.pending[l] = RemoveAt(@, n)], l, n + 1)

-----------------------------------------------------------------------------
(* semactx_resolve: discovery.                                              *)

Top == Head(calls)
Here == <<Top.source, Top.at>>
Running(stage) == outcome = "none" /\ Top.stage = stage
More == Top.at <= Len(Text(Top.source))

\* The activation on top goes on after the statement it is at.
Advance(good) == [calls EXCEPT ![1].at = @ + 1, ![1].good = @ /\ good]

Discovering(kinds) == Running("discover") /\ More /\ Stmt(Here).kind \in kinds

DiscoverDeclaration ==
    /\ Discovering({"var", "ns"})
    /\ world' = Declare(world, Here)
    /\ calls' = Advance(world'.status = Done)
    /\ UNCHANGED <<program, sources, programs, outcome, emitted>>

\* discover_expression
RefuseExpression ==
    /\ Discovering({"expr"})
    /\ world' = [world EXCEPT !.reported = TRUE]
    /\ calls' = Advance(FALSE)
    /\ UNCHANGED <<program, sources, programs, outcome, emitted>>

\* sourcemgr_find_source_id_at_path: a canonical path against the paths given.
Known(path) == {s \in DOMAIN sources : sources[s].path = path}
Path == Stmt(Here).name

\* A file that names itself is not checked, and nobody is told.
UseOwn ==
    /\ Discovering({"use"})
    /\ Top.source \in Known(Path)
    /\ calls' = Advance(FALSE)
    /\ UNCHANGED <<program, sources, world, programs, outcome, emitted>>

KnownElsewhere == Known(Path) # {} /\ Top.source \notin Known(Path)

\* A file this context has opened: its program is found at this place too.
UseLoaded ==
    /\ Discovering({"use"})
    /\ KnownElsewhere
    /\ Path \in DOMAIN Top.loaded
    /\ programs' = (Here :> programs[Top.loaded[Path]]) @@ programs
    /\ calls' = Advance(TRUE)
    /\ UNCHANGED <<program, sources, world, outcome, emitted>>

\* A file that another context has opened is not among those this one has loaded.
UseLost ==
    /\ Discovering({"use"})
    /\ KnownElsewhere
    /\ Path \notin DOMAIN Top.loaded
    /\ outcome' = "null"
    /\ UNCHANGED <<program, sources, calls, world, programs, emitted>>

\* Fault: the file is loaded into the new context and not into this one.
OpenedBehind(source) ==
    <<[Call(source) EXCEPT !.loaded = (Path :> Here)]>> \o calls

\* loaded_programs of this context, and a context for the file.
Opened(source) ==
    <<Call(source)>> \o [calls EXCEPT ![1].loaded = (Path :> Here) @@ @]

\* sourcemgr_open_file asserts that it has read the file.
UseUnreadable ==
    /\ Discovering({"use"})
    /\ Path \notin DOMAIN program.text
    /\ outcome' = "assert_read"
    /\ UNCHANGED <<program, sources, calls, world, programs, emitted>>

UseOpens ==
    /\ Discovering({"use"})
    /\ Known(Path) = {}
    /\ Path \in DOMAIN program.text
    /\ LET source == Len(sources) + 1 IN
       /\ sources' = Append(sources, [path |-> Path, file |-> Path])
       /\ programs' = (Here :> source) @@ programs
       /\ calls' = Opened(source)
       /\ world' = [world EXCEPT !.scopes = (<<source>> :> <<>>) @@ @]
    /\ UNCHANGED <<program, outcome, emitted>>

\* Nothing is checked after anything could not be discovered.
DiscoveryEnds ==
    /\ Running("discover")
    /\ ~More
    /\ calls' = [calls EXCEPT ![1].stage = IF Top.good THEN "check" ELSE "return", ![1].at = 1]
    /\ UNCHANGED <<program, sources, world, programs, outcome, emitted>>

-----------------------------------------------------------------------------
(* semactx_resolve: checking and draining.                                  *)

\* A MINI_ASSERT stops the compiler.
Stopped(w) == IF w.crashed THEN "assert_type" ELSE "none"

CheckNext ==
    /\ Running("check")
    /\ More
    /\ LET checked == CheckStatement(world, Here) IN
       world' = IF checked.status.kind = "Pending" THEN Park(checked, Here) ELSE checked
    /\ outcome' = Stopped(world')
    /\ calls' = Advance(TRUE)
    /\ UNCHANGED <<program, sources, programs, emitted>>

Entries == {l \in DOMAIN world.pending : world.pending[l] # <<>>}

\* The draining loop goes over the table as long as there are entries in it.
BeginPass ==
    /\ \/ Running("check") /\ ~More
       \/ Running("drain") /\ Top.left = {}
    /\ calls' = [calls EXCEPT ![1].left = Entries,
                              ![1].stage = IF Entries = {} THEN "return" ELSE "drain"]
    /\ UNCHANGED <<program, sources, world, programs, outcome, emitted>>

\* One entry, in the order of a hash table.  The workers of a failed symbol are
\* dropped with its entry.
DrainEntry(l) ==
    /\ Running("drain")
    /\ l \in Top.left
    /\ calls' = [calls EXCEPT ![1].left = @ \ {l}]
    /\ world' = CASE world.state[l] = "Resolved" -> WakeUp(world, l, 1)
                  [] world.state[l] = "Failed"   -> [world EXCEPT !.pending[l] = <<>>]
                  [] OTHER                       -> world
    /\ outcome' = Stopped(world')
    /\ UNCHANGED <<program, sources, programs, emitted>>

\* Fault: what the file has imported itself is not passed on.
ArrivingOwn(ours, theirs) ==
    {n \in DOMAIN theirs : n \notin DOMAIN ours /\ theirs[n][1] = Top.source}

\* The names of the file its importer has not.
Arriving(ours, theirs) == DOMAIN theirs \ DOMAIN ours

\* Back in discover_use_expr: its names are put among those of its importer, up to
\* the first that is there already, in the order of a hash table.
Return ==
    /\ Running("return")
    /\ Len(calls) > 1
    /\ LET ours == world.scopes[<<calls[2].source>>]
           theirs == world.scopes[<<Top.source>>]
           conflict == DOMAIN ours \cap DOMAIN theirs # {}
           arriving == Arriving(ours, theirs)
       IN \E put \in IF conflict THEN SUBSET arriving ELSE {arriving} :
            /\ world' = [world EXCEPT !.scopes[<<calls[2].source>>] = @ @@ [n \in put |-> theirs[n]],
                                      !.reported = @ \/ conflict]
            /\ calls' = [Tail(calls) EXCEPT ![1].at = @ + 1, ![1].good = @ /\ ~conflict]
    /\ UNCHANGED <<program, sources, programs, outcome, emitted>>

-----------------------------------------------------------------------------
(* main: the gate, and the conversion to HIR.                               *)

Kinds(body, kinds) == SelectSeq([n \in DOMAIN body |-> n], LAMBDA n : body[n].kind \in kinds)

\* convert_namespace: a group of the statements in it.
RECURSIVE Definitions(_)
Definitions(l) ==
    <<l>> \o FlattenSeq([n \in DOMAIN Stmt(l).body |-> Definitions(Append(l, n))])

Nothing == <<0>>

\* Fault: of the files that are used only their own definitions are converted.
ProgramFlat(source) ==
    LET uses == Kinds(Text(source), {"use"})
        own(s) == FlattenSeq([n \in DOMAIN Kinds(Text(s), {"var", "ns"}) |->
                                 Definitions(<<s, Kinds(Text(s), {"var", "ns"})[n]>>)])
    IN FlattenSeq([n \in DOMAIN uses |->
                     IF <<source, uses[n]>> \in DOMAIN programs
                     THEN own(programs[<<source, uses[n]>>]) ELSE <<Nothing>>])
       \o own(source)

\* program_from_raw: what a file uses, file by file, and then its own definitions;
\* a #use that has no program is a null pointer.
RECURSIVE ProgramFromRaw(_)
ProgramFromRaw(source) ==
    LET text == Text(source)
        uses == Kinds(text, {"use"})
        places == Kinds(text, {"var", "ns"})
    IN FlattenSeq([n \in DOMAIN uses |->
                     IF <<source, uses[n]>> \in DOMAIN programs
                     THEN ProgramFromRaw(programs[<<source, uses[n]>>]) ELSE <<Nothing>>])
       \o FlattenSeq([n \in DOMAIN places |-> Definitions(<<source, places[n]>>)])

Finish ==
    /\ Running("return")
    /\ Len(calls) = 1
    /\ IF world.reported
       THEN outcome' = "errors" /\ UNCHANGED emitted
       ELSE /\ emitted' = ProgramFromRaw(1)
            /\ outcome' = IF Nothing \in ToSet(emitted') THEN "null" ELSE "converted"
    /\ UNCHANGED <<program, sources, calls, world, programs>>

Next ==
    \/ DiscoverDeclaration \/ RefuseExpression
    \/ UseOwn \/ UseLoaded \/ UseLost \/ UseUnreadable \/ UseOpens
    \/ DiscoveryEnds \/ CheckNext \/ BeginPass
    \/ \E l \in Top.left : DrainEntry(l)
    \/ Return \/ Finish

\* The compiler is one thread that runs on until it ends: weak fairness of Next, a
\* step of which is possible as long as there is no outcome.
RunsOn == []<><<Next>>_vars \/ <>[](outcome # "none")

Spec == Init /\ [][Next]_vars /\ RunsOn

-----------------------------------------------------------------------------
(* What holds of it.                                                        *)

UsesOf(s) == {p \in DOMAIN programs : p[1] = s}
Used(s) == {programs[p] : p \in UsesOf(s)}

\* The files a file is made of: itself and those it uses, directly or not.
RECURSIVE Within(_)
Within(s) == {s} \cup UNION {Within(t) : t \in Used(s)}

Symbols == DOMAIN world.state
Open == {l \in Symbols : world.state[l] = "Unresolved"}

\* What is converted to HIR was checked to its end: every declaration of every file
\* that was opened, also those in namespaces, is Resolved and is among what is
\* converted, once unless some file names a file twice (deflated_programs is
\* written and never read), and the definitions of a file come behind those of
\* the files it uses.
ConvertedWhole ==
    outcome = "converted" =>
        /\ Symbols = ToSet(emitted)
        /\ \A l \in Symbols : world.state[l] = "Resolved"
        /\ \/ IsInjective(emitted)
           \/ \E p, q \in DOMAIN programs : p # q /\ programs[p] = programs[q]
        /\ \A i \in DOMAIN emitted : \A t \in Used(emitted[i][1]) :
              \A l \in Symbols : l[1] = t => \E j \in 1 .. i - 1 : emitted[j] = l

\* A file that names itself, and one that is named by two; the call of the compiler
\* names the first.
UsesItself(s) == \E n \in DOMAIN Text(s) : Text(s)[n].kind = "use" /\ Text(s)[n].name = sources[s].path

NamedBy(path) ==
    {s \in DOMAIN sources : \E n \in DOMAIN Text(s) : Text(s)[n].kind = "use" /\ Text(s)[n].name = path}
SharedFile ==
    \E path \in {sources[s].path : s \in DOMAIN sources} :
        Cardinality(NamedBy(path)) + (IF path = program.argv THEN 1 ELSE 0) > 1

\* When a file is checked every name it can see is there and means one thing: its
\* own declarations and those of all the files it is made of, none left out and
\* none of any other file (discover_use_expr merges scopes file by file, from
\* inside the discovery of the importer).
NamesArrive ==
    (outcome = "none" /\ ~world.reported) =>
        \A s \in DOMAIN sources :
            LET scope == world.scopes[<<s>>] IN
            (\A c \in DOMAIN calls : calls[c].source = s => calls[c].stage # "discover") =>
                /\ Range(scope) = {l \in Symbols : Len(l) = 2 /\ l[1] \in Within(s)}
                /\ \A name \in DOMAIN scope : Stmt(scope[name]).name = name

\* A statement whose check did not end waits in the table, every member of a
\* namespace by itself, until an error is reported: semactx_resolve and
\* check_namespace_definition both park, and the caller of the latter parks the
\* namespace once more.  Set apart are the importers, which are still discovering,
\* and files that name themselves, which are never checked.
EveryCheckIsParked ==
    (outcome = "none" /\ ~world.reported /\ Top.stage # "discover") =>
        \A l \in Open :
            \/ \E c \in 2 .. Len(calls) : calls[c].source = l[1]
            \/ UsesItself(l[1])
            \/ Top.stage = "check" /\ l[1] = Top.source /\ l[2] >= Top.at
            \/ \E k \in Entries : l \in ToSet(world.pending[k])

\* The compiler reads no null pointer but for a file that is named twice, by two
\* files or by its importer and itself, and asks for no type that is not there but, without an error before,
\* for a member of a namespace that is still open (check_member_access does not wait).
OnlyKnownCrashes ==
    /\ outcome = "null" => SharedFile
    /\ outcome = "assert_type" =>
          world.reported \/ \E l \in Open : Stmt(l).kind = "var" /\ Len(Stmt(l).ref) > 1

\* Open declarations that wait for one another.
Awaited(l) ==
    IF Stmt(l).kind = "var" /\ Stmt(l).ref # <<>>
    THEN Lookup(world.scopes, Front(l), Head(Stmt(l).ref)) ELSE <<>>
Circular == \E ring \in SUBSET Open \ {{}} : \A l \in ring : Awaited(l) \in ring

\* Every program is converted, refused or stops the compiler, or an error is
\* reported: without one the draining loop ends, for every order of the files,
\* the declarations and the table.  It does not when initializers name each other,
\* and when a file names itself and is waited for.
EndsOrReports ==
    <>(outcome # "none" \/ world.reported \/ Circular \/ \E s \in DOMAIN sources : UsesItself(s))
=============================================================================
