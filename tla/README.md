# A TLA+ model of the jeni compiler

jeni is a compiler for a small language: a lexer and a parser build a syntax
tree, a semantic checker resolves its names and types, and the result is lowered
through two intermediate forms to C.  It is one sequential C++ program.  What is
hard in it is the checker: declarations may be used before they are written, so
a check is *suspended* on a symbol that is not resolved yet, parked as a *worker*
in a table, and resumed from inside the check that resolves the symbol.  Those
wake-ups nest, edit the lists they iterate over and re-enter checks half way.
The project starts there and works outwards.

Source paths below are relative to `src/src/`.

## 1. The system

| component | state | operations | what makes it correct |
|---|---|---|---|
| semantic scheduler (`semantics/sema.cc`, `sema.h`, `worker.*`) | `pending_workers`, `block_save_points`, `current_scope` | `semactx_resolve`, `register_worker`, `wake_up_workers`, `Worker::resume` | no suspended check is forgotten, or resumed twice; success means everything was checked; the loops end |
| declaration checks (`checks/check_stmt.cc`, `check_struct_decl.cc`, `check_function_definition.cc`) | `Symbol_State` of each symbol, types linked to loci | discover, check, suspend, fail, resolve | a symbol settles once, after what it needs; a cycle reported is one |
| blocks and statements (`checks/check_block.cc`, `check_if_stmt.cc`, ...) | save points, scopes | check from the save point on | a resumed block sees the locals it declared |
| expressions (`checks/check_expr.cc`, ...) | links locus -> type, locus -> symbol | check, yield a type | a type is known when it is asked for |
| namespaces (`checks/check_namespace_definition.cc`) | save point, `current_namespace` | discover and check definitions, park each | every definition is checked once |
| imports, sources (`checks/check_use.cc`, `source.cc`) | loaded programs, open files, one context per file | open, parse, `semactx_resolve` again, merge scopes | a file is loaded once; cycles and diamonds are met |
| scopes, symbols (`semantics/impl.cc`, `entities/`) | scope tree, symbol table | enter, leave, register, look up | a name has one symbol per scope |
| types (`type/`, `entities/type.h`) | interned types | register, compare, coerce | equal types have one id |
| containers (`misc/`) | buckets, nodes, dense values | find, insert, erase, iterate, rehash | they are finite maps, also while iterated over |
| lexer, token buffer, parser (`parser/`) | cursor, window of tokens, state stack | peek, advance, expect, recover | tokens are seen in order, none twice; recovery stops at a statement |
| diagnostics, driver (`diagnostic.cc`, `main.cc`) | counted pool with limits | report, gate the next phase | nothing is generated for a program with errors |
| HIR, LIR (`hir/`, `lir/`) | trees, instruction lists, loop points, labels | convert, lower | jumps mean what the statements meant |
| compile-time evaluation (`compeval/`) | stack machine | compile, run | the value is that of the expression |
| C backend (`codegen/`) | output text | print | text output |

They interact by calls only.  `main` runs lexer, parser, checker, HIR, LIR and
backend one after the other and looks at the diagnostic pool between them; the
checker calls itself through workers and, for `use`, through a nested
`semactx_resolve` with a context and a scope of its own.

There are no threads, no I/O beyond reading the sources and writing one output
file, and nothing is persisted: the hazards are those of re-entrancy, of order,
of partial failure and of stale indices.  `PROJECT.json` lists them line by line.

## 2. What is modelled

### `Workers` - the scheduler and the checks it runs

A program is a function from positions to declarations.  A declaration has a
kind, a `head` (the names met before its symbol is resolved: the initialiser of a
variable, the field types of a struct, the prototype of a function), a `body` (the
statements of a function; nothing else has one), and two flags for errors of its own: its name is taken, or its
initialiser does not coerce.  (A struct has none: `field_names`, in which `check_struct_decl.cc:41` looks for
a field of the same name, is never filled.)  The program is
chosen in `Init` and never changes: one run ranges over a family of programs.

| model | code |
|---|---|
| `state[d]` | `Symbol::state` of the symbol declaration `d` defines |
| `linked` | the declarations whose locus is linked to a type |
| `pending[d]` | `pending_workers[d]`; the empty list stands for "no entry" |
| `stack`, `ret` | the C++ call stack and the `Worker_Status` being returned |
| `save[d]`, `home[d]` | the save point of the body of `d`; the scope its local is in |
| `phase`, `next` | where `semactx_resolve` is |
| `reported` | whether an Error was reported |
| `checked`, `cycles` | history: bodies checked to their end; cycles reported |

Every action is one stretch of code between two points where another check can
run: `CheckNext` enters `check_variable` (with its early return for a resolved
symbol), `HeadStep`, `HeadWaits`, `HeadFails`, `HeadResolves` go through its names,
`ResumeNext`, `Resumed` and `LoopEnds` are the loop of `wake_up_workers` (and its copy
in `semactx_resolve`), `BodyStep` ... `BodyEnds` are `check_block`, `DrainEntry`
is one round of the draining loop over one entry.  An assertion that fails, and a
`MINI_UNREACHABLE`, end the run in a phase of its own (`Abort`).

Decisions that a reader of the code may want to argue about:

* The draining loop iterates over a hash table while the checks it resumes insert
  and erase entries.  The model meets the entries in any order, any number of
  times.  `for (auto [id, workers, x] : ...)` copies the node; `mini::Array` is a
  trivially copyable handle on shared storage (it is kept in unions that are
  copied), so the copy and the entry are one list, and nobody registers a worker
  on a symbol that is resolved, so the list does not move.
* `Worker_Status::working_scope` is not copied by its copy and move operations and
  survives where the return is elided, which depends on the function and the
  build.  `KeepsScope` gives the possible answers at every registration; the
  safety runs allow both.
* A name of a struct or function used where a type is expected is a struct; the
  programs of the runs respect that, the model does not rely on it.
* `mini.c` and `mini.cc` are outside the repository: growing arrays and
  `remove(n)` are modelled by what their callers rely on.

### `Resolution` - what the checker promises

Declarations are open, resolved or failed; one is resolved once, after everything
it needs has settled; a failure is reported; success means all are resolved.  There is no
worker, wake-up or stack in it.  `Workers!Contract` instantiates it with the
refinement mapping (`Unresolved` and `Resolving` are open), and `MeetsContract`
says every behaviour of `Workers` is one of it.

### `HashMap` and `AbstractMap` - the table under everything

`HashMap` is `misc/map.h`: chains of nodes by bucket, `find`, `emplace`,
`operator[]`, `erase`, `clear`, the growth in `check_and_rehash` and `rehash` (before it is
known whether the key is new, and reversing chains), a move that leaves the null array
behind, a copy that inserts every node anew, and one range-based `for` over the table
whose body looks up, inserts and erases.  That loop is `semactx_resolve` going
through `pending_workers` (`semantics/sema.cc:73`) while the checks it resumes park workers and
the loop erases the entry it stands on.  A node is known by its key.  Memory is
modelled in one place only: `++` on an erased node reads the `next` it had (the
allocator leaves it), and the body does nothing after the erase.

`AbstractMap` is a finite map with answers and a loop that ends when everything that
was there at its start, and is still there, has been shown.  `ImplementsMap` is the
refinement.  `buckets`, `capacity` and the order of chains do not exist in it.

A loop during which the table grows cannot be saved: `end()` was made with the old capacity,
so the iterator that runs off the new table never equals it and a null node
is dereferenced (`Lose`).  With 16 buckets that takes a write while twelve entries are there, during one pass of the draining
loop.  `OnlyGrowthBreaksLoops` says that nothing else breaks it; `Workers` does not model this
crash.

### `TokenBuffer` and `TokenStream` - how the parser gets its tokens

A text is its tokens and whether white space (or a comment) follows the last of them:
the lexer says that it is done with the last token, or only after one more call.

| model | code |
|---|---|
| `p.tokens`, `p.cursor` | `TokenBuffer::tokens`, `cursor` |
| `p.lexed` | how far the lexer's offset is, in tokens |
| `p.current`, `p.previous` | the fields of `Parser` |
| `p.outside` | history: a token was read that is not in the buffer |
| `skip` | the arguments of `skip_until_one_of` while its loop runs |

`Prepared`, `Peeked` and `Moved` are `tokenbuffer_prepare`, `tokenbuffer_peek` and
`parser::next`; the latter two give sets of outcomes, for a read outside the buffer may return
anything.  The actions are the helpers of `parser_impl.h` (`Look` is `equals_sequence`; `eat_name` is
`Expect` of an identifier); a parse function is any sequence of them.  One round of
`skip_until_one_of` is one action: with `skip_past = false` finding the kind does not stop it, so
that such a recovery runs to the end of the text.

`TokenStream` has neither buffer nor window: the next token, a look two ahead, and the end of file for
ever.  It names the one exception: `CutShort` texts, which end without white space with
the last token of a full buffer (20, 60, 180, ... tokens), have no end of file, and
repeat their last token.

### `Tree`, `Lowering`, `Meaning`, `Machine`, `Compiled` - the back half of the compiler

| module | what it is |
|---|---|
| `Tree` | the checked syntax tree: `ast/`, each identifier replaced by its symbol |
| `Lowering` | `hir/` and `lir/`: the conversion to HIR and the lowering to instructions |
| `Machine` | the emitted C running: what `codegen/backends/c.cc` prints for each instruction, one action per instruction |
| `Meaning` | what a tree means, evaluated without the compiler; nothing of it is taken from the code |
| `Compiled` | the comparison |

In the LIR only a store, a call, a member pointer and a jump are instructions; every other value
is an expression that is printed where it is used.  The value store gives equal values one
index, so in the model a value is its own index.  `local_i` is a pointer that its Alloca sets:
`Machine` keeps which locals an activation has set, because gotos pass over Allocas.

The code does not keep what it should for every program, and `Orderly` says exactly for
which it does.  Set apart are programs

* in which an expression reads a variable and a later part of the same expression writes it
  (`lir/lower_expression.cc:56`; narrowing casts, which the conversion drops, are set apart with them);
* with a loop whose condition mixes a call, or a member reached through a pointer, with something that changes: it is lowered once, before
  the label (`lir/lower_statement.cc:112`);
* whose globals are not written in the order they need each other (`codegen/backends/c.cc:136`);
* in which a local has the emitted name of a global or a function (`lir/lower_expression.cc:86`).

Each of these conditions is needed: when one is dropped from `Orderly`, the run finds a program of the
family that does something else than it says, or never ends.  A program in which a nested function
names a variable of the function around it is not in the family: the lowering looks for it among the globals,
and the C that is emitted does not compile.

### `Syntax` and `Parser` - from words to trees and back

`Parser` is the recursive descent of `parser/parsers/`, the recovery, the diagnostic pool with its limit, and
main's loop and gate; the buffer below it is the subject of `TokenBuffer`.  A parsing operator
takes the parser and returns it with the tree; the error expression and the null pointer of a statement or a function that failed are
trees of their own.  Where the code reads a member of what it got, its `locus` or its `kind`, without asking whether it is null,
`Deref` ends the compiler: `*func() #use` crashes at `parse_expressions.cc:266`, after the error of the function was told.  `Syntax` writes a tree with as few parentheses as the language
needs; that writer knows the grammar and not the parser, and is what the parser is measured by.

What the parser passes over without a word is excepted by name (`PassedOver`): a namespace whose `{` is
missing (`parse_namespace.cc:20`), and `int8`, `int16`, `int32`, which fall through to `char`
(`parse_typehint.cc:72`).  `usize`, `isize` and type hints that begin with `const` abort.  `parser_impl.h:77` reports a
missing token through `diagpool_report`, which does not count it, so that main prints it and goes on to the semantic pass.

### `TypeTable`, `Types` and `TypesMeaning` - the table of types and the check of expressions

`TypeTable` is the table of types with `register_or_get_type` and the equality that decides on identity.
`Types` checks a text statement by statement with one such table, coercion, and the context that is
handed down to literals.  Waiting is
left to `Workers`: what a statement names is declared above it.  `TypesMeaning` gives each
declaration its type without a table, and says what a C compiler makes of the emitted expressions.
The texts (`Programs`), the expressions and typehints that may occur in them, a `Height` for each and the bound `Depth` are constants:
a check goes from an expression to lower ones, which is what makes the recursive
functions `CheckTree`, `ResolveTree` and `Parts` functions, and a parser can only build such trees.

The properties name what the code does differently:

* all arrays are one type, and a parameter list is compared with the beginning of a longer one (`entities/type.h:103`): the
  first of them to be written gives its layout to both;
* a sum or comparison has the type of its right operand (`check_binary_op.cc:97`); with it go the other two ways in which an
  expression is emitted as another type than the one that was checked (`Misread`): an assignment is emitted as the value that is
  assigned, of which the kind was enough, and a cast as what is cast;
* one kind is enough to be coerced (`coercer.cc:22`); conditions, variadic arguments, writes
  through `*const` and the members of a struct are not checked (`KnownGap` lists each with its line);
* a literal takes the type expected of the whole expression, also as an index: `x : int64 = p[0]` is refused (`check_expr.cc:45`);
* one argument too many for a function that is not variadic reads a null pointer (`check_function_call.cc:127`), and a
  constant with an initializer aborts (`check_stmt.cc:190`).

### `Units` - files and namespaces, from the first file to the conversion

| model | code |
|---|---|
| `sources` | the `SourceManager`: open files by the path they were opened with |
| `calls` | the activations of `semactx_resolve`, one inside the discovery of the other |
| `world` | symbols and their states, scopes, the workers of the innermost context |
| `programs` | `Semantic_Storage::programs`: the place of a `#use` and the file it stands for |
| `outcome`, `emitted` | what main does then, and the declarations of the HIR program |

A locus is a sequence: source, statement, member of it, and so on; what it lies in is its
scope.  The check of one statement with all that it wakes is one step (`Workers` has the steps of a
wake-up); what interleaves are contexts and draining loops.  One table of workers is enough:
a context checks nothing while it discovers, and its table is empty when it returns.

Set apart, each because the run fails without it: initializers that name each other, a file that names
itself, a file that is named twice, and members of a namespace that still wait.  What the code does with
them, found while modelling:

* a file that names itself returns false without a diagnostic (`check_use.cc:17`): it is never checked, the gate of main stays open, and the
  conversion reads a null pointer (`hir/convert.cc:23`);
* a file that a second file names is looked up in the wrong table (`check_use.cc:19`); so every diamond, and every cycle of files, ends the
  compiler;
* a root file given by a relative path is opened again when it is imported (`source.cc:48`);
* a file named twice by one file is converted twice (`hir/convert.cc:28`; `deflated_programs` is never read);
* `n :: ns { x := y; }  z := n.x;  y := 1;` fails an assertion (`check_member_access.cc:53`), where a
  plain name would wait;
* a member that fails leaves the members behind it unresolved, and who waits for them makes the draining
  loop spin (`check_namespace_definition.cc:68`).

### Runs

| run | instance | what it shows |
|---|---|---|
| `workers_safety` | N = 3, `SafetyProgram`, both fates of the scope | the invariants, `SettledStaysSettled` and `MeetsContract` |
| `workers_live` | N = 4, `CompletingProgram`, scope kept | `Completes` |
| `cycle_is_real` | as `workers_safety` | violated: a struct left in Resolving |
| `symbol_is_found` | N = 3, `LatePrototype`, scope lost | violated: a body checked as a resumption |
| `type_is_found` | as `workers_safety` | violated: a failed variable used again |
| `hash_map` | 3 keys in one bucket of 4, one leaves when the table grows | a finite map, also during a loop that changes it |
| `token_buffer` | first window 2 (brims 4 and 12), all texts of up to 3 tokens and patterns around the brims | the parser sees the stream; recovery ends |
| `end_is_eof` | as `token_buffer` | violated: a text cut short |
| `compiled` | 246 programs around two helpers, `Fuel` = 30 | `Faithful`, `LocalsDeclared`, `LoopsOnlyStopEarly`, `Terminates` |
| `parser` | all texts of up to 5 words between fixed ends over eleven alphabets; some 3000 statements written and read back; `ErrorLimit` = 2 | `RoundTrip`, `NothingLostSilently`, `Progresses` |
| `types` | three declarations in any order, and every expression of a few shapes over 17 names, sums and assignments of pointers, rows and structs among them, as initializer, statement, condition and result | `NamesKeepTheirType`, `AcceptedCompiles`, `KeepsItsWidth`, `ContextIsHarmless`, `EndsWithAVerdict` |
| `units` | 13 560 programs of up to three files, or with nested namespaces | `ConvertedWhole`, `NamesArrive`, `EveryCheckIsParked`, `OnlyKnownCrashes`, `EndsOrReports` |

*Bounds.*  Three declarations are enough for a check that waits while a second one
that waits for it is resumed inside a third, for two workers on one symbol (the
skipped index of `workers.remove(n)`), and for a suspended body with a suspended
prototype; `SafetyProgram` unites three families (all kinds with short heads and
bodies; two-statement bodies with locals; duplicates, constants and structs with a
field of unknown type).  `LatePrototype` has functions that are suspended in their prototype and nowhere else.  The live run has four so that three workers meet on one symbol and
the one skipped must be found again.  Heads have at most one name; a second
name would be suspended on after the first in the same way.

Three keys with hashes 0, 0 and 4 make a chain of three, which is split at 8 buckets
and joined by nothing: growth, erasing at the head, inside and at the tail of a chain,
and a null array that grows to 16 all happen.  A first window of 2 stands for the 10
of the code: texts of 11, 12 and 13 tokens end before, with and behind the second brim.
`CursorLimit` bounds the calls of `next`, above the longest text.

The bodies of `compiled` are small on purpose, but combine what the lowering can confuse: a
loop left from inside another's `if`, a name hidden in a branch that is jumped over, calls and
pointers in conditions, a value read before and after a call that changes it.  `Fuel` bounds
rounds and calls in `Meaning` and picks the programs whose source ends.  A char has three bits
(`CharHalf`) so that a narrowing shows.

A family of `parser` is fixed words around every sequence of a part of the grammar, so that each level of operators, each
optional part and each recovery meets every word that can follow it.  Two of them end with a function that fails behind its parameters, so
that its null pointer reaches everything that can hold an expression.  With `ErrorLimit` 2 the first
error is counted, the second reaches the limit and a third is dropped.

In `types` three declarations suffice for two layouts that share an identity and a
third that reads it; expressions of depth three - an access through a sum or an assignment of what was reached
through another - suffice because a check hands down one context and hands up one type, and C sees of an operand only its type.
That is some thirty-five thousand programs.  In `units` three files are the fewest for a diamond and for a name
passed on by a file that does not use it.

*Fairness.*  The program is one thread that runs on: weak fairness of every step
of it.  The draining loop passes over the whole table again and again, so an
entry that is there again and again is met: strong fairness of `DrainEntry(d)`.
`Machine` assumes `WF_vars(Next)`: the emitted program is one thread too.  `Units` states the same as
`RunsOn`, written out: steps go on for ever unless there is an outcome; a step is possible as long as there is none.  A pass of its
draining loop meets every entry once, in any order (`left`), so no strong fairness is
needed.

*`Completes`* is stated for well-formed programs: after an error the loop can
spin (`semantics/sema.cc:73`, when a worker waits for a symbol whose own worker was
erased with a failed one), and `x := y; y := x;` spins without any error.  Both are
in the model's behaviours and excluded by `WellFormed`, not by the fairness.  `workers_live` keeps
the scope: where it is lost, a body resumed in the Function scope does not find the local it declared in its
Block, and `Completes` fails.  `EndsOrReports` is the
like for several files and namespaces, well-formed or not: without a report the compiler ends, but for the two cases it names.

*`SkippingEnds`* assumes weak fairness of the loop of `skip_until_one_of`, which runs on
until it ends.

`Types` and `Compiled` stop when the text or the program ends, and `Units` when there is an
outcome: their configurations do not ask for deadlocks.

### What the runs found

* `CycleIsReal` - `check_struct_decl` leaves its symbol in Resolving when it is
  suspended or fails; the next use is told of a dependency cycle that does not exist.
* `SymbolIsFound` - a function resumed after its prototype hands the resumption flag
  to its body, whose first local is then looked up instead of declared.  The run has the scope lost,
  the fate in which the function gets that far: with the scope kept, the prototype is resumed in the Function scope it left
  and trips the same assertion before (`check_stmt.cc:87`).
* `TypeIsFound` - naming a variable whose check failed trips an assertion.
* `EndIsEof` - a text cut short shows its last token instead of the end of file, so that
  a `}` that is missing behind a last `}` is not reported.

What the other modules found is listed with them above: there it is part of the premise of a
property that holds, which says that there is nothing else of its kind.

## 3. What is proved

`WorkersProofs` proves with TLAPS, for every `N`, every set of programs and every
`KeepsScope`:

* `TypeCorrect`: `Spec => []TypeOK`
* `ResolvingIsRunningTheorem`, `TypesKnownTheorem`, `LoopsKeepTheirPlaceTheorem`,
  `OnlySelfCyclesTheorem`: the invariants of those names.

None of these is inductive.  The inductive invariant is
`IInv == TypeOK /\ Control /\ Started`.  `Control` is the discipline of the call
stack: a head is only ever on top (`HeadOnTop`: a check that waits returns, so
nothing runs under it), a declaration has one activation at a time
(`OneActivation`: the early return for resolved symbols), each kind of activation
fixes the state of its symbol (`ActivationState`: a loop or a body stands on a symbol
that is Resolved or Failed, so that nobody adds to its list), the indices of the loops
are valid (`PlacesValid`), the names before the index of a head are linked
(`NamesMet`).  `Started` says that the first top-level statement finds nothing
running.  The argument for the indices: a loop runs over the list of a settled
symbol, workers are only added to lists of unresolved symbols, and a second loop
over the same list would need a second activation of the declaration.  There is one
lemma per action (`EnterStep`, `ResolveStep`, `ResumeStep`, ...), each built on lemmas about
pushing, popping and replacing the top of the stack (`PushStep`, `PopStep`,
`ReplaceStep`), and `StepInvariant` puts them together.

`WorkersTasksProofs` goes on from there, about the workers in the lists:

* `TasksInvariance`: `Spec => []TInv`, the invariant of this module
* `NothingForgottenTheorem`, `ParkedOnceTheorem`, `SuccessIsCompleteTheorem`: the invariants of those names
* `SettledTheorem`: `Spec => SettledStaysSettled`
* `MeetsContractTheorem`: `Spec => MeetsContract`, the refinement of `Resolution`

`TInv == IInv /\ Tasks`.  That every open declaration is on the stack or in a list is not kept by itself:
to take a worker out of its list one has to know what the status that came back says, and that in turn depends on
which worker it belongs to.  The parts of `Tasks` are the links of that argument.

* `Stacked` - under the running activation there are only loops, and each waits for the activation
  right above it, which is the one its worker asked for; the first is the check of the last statement
  met, or a drain.
* `Returned` - what a status says of the check that returned it: Done means resolved (for a body: checked to its
  end), Failed means that an Error was reported, Pending that the declaration has no other activation and has not failed.
* `OnePlace` - a worker is in one list, at one place.  This is `ParkedOnce` and is why a
  check that parks itself cannot already be parked: its place is `Held` by the loop that resumed it, which takes it out.
* `AllRest` - a declaration's worker that no loop holds has no activation and has not failed; a body's
  belongs to a resolved function whose own check is over.  Without it a resumed check could find its
  symbol settled in the meantime, and the early return for resolved symbols would drop it.
* `Ahead` - statements the second loop has not met are Unresolved and have no worker.
* `FailuresReported`, `NamesSettled` - a failure was reported; the names a head has met are settled, which is what
  the guard of `Resolve` in the abstract specification asks for.
* `Remembered` - `NothingForgotten` in these terms, for as long as nothing was reported.

Each group of actions has its lemma (`LoopsTasks`, `HeadsTasks`, `BodiesTasks`, ...), over lemmas on pushing,
replacing and popping; popping the last activation under a loop is where the parts need each other (`PopTasks`,
`ResumedTasks`).  `SuccessIsComplete` adds that the draining loop ends with the
stack and every list empty, where only what is over is remembered (`FinishIsComplete`).  In the refinement, entering a check, parking, waking and draining are
stutters, a head that resolves is `Resolve`, a head that fails is `Fail`; `SettlesOne` says
that only one declaration settles in a step.

The assumptions are those of `ConstantsAssumption`: `N` is a natural number, the
programs are programs, `KeepsScope` is a set of Booleans.

`HashMapProofs` proves, for every finite set of keys, every set of values, every hash function and every
initial capacity:

* `TableInvariance`: `Spec => []HInv`
* `TypeTheorem`, `ChainsTheorem`, `NothingShownTwiceTheorem`, `LoopsEndTheorem`: `TypeOK`,
  `ChainsAreATable`, `NothingShownTwice`, `OnlyGrowthBreaksLoops`
* `ImplementsMapTheorem`: `Spec => ImplementsMap`, the refinement of `AbstractMap`

`HInv` has a part for the table and a part for the loop over it.  `IsTable`: a chain holds nodes of its
bucket, each with a key of its own.  `Sized`: `size` counts the keys, and the table is not over its load.
`Position` is where the iterator may stand, its node having been erased or not.  `Progress` is the argument for
the loop: keys are ordered by bucket and place in the chain (`Earlier`), and as long as the table
has not grown, the keys shown are behind the iterator and the keys due are ahead of it - also when the body
erased the node the iterator stands on (`AtGap`, about the node that the erased one points to).
`OnlyGrowthBreaksLoops` and the end of a complete loop follow from it; a new node goes to the front of
its chain, which moves nothing that is due.
`RehashedIs` says that a growth keeps what the table maps although it reverses chains: the nodes are written one by one
into a table that does not hold their key yet.  The assumptions are those of `MapAssumption`; that the keys
are finitely many is what a count of them needs.

`SequenceLemmas` holds what these proofs need of sequences and numbers.  The induction theorems of the library take an
operator as a parameter and cannot be used, but the well-foundedness of `<` can: `LeastNumber` and
`SetInduction` (induction for a set of numbers) follow from it, and from them that a function
defined by recursion over the numbers exists (`Iteration`).  With these the recursive functions
of `FlattenSeq`, `Rehashed` and `Brim` are shown to exist and to say what they list (`FlattenIs`, `MovesIs`, `BrimIs`).

`TokenBufferProofs` proves, for every set of texts, cut short or not, and every first window of two or more:

* `BufferInvariance`: `Spec => []IInv`
* `BufferTypeCorrect`, `WindowTheorem`, `InsideTheorem`: `TypeOK`, `WindowIsAhead`, `InsideTheBuffer`
* `ImplementsStreamTheorem`: `Spec => ImplementsStream`, the refinement of `TokenStream`

The invariant relates the buffer, the lexer and the text: the i-th token of the buffer is the
i-th of the text or the end of file (`Filled`), the lexer is as far as the buffer or done
(`Counted`), two more tokens are there or the lexer is done (`Window`), current and
previous are what the stream shows at the cursor and before it, and nothing outside was read unless the text is
cut short (`Placed`).  `WindowIsAhead` says nothing of what the tokens are: the refinement needs `Filled` for the
token that comes next.  `Brimful` is the part that neither property suggests.  Whether a lexer that is done has put the
end of file into the buffer depends on where the buffer was full before, and so on its whole history: the buffer is always
filled to a brim (twice the first window, then three times as much each time), and if the text is cut short to a brim
that its tokens reach.  No brim lies between one and the next (`BrimGrows`, `BrimOrder`); so the end of
file is inside when the lexer is done, unless the text ends without white space exactly at a brim (`EndIsInside`),
which is what `CutShort` says.
`PreparedFacts`, `PeekedFacts`, `PeekIsForeseen` and `MovedFacts` say what the operators return; `StepHolds` has one
step per action and gives both the invariant and the step of the stream.
The assumptions are those of `BufferAssumption`.

`TypesProofs` begins with `TypeTable` and proves, for every table, every layout, and whatever lies behind a shorter parameter list:

* `RegisterKeepsTable`: registering a type leaves a table of types (`IsTable`, the part of `TypeOK` that is not about names), in
  which every id that was there stands for what it stood for;
* `RegisteredIsFound`: a type that was registered is found under the same id in every table that goes on from there.
  `operator==` is not symmetric and not an identity, so this needs that the first id found is the one kept;
* `SharedSaysTheSame`: the id stands for exactly the type asked for, but for arrays, structs (which have the name) and
  functions with another number of parameters.  These are the exceptions that `NamesKeepTheirType` makes, here shown to be all.

They are about one registration; the rest of `TypesProofs` is about every statement of every text.  It proves, for all texts,
expressions, typehints and heights:

* `TypesTyped`: `Spec => []TypeOK`
* `AlwaysAVerdict`: `Spec => []EndsWithAVerdict`: the checker aborts only where it has no case, and falls only over
  a call with more arguments than parameters
* `MeaningStays`: `Spec => [][IdsAndNamesStay]_vars`: a step takes no id from the table and gives none another layout,
  and changes no name

The inductive invariant is `TypeOK /\ EndsWithAVerdict`; both properties have to be strengthened inside the step, where tables go from
one operand to the next.  `Sound` says what a result is worth: its table is a table of types that
begins with the one the check was given, and an id, where there is one, is in it.  `Checks` adds that
the check of an expression that stops without an answer has a part that explains it.
The functions are recursive over data, for which there is no induction theorem; but each expression has
a height, a number, and `SetInduction` is enough (`PartsExist`, `ResolveExists`, `CheckExists` show that the recursive functions exist, by
building the function up to a height with `Iteration`).  One lemma for each kind of expression
(`MemberChecks`, `OperandsCheck`, `ArgumentsCheck`, `CastChecks`, ...) leads to `CheckIsSound`, one for each kind of statement (`TypedVariableYields`,
..., `StructYields`) to `StatementYields`, and `ConcludeKeeps` puts the result into the state.
The assumptions are `ProgramsAssumption` and `DepthAssumption`: texts are made of statements over the given expressions and
typehints, which are closed under operands, and operands are lower.

`MeaningProofs` goes on from there and proves, for the same constants,

* `ContextsAreHarmless`: `Spec => []ContextIsHarmless`: writing down the type of a variable that was
  inferred changes nothing

The property is about one check that was done with one table and another that would be done with a context and the table as it is now, so the
invariant is `TypeOK /\ EndsWithAVerdict /\ InferredIsFound`: each accepted variable without a
typehint has the type that its initializer would be given *if it were checked now*.  Why this stays true is the heart of the
proof (`ChecksAgain`): a check that was done, done again with any later table and later names, ends with the same id and adds nothing.  That rests on
`RegisteredIsFound`: what was registered once is found.  `HintsAgain`, `ArgumentsAgain`, `OperandsAgain`, `CastAgain` are its
cases, by induction over the height.  The other half is about contexts: an expression without a literal where the context
arrives does not see it (`Unmoved`), and one with a literal does with its own type what it did without (`Moved`,
`SteadyAlways`); the literals of an index are the exception that the property names.

It proves as well

* `NamesMeanTheirTypes`: `Spec => []NamesKeepTheirType`: each name of an accepted program has the type that was
  written for it

This is about types as they are written, not as ids: `Said` puts a typehint into words without a table, `Reading` does so with an id of a
table, and the property compares the two.  What makes it hard are the exceptions.  A type may be another array than the one that was asked for, but
only if the program is written with two arrays (`ArraysMixed`), and another function, but only if it has another
prototype (`Extends`).  So one has to know where every type of the table comes from, those that casts deep inside expressions added
as well.  The invariant is `TypeOK /\ EndsWithAVerdict /\ Kept`; `Keeps(t)` says of the table that the accepted statements left

* `HintsKept`: each typehint that was written has been found, once;
* `ArraysKept`: each array of the table was written, in a typehint or a cast of an accepted statement;
* `FunctionsKept`: each function type of the table is that of an accepted prototype;
* `StructsKept`: each struct of the table has a name that was declared, so that a struct of a new name shares no type;
* `NamesKept`: each declared name has a type that was found for its typehint, for its prototype or for its fields.

A statement that is rejected may have added types that no accepted statement is written with (it takes none back), so `Kept` speaks of
a table that the present one begins with.  That each of these is found, rather than meant, is what makes the invariant inductive: what was found is
found again (`SeenAsStays`, from `ChecksAgain`), and means at the end what it says (`HintsMean`, by induction over the height of typehints).
`ChecksAdd` follows the arrays through every kind of expression, by induction over the height: a check adds pointers, and arrays of its casts, and nothing else
(`Adds`).  `StatementBrings` has a lemma for each kind of statement, `StatementKeeps` puts it into the state, and `NamesMean`
draws the conclusion: `MixedIs` and `PrototypeMeans` show that whoever has another type than its own has one of the two excuses.
`FieldFound` is about the members of a struct (`FieldData` gives each group its first name only): a name finds its own group unless an earlier one
has it, the third exception.  It needs that a group has a name, which `ProgramsAssumption` takes from the grammar.

`EmittedProofs` goes on from both and proves, still for the same constants,

* `AcceptedIsCompiled`: `Spec => []AcceptedCompiles`: the C compiler refuses nothing in an accepted statement but for the known gaps
  and what is done with a part that is misread
* `WidthsAreKept`: `Spec => []KeepsItsWidth`: neither an initializer nor an argument brings a wider number into a narrower place, but
  for the exceptions that the property names
* `AlwaysRight`: the inductive invariant behind them

Both are about a second reading of every expression, as C, in which neither the context nor the table that a check went
through is left; only the types of variables are.  The proof has two halves.  The first is about one table, `t`, over which an
expression *is found* to have a type: checked with `t`, it is Done, has that id and leaves `t` as it was (`Found`).  This makes
checks compositional.  A check hands a table from one operand to the next, but if it ends with the table it began with, then so did each of its parts
(`Between`), and each part was found over the very same `t` (`BinopFound`, `CastFound`, `ArgumentsFound`, ..., `PartsFound`).  By induction over the
height, an expression that was found to have an id and is not misread is emitted as a C type that goes with it (`Emits`, `EmitsIs`): a number as a
number, an integer as an integer, a pointer with the target of the id, and anything else, as well as whatever C reads from a place, as exactly the type of
the id.  Numbers do not agree better than that: a float32 of the checker is a double literal in C, and a cast is dropped.  From this follow, for each
kind of expression and statement, that C has no reason to refuse it but a known gap (`ExpressionGaps`, `StatementGaps`), and that the numbers that flow
into it are no wider than its id (`WidthIsKept`), nor than the place its id was coerced to (`PlaceIsWide`).

The second half is the invariant, `TypeOK /\ EndsWithAVerdict /\ Kept /\ KeptRight`.  `KeptRight` says that there is a table, the one that the
accepted statements left, in which each struct is the type of its name (`StructsNamed`: C finds the members of a struct by its name) and over which
each expression of an accepted statement is found *in some context*, with an id that suits the statement (`Suits`: it coerces to the variable
strictly, to the result of the function loosely).  Neither the context nor the id is fixed by the program, and the table
is not the one that the expression was checked with: that the expression is found all the same is `ChecksAgain` once more, for
the statement that is accepted (`FoundAfter`) as for those before it (`FoundStays`).  As with `Kept`, a statement that is rejected leaves its
types in the present table but not in this one.

Working towards this proof showed that the two properties were too strong as they stood at first, and held only because the
run that checked them was too small: `x : int = *(k = p)` is emitted as the target of `p`, where the target of `k` was checked.
`Misread` now says for which expressions that is so, and the run has them.

Model-checked only:

* the modules built on trees - `Tree`, `Lowering`, `Meaning`, `Machine`, `Compiled`, `Syntax` and `Parser` - and `Units`.
  They recurse over data with recursive operators, and what such a definition computes for every input is beyond the prover.
  So are `Compiled`'s and `Parser`'s properties, which are about exactly that (`Faithful`, `RoundTrip`),
  and those of `Units`: `ConvertedWhole`, `NamesArrive`, `EveryCheckIsParked`, `OnlyKnownCrashes`;
* `Completes`, `SkippingEnds`, `Terminates` and `EndsOrReports`: liveness under fairness is, too.

## 4. Not modelled, and the plan

What is left, in order:

1. Theorems about the reports of `Units` once its recursion is written as recursive functions.
2. `Blocks`: save points of blocks inside a suspended body (`check_block.cc:21`), and functions nested in one
   (`check_function_definition.cc:218`, where the inner Pending waits for nothing), composed with `Workers`,
   whose bodies are flat.
3. Functions and structs as members of namespaces in `Units`.

Left out for good, with the reason:

* text: the shape of lexemes, the conversion of number literals, the wording of diagnostics, mangled and
  displayed names, the layout of the C output, and the debugging output `ast/print.cc` and
  `lir/print.h`;
* what the code does not have: compile-time evaluation (`Engine::eval` and `cpu_step` are
  `MINI_UNREACHABLE` and nothing else calls the bytecode compiler; `Types` models that the checker aborts
  there), resumption and save point of namespaces (never set), `#use` in a namespace (the HIR conversion is `MINI_UNREACHABLE`), the state stack of the parser
  (never read), default arguments (never parsed);
* what happens outside: `c_backend_finalize` runs clang; `mini.c`, `mini.cc` and libtcc are fetched by the build.  Whether the
  pool of contexts moves when it grows, on which `check_use.cc:58` depends, is for `mini.cc` to say;
* the lowering of types and the two passes over structs in `lir/`: the model of the back half has scalars, pointers, one struct and one array.
