# A TLA+ model of the Egel interpreter

Egel is an untyped, concurrent, functional scripting language. Its interpreter
(`src/src/*.hpp`, C++) reads a module, desugars it, lifts lambdas, emits bytecode
and rewrites expressions on a trampoline: a graph rewriter whose redexes are
heap objects, so a computation can be started in any thread, shared with other
threads, and stopped between any two steps. This directory holds TLA+ modules
that model parts of that interpreter, TLC configurations that check them on
small instances, and proofs checked by TLAPS.

## 1. Inventory

| component | source | state it keeps | operations | interacts with |
|---|---|---|---|---|
| processes | `builtin_process.hpp` | program, two queues, run flag, exception | proc, send, recv, halt; the worker's loop | trampoline (shares the run flag) |
| futures | `builtin_async.hpp` | a `std::future` per object | async, await, wait_for, is_valid, sleep | trampoline, threads |
| trampoline | `machine.hpp:395-464`, the `reduce` methods of `runtime.hpp` | a redex: rt, rti, k, exc, c, args | rewrite steps of data, arrays, builtins, throw, handle, bytecode | everything that reduces |
| module manager | `modules.hpp:777-1004` | `_modules`, `_loading`, the environment | load, preload, transitive closure, process, flush | front end, tables, evaluation |
| symbol and data tables | `machine.hpp:20-160, 286-393` | name/number and object/number maps | enter, define, get, has | every thread that reduces, emission |
| evaluation of lines | `eval.hpp` | usings, a counter of fresh names | eval_line, eval_value, eval_main, eval_module | module manager, tables, trampoline |
| environment and scopes | `environment.hpp`, `semantical.hpp` | nested scopes of declarations | declare, using, identify | module manager, eval |
| bytecode and emission | `bytecode.hpp`, `emit.hpp` | code, data, registers, flag | NIL MOV DATA SET TAKEX SPLIT ARRAY CONCATX TEST TAG FAIL RETURN | trampoline, tables |
| desugaring, lifting | `desugar.hpp`, `lift.hpp`, `transform.hpp` | none (tree rewriting) | passes | emission |
| lexer, parser | `lexical.hpp`, `syntactical.hpp`, `reader.hpp` | position in a token vector | look, skip, parse_* | module manager, eval |
| object order, dictionaries | `runtime.hpp` (CompareVMObjectPtr), `builtin_dict.hpp` | a `std::map` per dictionary | compare, get, has, set, erase | all objects |
| references | `builtin_system.hpp` (Reference) | one object pointer | ref, set_ref, get_ref | threads |
| deferred reclamation | `runtime.hpp` (VMObjectArray destructor) | a thread-local stack | destruct, drain | every redex |
| serialization | `serialize.hpp` | a numbered graph under way | to/from bytes of an object graph | tables, dictionaries |
| JIT | `lightning.hpp` | machine code buffers | emit_jit | bytecode |
| builtins | `builtin_math`, `_string`, `_regex`, `_time`, `_os`, `_fs`, `_ffi`, `_runtime`, `_eval`, `_system` | files, channels, timers, libraries | library calls | operating system |
| command line | `egel.cpp` | options | main | module manager, eval |

What is hard in it:

* *Threads.* Each `proc` is a detached thread and each `async` a task; both
  reduce on one `Machine` whose tables, object graph and run flags are shared,
  mostly without locks.
* *Stopping.* A reduction is stopped by a flag that another thread writes; the
  caller of `reduce` must cope with a result that does not exist.
* *Control flow as data.* Return addresses and exception handlers are arrays
  patched into the redex; an error in one builtin's catch clause shows up as a
  handler applied to the wrong arguments, far away.
* *Partial failure.* Loading a module graph is a sequence of phases over all
  modules; a failure in one leaves the earlier phases' effects behind.

What makes each part correct:

* *Processes*: the queues are FIFO; the i-th answer is the answer of the i-th
  continuation to the i-th message, a Mealy machine; no message is dropped by a
  process that goes on; a halt ends the worker, whenever it comes.
* *Futures and references*: no task is left without a future, whatever references are
  overwritten and messages received; a future that is awaited once gives its result;
  as long as handles travel in closures and results only, no circle of waits, no task
  that outlives main, and an end of every wait.
* *Trampoline*: the result is what the expression means, eager and from left to
  right, whatever mixture of values, partial applications, spurious arguments and
  exceptions reduces; a builtin never sees a null pointer; handlers follow
  dynamic scope; code without recursion ends.
* *Module manager*: nothing is loaded twice; the imports of what is loaded are
  loaded; code is there before anything runs; circular imports end; what is
  loaded stays consistent after a load that failed.
* *Front*: no character of a text is lost; a lexeme is the longest one; expressions are
  grouped as the table of operators says; a tree survives being rendered and read.
* *Compiler*: a name is what the scopes around it say; every pass leaves what the next
  one has a case for; lifting keeps blocks closed and apart; code reads no register
  and jumps on no flag it has not written; the result is what the text means.
* *Lines and tables*: a name leads to an object of this name, at an index that stays,
  as long as no two evaluators take the size of a table together;
  lines that are evaluated in order give a name one number; a failed line leaves no
  using behind; an evaluator reduces its own expression.
* *Object order, reclamation, serialization* (not modelled): the order of objects is
  a total order; what is unreachable is freed once; a graph survives the round trip.

## 2. Modules

```
MealyProcess <-- EgelProcess <-- MCEgelProcess, EgelProcessProofs
                 EgelFuture  <-- MCEgelFuture,  EgelFutureProofs
                 EgelModules <-- MCEgelModules, EgelModulesProofs
                 EgelLines   <-- MCEgelLines,   EgelLinesProofs
EgelTerms <-- EgelTrampoline, EgelRedex, EgelMeaning <-- MCEgelTrampoline
              EgelTrampoline, EgelNumbers <-- EgelTrampolineStack <-- EgelTrampolineProofs

EgelAst <-- EgelParser (with EgelOperators)
        <-- EgelScopes
        <-- EgelTransform <-- EgelDesugar
                          <-- EgelLift <-- EgelEmit <-- EgelSemantics
EgelLexer, EgelParser <-- EgelFront <-- MCEgelFront
EgelLexer, EgelOperators, EgelNumbers <-- EgelFrontProofs
EgelLexer, EgelParser, EgelScopes, EgelDesugar, EgelSemantics, EgelBytecode
        <-- EgelCompile <-- MCEgelCompile
```

| module | models | state and actions |
|---|---|---|
| `MealyProcess` | what a process promises: a Mealy machine with an inbox and an outbox, for which a halt is final | the abstract specification of `EgelProcess` |
| `EgelProcess` | `Process` and proc, send, recv, halt (`builtin_process.hpp`), the loop of `Machine::reduce` with its flag | the fields of `Process`; the worker's program counter and locals; each client. One action per stretch of code between two accesses to shared state. The history variables `inputs`, `taken`, `outputs`, `got`, `trace` record what happened |
| `EgelFuture` | async, await, wait_for and `~Future` (`builtin_async.hpp`), `Reference` with get_ref and set_ref (`builtin_system.hpp`), what is pushed to and popped from the queues of processes (`builtin_process.hpp`) | what each thread can reach, blocks on or destroys; what is in each reference and each message under way (`place`); validity and readiness of each `std::future`, whose rules are external to the code |
| `EgelModules` | `ModuleManager` (`modules.hpp`), with the phases it calls in `semantical.hpp` and `eval.hpp` | `_modules`, `_loading`, the text and tree of each module, the declared names and those with code; one action per turn of each loop of `load`, and every error exit |
| `EgelTerms` | the classes of combinators of `runtime.hpp` | constants only |
| `EgelTrampoline` | `Machine::reduce` and every `reduce` method (`machine.hpp`, `runtime.hpp`, `bytecode.hpp`) | a heap of arrays; the current redex; the result. One action per class; the first rule of bytecode that applies is one step |
| `EgelRedex` | `RewriteRedex` (`lift.hpp`) and the order in which `EmitCode` links redexes and holes (`emit.hpp`) | an operator from expressions to bodies of rules |
| `EgelMeaning` | nothing of the code: a big-step evaluator, the reference | operators |
| `EgelLines` | `Eval` (`eval.hpp`), `System::eval` (`builtin_eval.hpp`), `SymbolTable` and `DataTable` (`machine.hpp`) | the declared names, the usings, both tables, the counter; per evaluator its line, where it is in it, and what it has in hand. To enter a name or a combinator is several actions: the count in the map, the size of the vector, the push and the store in the map, the second count of `DataTable::define` included. To find what is there and to read it is one, since what a table has for a name stays; an access to one container is taken to be whole |
| `EgelAst` | the syntax tree and its rendering (`ast.hpp`) | operators: a constructor and a `Render..` per class |
| `EgelLexer` | `tokenize_from_reader` (`lexical.hpp`, `reader.hpp`) | the index of the reader, the tokens; one action per branch of the loop, which takes one lexeme; a specification `LexSpec` of its own, with its properties |
| `EgelOperators` | precedences (`operators.hpp`) | operators |
| `EgelParser` | the recursive descent (`syntactical.hpp`), and the visitors for imports and values | an operator per method, from a parse (tokens left, trees built, error) to the one after it |
| `EgelFront` | a text read, rendered, and read again | `EgelLexer` twice, with parsing and rendering between |
| `EgelScopes` | `environment.hpp`, `semantical.hpp` | operators on chains of scopes and on trees |
| `EgelTransform`, `EgelDesugar`, `EgelLift` | `transform.hpp`, `desugar.hpp`, `lift.hpp` | an operator per pass |
| `EgelEmit` | `emit.hpp` and the coder of `bytecode.hpp` | operators on the state of emission: code, labels, registers, bindings |
| `EgelBytecode` | the instructions, in the interpreter (`bytecode.hpp`) and as native code (`lightning.hpp`), with the loop and the combinators of the runtime that the programs mention | heap, registers, flag; one action per instruction, two where the engines differ |
| `EgelSemantics` | nothing of the code: what a program means by its tree as parsed, with closures and a lookup of names of its own | operators |
| `EgelNumbers` | nothing of the code: lemmas about natural numbers | least members, induction over a range by sets, `Min` |
| `EgelCompile` | the phases of one module (`modules.hpp`), and the reduction of its `main` | the tree between two passes; one action per pass or per declaration |

`EgelTrampoline` keeps the slots of a redex as the record fields `rt`, `rti`, `k`
and `exc`, and its other slots as `items`; an index of the code is an index of
`items` plus 3 in a redex, minus 1 in another array. An array that nothing refers
to is freed at once, which is what reference counting does, circles apart: a
redex and its result never form one in the model, since `Jump` would keep what is
reachable only. The bodies of rules are made by `EgelRedex` from expressions, so
that the runs take the same walk as the compiler. A pattern is a variable, a
combinator, or an array of these; a tag in a pattern is in `EgelBytecode` only.

What the compiler promises of the code of a rule is `IsRule`, an assumption on the
constant `Programs` that TLC evaluates for each of the 3632 programs of the run: a node
refers to parameters the patterns bind, to combinators that have a name, and to nodes
before it; a hole belongs to one redex before the node it is in, and every redex but
the root has one (`RewriteRedex` makes one `let` for each, whose variable it puts in the
redex's place, and `visit_root` emits them in that order); and no node is outside the root.

`EgelTrampoline` and `EgelBytecode` overlap on purpose. The first has every class of the
runtime, the links of redexes and handlers, and a rule of bytecode as one step; the
second has the instructions, and few classes. Both are compared with a reference
evaluator (`EgelMeaning`, `EgelSemantics`), on programs made of terms and on texts.

`EgelFront` and `EgelCompile` are the composition of the parts before them: the tree that
is compiled is the one the parser builds from the tokens of the lexer.

A definition with the comment `Fault:` is what a mistake in the code would be; it
stands before the definition it is to be exchanged with, to see that the property
named for it then fails. None of them is part of a specification.

## 3. Runs

| run | what it checks | bounds |
|---|---|---|
| `Process` | `Fifo`, `MealyTrace`, `DroppedOnlyWhenStopped`; `ExceptionEndsProcess`; refinement of `MealyProcess` but for the store that undoes an early halt; `HaltEndsWorker`, `EveryInputAnswered` | two clients, three messages, sums modulo 3, programs that throw, return no triple, diverge |
| `ProcessHaltHarmless` | **fails**: a halt in the middle of a reduction leaves the result unwritten, and `run` follows a null pointer | one client, one message |
| `ProcessHaltEarly` | **fails**: a halt that comes before the thread has entered `run` is undone, and the worker polls on for ever | one client, one message |
| `Future` | `NoWaitCycle`, `MainEndsLast`, `NoOrphan`, `OnceIsHarmless`; `EveryWaitEnds` | main and three tasks, one reference, one message under way; two tasks where a handle goes into either |
| `Modules` | `LoadedOnce`, `ImportsLoaded`, `CodeBehindBindings`, `ImportersLast`; `LoadEnds` | every import graph over three files with at most two imports each, self-imports and missing files included; and three files that may be broken, compiled, absent, clash, use undeclared names, and change |
| `ModulesRetry` | **fails**: an import repeated after it failed, for a module it imports is missing, succeeds and defines nothing | the files that may be wrong, without edits |
| `Trampoline` | types; `ArgumentsComplete`, `HandlersNest`, `ResultIsMeaning`; `CompleteStays`; `Ends` | 3632 programs, 16 arrays |
| `Lines` | `OneNumber`, `TablesAgree`, `UsingsHold`, `ReducesOwn`, `NamesHaveCode`; `IndexKept`, `FreshLater` | two evaluators, up to their symmetry, three lines of nine, one name in two namespaces or in none |
| `LinesRace` | **fails**: of two evaluators that enter names at once both take the same number, and a name leads to the object of another | two evaluators, two lines of the nine |
| `Front` | `NothingLost`, `LongestMatch`, `PrecedenceIsTable`, `UnparseReads`, `ImportsFound` | 2676 texts, rendered narrow and wide, with three values for the character behind the buffer |
| `Compile` | `NamesResolve`, `LiftingSound`, `NoPanic`, `CodeSound`, `ResultIsMeaning` | 61 modules, each on both engines and with both values of the flag native code starts with |
| `CompileLazy` | **fails**: `&&` evaluates its second operand although the first is false | two modules |

Type correctness of `EgelProcess`, `EgelFuture`, `EgelModules` and `EgelLines` is proved for every
instance and not run; the trees and instructions of the compiler have no type invariant
but `NoPanic`.

A run that fails is a finding: the document or comment it contradicts is quoted
in `PROJECT.json` with the line of the code.

Why the bounds are enough:

* *Process.* Three messages with a sum modulo 3 make any loss, duplication or
  exchange of two messages visible in an answer, and a client can have several
  messages under way while another halts. One trampoline step before the last
  gives a halt a place in the middle of a reduction.
* *Future.* Three tasks are enough for a circle that goes over a task that is
  neither end of an await. A handle is put into a reference or a message only while at
  most two tasks were started, and no third is after that (`MaxShared`): two tasks and
  main suffice for a handle that is overwritten while another thread reads it, for
  one that sits in a message when the thread that sent it ends, and for two awaits
  of one future. Tasks are started in a fixed order, as their names are of no account
  (`NextTask`). The proofs cover any number of tasks, references and messages, and
  every `MaxShared`. A global val is a reference that is set once.
* *Modules.* Three files have all circles of length one to three, diamonds, and a
  file imported both before and after another; at most two imports per file keep
  the graphs within TLC's reach. `Disks` is what a run may find in the files,
  `Editable` what they may be changed to between two imports: every graph is loaded as
  it is, and only the files that may be wrong are edited.
* *Trampoline.* Programs are two nested applications under five ways of calling
  them, with all classes of builtins, with fewer, as many and more arguments than
  they take, two nested handlers, and throws in the program, in a handler and in
  an argument. A program that needed more than 16 arrays would be stuck and break
  `Ends`.
* *Lines.* A clash of names needs one local name in two namespaces, a race of fresh
  names or of two pushes two evaluators, and a line that finds what a failed one has
  left behind one line before it; the third line tells whether it stays so. The proofs cover any
  number of each.
* *Front.* All texts of two characters over an alphabet with one or more of every class
  of characters, all of three over the characters on which lexemes differ late
  (minus, dot, `x`, quotes, backslash), all chains of three operators of eight, of two
  of sixteen, and at least one text for each form of the grammar, right and wrong.
* *Compile.* Each pass has programs in which its form occurs, nested in itself or in
  another block, and each instruction has one in which it succeeds and one in which
  it fails. Names meet each kind of using, renaming, shadowing and namespaces that
  begin alike. The programs end; recursion is at most three deep.

### Fairness

* `EgelProcess`: weak fairness of the worker, a thread of its own, and of the poll
  of a client in `recv`, which loops over a sleep. Clients need not call anything.
* `EgelFuture`: weak fairness of each thread's own steps. That a task ends is
  assumed (`End`); a task that runs forever is waited for forever.
* `EgelModules`: weak fairness of the loader, which is a sequential program. The
  user need not import or edit.
* `EgelTrampoline`: weak fairness of the loop, likewise.
* `EgelLines`, `EgelFront`, `EgelCompile`: none, no liveness is stated. That
  the passes and the programs end shows in the state space being finite; that the lexer
  does is proved, as a measure (`LexerEnds`, below).

`Front` and `Compile` check for deadlock: what is neither read nor rejected, or a
reduction that has neither a result nor an instruction to execute, is an error (unless native code has
read what is not there, after which nothing is claimed). In the
other runs the interpreter may stop with nothing left to do; whether it stops where it
should is what their liveness properties say.

## 4. Proofs

All theorems hold for every value of the constants that satisfies the named
assumptions of the modules (finite sets of tasks, disjointness of model values,
types of the tables of outcomes, and what the compiler promises of the code of a rule).

* `EgelProcessProofs`: `TypeCorrect`, `QueuesAreFifo`, `AnswersAreMealy`,
  `NoInputDropped`, `ExceptionIsLast`, and `ProcessIsMealy`: the process
  implements `MealyProcess`, in which a halt is final whenever it comes, but for one
  step, the store of RUNNING that undoes an early halt (`UndoesHalt`). The invariant `IInv` adds to the properties what
  relates the program counter to the counts of messages (`Counts`), the program
  field and the result under way to the history of continuations
  (`Continuation`), and the exception to the worker's last steps (`Ends`):
  neither `Fifo` nor `MealyTrace` is inductive, for what is pushed next depends
  on locals they do not mention. The refinement maps an input in hand to the
  front of the abstract inbox, and an answer whose continuation is not yet
  assigned to the new program. `HaltIsPrompt` bounds what `HaltEndsWorker` promises: once
  the thread has entered `run`, a halt is final and leaves the worker at most five steps,
  with at most one reduction among them (a halt before `run` is undone, which is
  `ProcessHaltEarly`).
  The queue lemmas (`PushWaits`, `PopWaits`,
  `ConsQueue`) are stated once for sequences.
* `EgelFutureProofs`: `FuturesTyped` and `NoDeadlock`. A circle of waits cannot
  arise because what a task waits for it can reach, and references between tasks
  have no circle: a new one goes to a task that was not started yet (`Fresh`) or
  where two old ones led (`Shortcuts`, `NoNewCycle`); a reference or a message breaks
  this order, so what rests on it is stated until a handle is in one (`shared`). Its second part has
  `NoneOrphaned`, `AwaitOnceIsSafe` and `MainIsLast`. The invariant says that what runs
  or is left is referred to by a thread, a reference or a message (`AliveReferred`), that
  only a thread that is at it has futures to destroy, and that main keeps nothing when
  it ends. A step never makes a task alive that was not, and drops no reference but to
  what it destroys (`Loosens`). That main is last then needs that references have no
  circle: a task that runs after main has ended is reached from one that runs, that
  one from another, and a finite set in which everything is reached from inside has a
  circle (`NoBackwardChain`, by the well-foundedness of strict subsets).
  `AwaitOnceIsSafe` is about what was done and not about what is forbidden: whatever
  `std::future` throws takes a future that was awaited twice, or polled after that. It
  needs that what is being destroyed nobody can come by (`Unheld`), so that no handle
  someone has is invalid but by an await (`HeldValid`), and that of two threads in one
  await one is the second (`Counted`, `Apart`).
  `NeverStuck` draws the conclusion from `NoDeadlock` and more: until all have ended, some
  thread has a step to take (`CanGoOn`; TLC finds it equal to `ENABLED` of its steps). It
  needs that a thread blocks only on a task that was started (`Fresh`) and not done, and
  that a task which is done has a result, were it an exception (`DoneReady`); then all
  blocked threads wait for tasks among themselves, in a circle.
* `EgelModulesProofs`: `ManagerTyped`, `NoneTwice`, `ImportsComplete`. The invariant
  says how far the loop of `transitive_closure` has come: behind its index all
  imports are loaded, at its index the rest is pending (`Frontier`). Its second part
  has `AskedForLast` and `NamesBehindBindings`, both as long as no load failed. While the closure is collected every module but the first was found as
  the import of an earlier one that was parsed (`Found`), which reversing turns into
  the order of evaluation. A declared name without code is one of a module whose code
  is yet to be generated (`Bound`), so when code is generated none is left.
  `LoadAdvances` is what `LoadEnds` rests on, for any finite set of files: each step of a
  load leaves it, begins a later pass, or goes on in the pass by its index or by what is
  pending. The index is bounded although `_loading` grows while it is iterated over,
  because no module is in it twice (`LoadingBounded`).
* `EgelLinesProofs`: `TablesTyped`, `TablesKept`, `IndicesKept`, `NumbersFresh`,
  `OwnReduced`, for any number of evaluators interleaved in any way. `TablesTyped` has
  no condition: even when two evaluators take one place for two names, what is in a map
  is in its vector. The next two, and `OwnReduced`, hold until two evaluators have taken
  the size of a table before either has pushed (`clash`); without that they are false,
  as `LinesRace` shows. Until then (`Settled`, `Consistent`) the place an evaluator
  has taken is the end of the vector until it pushes and its own after that, whatever
  others push, so the tables agree although nothing is locked. `NumbersFresh` needs that the
  counter is past every number that was counted (`Counting`). `OwnReduced` needs who
  may enter which name (`Claims`), and that an evaluator which is alone with its
  number has numbered its name (`Numbered`), is putting the combinator of its own line in the
  table (`Making`) or has done so and finds it there (`Made`): a name of an
  expression is never the body of another line, so only who has drawn its number
  enters it. Its second part has `NumbersUnique`, `UsingsKept` and `DeclaredHaveCode`, which
  hold as long as no two lines overlap. Then at most one evaluator is under way
  (`Solo`): what it has counted still holds when it uses it (`Counted`), a name that was
  entered has its number stored with it unless it is being
  stored (`Stored`), usings are right but for the one being checked (`Checked`), and a
  declared name has code, or a line that failed, or an evaluator that will give it code
  (`Promised`). That a name which is defined has code afterwards needs that its number
  is unique, so the one theorem rests on the invariant of the other.

* `EgelTrampolineProofs`: `Invariant`, `Typed`, `ArgumentsThere`, `ResultThere`,
  `HandlersNested` and `NothingOverwritten`, for every program that satisfies `ProgramsAssumption`, every
  table of builtins and outcomes, and every size of the heap. None of the properties is
  inductive. That the arguments of the next redex are complete is a matter of every redex
  that waits: what it lacks are the places of those that are reduced before it. And a
  handler makes a redex last whose place an abandoned redex may have been about to
  write, so that nothing may have been written there.

  The invariant (`Stacked`, in `EgelTrampolineStack`) is that the redex to be reduced is
  the last of a stack of frames chained by `k`, with a stack of handlers chained by `exc`,
  each with the level at which it cuts the frames off (`Counted`, `Linked`). Places are
  distinct but for a handler's and that of the first frame it cuts off (`Distinct`).
  What a frame or a handler needs is there but for the places of the frames above it, in
  a set of arrays that leads out of itself at those places only (`Prepared`, by `Ready`
  and `Sound`). And what is at the place of a frame is not complete yet, nor made so by
  what others write: every set of arrays that is closed but for the places of the others
  leaves it out (`Waiting`, by `Starved`). Both are stated with sets and not with paths,
  so that no proof follows references.

  A step changes the stacks in five ways, each a lemma: the last frame is done
  (`FrameReturns`), the last handler takes over (`HandlerTakes`), frames are added
  that fill holes of new arrays (`FramesAdded`), a handler is added (`HandlerAdded`),
  or garbage is freed (`StackedCollects`). `EgelTrampolineProofs` shows of each reduce
  method that it is one of these. The longest is a rewrite: its redexes, from the last
  to the first, are the new frames (`Ordered`), a node is ready but for the holes below
  it (`BelowSound`), and a root that is put into place before its holes are filled leads
  to the hole of the last redex, so the place stays starved (`SettledStarves`).
  `EgelTrampolineStack` begins with what this rests on: what `Closure`, a recursive function, is
  (`ClosureLeast`: the least set with what it starts from that no reference leads out
  of), which arrays are new (`AllocGives`), and how a set of numbers is put in order
  (`Descending`). The invariant was first checked by TLC on all states of `Trampoline`.
  `ResultThere` adds what the caller of `reduce` relies on: the array it gets as a result,
  or as an exception, is complete, so it never sees the null pointer of a hole.

* `EgelFrontProofs`: `LexerLosesNothing`, `LexerTakesLongest` and `LexerEnds`, of
  `LexSpec`: for every text and whatever the memory behind its end contains. `EgelFront`
  runs the lexer from the states of `LexInit`, once on the text and once on what was
  rendered; as it also reaches the recursive operators of the parser, the theorems are
  about the lexer's own specification. Of the two properties only `NothingLost` is nearly
  inductive. `LongestMatch` speaks of tokens with what follows them, and a token is pushed
  before what follows is read, so the invariant `LexInv` says of the last one that it does
  not go on with the character the reader looks at (`Latest`), and of the others that
  they do not go on with the first character of the token after them (`Munched`). A
  lexeme is taken by `Span`, the least index at which the characters of a class end; what
  a branch takes is therefore a lexeme of its tag, and the next character is none of the
  class. `LexerEnds` is the measure of the loop: every step moves the index on and not
  past the end of the text, the look of the minus behind the end included, or is the last.
  Theorems treat a string as the sequence of its characters; that TLC's strings
  are such is stated by `TextsAssumption` and `StringsAssumption`, which it evaluates.

  `PrecedenceIsOrder` and `BottomIsWeakest` are about `operators.hpp`: that
  `operator_compare`, which compares character by character in the order of a table and
  then by length, is a strict weak order on all operators, also those with characters the
  table lacks, and that
  the operator the parser of arithmetic begins with is weaker than none.

Only model-checked:

* all liveness properties, which need fairness and `ENABLED`: `HaltEndsWorker`,
  `EveryInputAnswered`, `EveryWaitEnds`, `LoadEnds`, `Ends`. `HaltIsPrompt`, `NeverStuck`
  and `LoadAdvances` are their safety parts;
* `ResultIsMeaning` of the trampoline, since `EgelMeaning` is recursive;
* `PrecedenceIsTable`, `UnparseReads` and `ImportsFound` of the front, and all five
  properties of the compiler: they are about what recursive operators compute for a
  tree, which takes an induction over trees that the provers cannot do.

## 5. Observations

Found while modelling, not the subject of a run:

* A `Ternary` with too few arguments is reduced to itself without an end
  (`runtime.hpp:3137-3152`); `Unary` and `Binary` give a value there.
* A `Monadic`, `Dyadic`, `Triadic` or `Medadic` whose apply gives nothing returns the
  arguments beyond its arity twice (`runtime.hpp:2305-2315`, `2344-2351`).
* A `Medadic` that throws applies the handler without `none` (`runtime.hpp:2183-2192`),
  so that the handler of a `try` stays unapplied.
* The documentation of `is_valid` says "check whether future is reduced"
  (`builtin_async.hpp:115`), but the builtin tells whether the future was not awaited yet.
* `load` reads `_loading[0]` when nothing is being loaded (`modules.hpp:852`).
* Declarations of a module whose load fails stay in the environment without code,
  so that later lines resolve names nothing defines (`semantical.hpp:97`).
* The locks of `Machine` are never taken (`machine.hpp:466-472`); `LinesRace` is one
  consequence. Another, that two pushes at once may corrupt a vector itself, no run shows.
* The counter of fresh names is read before its lock is taken (`eval.hpp:312`).
* A second await of a future throws an exception of the C++ library that nothing
  catches, in the main thread the end of the interpreter (`builtin_async.hpp:41`).
* The vals of a closure of modules are evaluated in the reverse of the order in which the
  modules were found (`modules.hpp:949`), which is no order of dependency, although
  `man/egel.1.md:124` has a val evaluated "prior to it's definition".
* What `throw` throws and what builtins throw reach the end of a reduction at different
  places of the redex; the latter is reported as `none` (`machine.hpp:181`).
* A lifted block gets the name of its definition with a number after it, so that the
  eleventh block of `f` and the first one of `f1` share a name (`lift.hpp:154`).
* `using A` also imports the names of a namespace that begins like it, cut at the wrong
  place, and may reject a program for them (`environment.hpp:165`).
* After `using A`, `def f` defines `A::f` again if there is one (`semantical.hpp:349`).
* In the interactive mode, two namespaces in use that come to share a name make every
  later line ambiguous (`eval.hpp:230` looks at the new using only when it is made).
* Native code splits an object without asking whether it is an array
  (`lightning.hpp:166`).
* The comment of OP_FAIL says that it jumps if the flag is set, the code does so if it
  is not (`bytecode.hpp:35`).
* A text in triple quotes swallows the character after its end.
* An `if` is rendered with `then` in the place of `else`; the wide rendering of a `let`
  runs its patterns together and that of a definition loses its documentation (`ast.hpp`).
* A minus as the last character of a text is compared with the memory behind the buffer
  (`reader.hpp:50`).

## 6. Not modelled

The lexer for literate files (`tokenize_from_egg_reader`); positions and the comparison
of trees; `Occurs` and `Substitute` of `transform.hpp`, which no pass uses; the assembler
and disassembler; the calls of GNU lightning and the machine's registers; the table of
constants; the order of objects, reclamation and serialization, which are in the plan below; the libraries of builtins, which call
the C++ library, ICU or the operating system and to the machine are members of eight
classes; foreign functions; the command line; and the Egel programs in `lib`,
`examples` and `tests`. Numbers and texts in programs are small: the width of integers
and the arithmetic of floating point are the library's.

Across the modelled parts: processes, futures and the module manager are modelled
each with an abstract reduction (a few steps with one of several outcomes), and the
trampoline alone, with one thread. An array is only shared between threads once it
is a complete value, which `CompleteStays` shows to be constant; what threads do
share and change is in the tables of `EgelLines` and in the references of `EgelFuture`.
`EgelLines` takes a load as one declaration; that two threads load modules at once is not modelled.
Every access to one container or shared pointer is whole: that two at once may
corrupt a container of the C++ library is not modelled, and of two threads in one
reference (`RaceRef`) nothing more is said. The destruction of the machine, and of the
futures its symbol table keeps, is not modelled.

## 7. Plan

1. `EgelOrder`: the comparison of objects as an operator, checked for being a total
   order; dictionaries over it as a refinement of a finite map.
2. `EgelReclaim`: the deferring destructor, with a stack bounded independently of the
   depth of the structure.
3. `EgelSerialize`: the numbering of a graph and its inverse.

Runs are kept few: safety and liveness of a module share a run, and a run that shows
a finding makes room when a new component needs one.
