# Stasha in TLA+

Models of the parts of the Stasha compiler and its runtime in which order,
concurrency, failure or an intricate algorithm matter, the instances that TLC checks,
and theorems about them that TLAPS proves.  The reference is the C source under `src/`
of the repository; `PROJECT.json` maps every definition that models code to the
lines it models and lists components, runs, hazards, findings, mutants and theorems.
Paths below are relative to the repository's `src/` unless they begin with `wiki/` or
`tests/`.

## 1. The system

Stasha is a compiler, written in C over LLVM, for a language with futures,
coroutines, signals, scope cleanup and test observation.  What it compiles is linked
with small runtime libraries (`runtime/`) and with protocols that the code
generator writes out as LLVM IR (`codegen/`).  The compiler is one sequential
pass after another; the concurrency, the failures and the long-lived state are in
the runtimes, in the generated protocols and in the places where compilers meet
other processes: the runner of observed tests, the publication of outputs, and
the logs of a directory.

| component | state | operations | talks to |
|---|---|---|---|
| **thread pool and futures**, `runtime/thread_runtime.c` | ring of jobs, shutdown flag, worker table; per future `done`, result, mutex, condition; four global mutexes and three conditions | dispatch, get, wait, ready, wait_any, drop; the worker loop; init and shutdown, from constructor and destructor too | the program's threads and the jobs, by calls; workers by conditions |
| **async pool**, `runtime/coro_runtime.c` | a second thread pool, with a cancelled flag per future | dispatch, get, wait_any, cancel, drop, init, shutdown | the async library |
| **coroutine executor**, `runtime/executor.c` | thread-local ring of handles | enqueue, remove, pending, run_pending | generated coroutines, which it resumes and which call it back |
| **coroutine protocol**, `codegen/cg_coro.c`, combinators in `cg_expr.c` | per frame a promise: complete, eos, item_ready, cancelled, continuation, child | create, yield, return, cancel, await, await.next, await.all, await.any, get, wait, drop, stream.done, stream.drop | executor; one another, through continuation and child |
| **signals**, `codegen/cg_signals.c` | per payload type two growing arrays, length, capacity, spinlock; `__stasha_quitting` | watch, send, `break` in a receiver, quit | receivers, which it calls and which call it back; `exit`, `_Exit` |
| **observation runtime**, `runtime/observation_runtime.c` | ledger of live blocks, test progress, lines hit, first failure, report file | init, test begin/end, hit, alloc, resize, free, retain, finish, abort | allocator, file system, the image that calls it |
| **observation driver**, `common/observation_driver.h`, `main.c` | child process, status pipe, report, verdict | launch, wait, read, judge | the image, as a child process |
| **zone allocator**, `runtime/zone_runtime.c` | chain of blocks | alloc, move, free | scope cleanup |
| **crash runtime**, `runtime/crash_runtime.c` | handler active flag, crash block | install, register, handle | signals of the system, lifecycle blocks |
| **lifecycle blocks**, `codegen/cg_fileheaders.c` | graph of before and after | sort, emit dispatcher | loader, `exit` |
| **scope cleanup**, `codegen/cg_dtors.c`, `cg_stmt.c` | stack of scopes with defers and destructors | push, add, unwind to a depth, pop | every edge out of a block |
| **object layout**, `codegen/cg_layout.c` | state, size, alignment, offsets per type | register, complete, query | generics, C import, expressions |
| **interfaces**, `codegen/cg_interfaces.c` | interfaces, flattened methods, bindings, tables | register, flatten, bind, box, call | layout, generics |
| **generics**, `codegen/cg_generics.c` | templates, instances, the generator's context | ask for a struct or a function, generate it | everything that names a type |
| **integer expressions**, `codegen/cg_scalar*.c`, `scalar_integer_semantics.h` | none | evaluate at compile time, generate code | constants, conditions, sizes |
| **C header import**, `cinterop/cheader.c`, `main.c` | tokens, declarations, usable types | scan, classify, make declarations | parser's AST, layout |
| **preprocessor**, `preprocessor/preprocessor.c` | tables of macros, stack of macros being expanded, output tokens | scan, expand, import | lexer, parser |
| **parser**, `parser/` | position, modes, nesting, errors, nodes | one function per nonterminal; save and restore | preprocessor, AST |
| **import resolution**, `main.c` | the list of declarations that grows, modules seen | splice | parser, archives |
| **output transaction**, `common/output_transaction.h`, `main.c:2233` | staging directory, destination | begin, finish | file system, other compilers |
| **compiler heap registry**, `common/heap.c` | list of all allocations | allocate, reallocate, deallocate, scan | everything in the compiler |
| **logger**, `common/logger.c` | log files of a directory, lock file | open and rotate | other compilers |
| lexer, other analyses, translation of expressions and types, linker, diagnostics, editor, standard library | trees, symbol tables, text | one pass each | one another, by calls |

### What is hard in it

* **Interleavings.**  Flags written outside the mutex they are read under (the
  pools' shutdown flags, the futures' `done`); futures freed by one thread while
  another still signals them; a registry of receivers that grows and shrinks while a
  send goes through it on another thread; compilers that build to one destination or
  rotate one directory's logs.
* **Re-entrancy.**  Jobs that dispatch and wait; coroutines that run_pending resumes
  and that enqueue, withdraw and destroy others meanwhile; receivers that send the
  type they receive and retire themselves in the inner send; function bodies that are
  generated in the middle of other functions; types that are laid out in the middle of
  other types.
* **Lost wakeups, deadlock, starvation.**  Sleeping dispatchers, getters and
  `wait_any`; a shutdown that joins workers whose jobs wait for other workers; an
  await that busily drives the executor.
* **Failure.**  Every system call of a report's publication may fail, the process may
  be killed between two of them, and the driver must not be taken in; a compiler
  may be killed between staging and publishing, or within a rotation; a program may
  fault anywhere, in its crash blocks too.
* **Boundaries.**  A ring that is full, empty or wraps; counters at `UINT64_MAX`; an
  array that grows at its first use; limits that are inclusive; the least integer;
  sizes that would wrap.
* **Two descriptions of one thing.**  The evaluator of constants and the code that is
  generated for the same operators; the parser's tables of what begins an expression and
  the functions that parse one; the runtime that writes a report and the driver that
  decides which reports are possible.

`PROJECT.json` lists these as hazards at the lines where they bite, with the
properties that would catch them, or why nothing does yet.

### What makes each component correct

* pools: each dispatched job runs at most once and none is lost, nobody reads an
  unfinished result, nobody sleeps through a wakeup, calls return, a shutdown drains
  the queue; in the async pool a job that is cancelled in time does not run;
* executor and coroutines: only suspended frames are resumed or destroyed, a frame is
  queued exactly while it is suspended at a `yield;`, a stream's items arrive
  once each, a coroutine suspended after its cancellation yields nothing more, control
  returns to main;
* signals: a send runs the receivers that were active when it came to them, in
  registration order, each once; a receiver has its own captures; the lock is never
  kept;
* observation: the ledger is the heap; a report that says complete is true; no
  history of failures and kills makes the driver pass a suite that should fail, and
  where nothing fails it passes one that should pass;
* output transaction: a name shows a whole artifact of a successful build or nothing,
  and each build's outcome says what is there; logs: none is lost before its time;
* heap registry: the list is the live nodes, and quit tells the truth about leaks;
* zone: blocks do not overlap, sizes do not wrap; scope cleanup: each entry of a
  scope is cleaned up once, in reverse, on every path; lifecycle: the order respects
  before and after where they form no cycle; crash: every registered block begins at most once per fault;
* layout: fields do not overlap, sizes fit the address space, cycles are refused;
* interfaces: a program is refused only for a fault it has, and a call runs the method
  that was written for it; generics: each instance is made once, as if alone;
* integers: evaluator and generated code agree with arithmetic and with each other;
* headers, macros, syntax, imports: what is read is what was meant, and nothing is lost.

## 2. The modules

| module | models | role |
|---|---|---|
| `FuturePool` | what the pool promises its callers | abstract specification |
| `ThreadPool` | `thread_runtime.c` | detailed; implements `FuturePool` |
| `AsyncPool` | `coro_runtime.c` | detailed |
| `HandleQueue` | what the executor promises | abstract specification |
| `Executor` | `executor.c` | operators and state of the ring |
| `Coroutines` | `cg_coro.c`, combinators of `cg_expr.c` | extends `Executor`; implements `HandleQueue` |
| `SignalBus` | what watch and send promise | abstract specification |
| `Signals` | `cg_signals.c` | detailed; implements `SignalBus` |
| `ObservationLedger` | `observation_runtime.c` | detailed |
| `ObservationDriver` | `observation_driver.h` and its caller | extends `ObservationLedger` with the parent process |
| `Zone` | `zone_runtime.c` | detailed |
| `CrashRuntime` | `crash_runtime.c` and the generated dispatchers | detailed |
| `LifecycleOrder` | the topological order of `cg_fileheaders.c` | algorithm, a step per round |
| `Cleanup` | `cg_dtors.c` under `cg_stmt.c` | generator, then a run of what it generated |
| `Layout` | `cg_layout.c` | algorithm, a step per type or field |
| `Interfaces` | `cg_interfaces.c`, calls of `cg_expr.c` | algorithm against the language's rule |
| `Generics` | `cg_generics.c` and its callers | generator with an explicit stack |
| `Scalars` | `cg_scalar*.c`, `scalar_integer_semantics.h`, operators of `cg_expr.c` | two implementations against one reference |
| `CHeader`, `CImport` | `cheader.c`; the import in `main.c` | algorithm |
| `CDeclarations` | what C means by a declaration | reference for the two above |
| `Macros` | `preprocessor.c` | algorithm over flat tokens against trees |
| `Grammar`, `ExpressionRules`, `StatementRules`, `DeclarationRules` | `parser/`, function by function, as terms | data |
| `Parser` | what a term does to the parser's state | interpreter of the terms |
| `Syntax` | programs as trees of forms, and how they are written | reference for the parser |
| `Imports` | `resolve_imports` of `main.c` | detailed |
| `BuildOutput` | `output_transaction.h` and `compile_file` | detailed |
| `LogRotation` | `open_logger` of `logger.c` | detailed |
| `HeapRegistry` | `heap.c`, `quit` | detailed |
| `MCThreadPool`, `MCCoroutines` | | values of constants, symmetry |
| `MCGenerated` | | `Coroutines`, `Cleanup`, `LifecycleOrder`, `Layout` and `CDeclarations`, one at a time |
| `MCLanguage` | | `Signals`, `Interfaces` and `Generics`, one at a time |
| `MCCompiler` | | `BuildOutput`, `LogRotation`, `HeapRegistry`, `Imports`, `Scalars`, `Macros` and `Syntax`, one at a time |
| `MCRuntimes` | | `ObservationDriver`, `AsyncPool`, `Zone` and `CrashRuntime`, one at a time |
| `ThreadPoolProofs`, `AsyncPoolProofs`, `CoroutineProofs`, `LanguageProofs`, `ObservationProofs`, `CompilerProofs`, `LifecycleProofs`, `MemoryProofs` | | theorems (§5) |

The four modules that hold several components choose one in the initial state and let only
that one take steps, so that each is checked as if alone: the components have no
variable in common, and the number of states is the sum and not the product.

### ThreadPool and AsyncPool

A job is named by its future.  `slots`, `head`, `tail`, `count` are the ring (the
indices, which the code lets grow and masks, are kept modulo `Cap`); `alloc`, `done`,
`fMutex` are a future; `pc`, `call`, `arg`, `job` say where each thread is.
`finished` counts how often a job's function has returned and is history.  A
critical section is one action where everything it reads is written under its
mutex; otherwise the mutex is a variable and the section is split at the reads.
Sleeping on a condition is a place of its own, a broadcast wakes all sleepers, a
signal one of them, and a sleeper may always wake by itself, as POSIX allows.  Jobs
may call the pool themselves (`MaxBlockedJobs` bounds how many at a time).  A
program may shut down and initialise again.  `MinWorkers` is how many threads
`pthread_create` grants at least.  After a drop frees a future that its worker still
uses (see the findings) the model goes on as if the memory were intact.

`AsyncPool` keeps its queue as a sequence, since the arithmetic of the ring is that
of `ThreadPool`, and adds the cancelled flag: `asyncInTime` is the history of the jobs
whose cancellation came before a worker had looked at them.

### Executor and Coroutines

Everything happens on one thread, so the native stack is the state that matters:
`stack` holds the nested calls with what each is doing, and each action is a step of
its top.  An await inside a coroutine does not suspend it; it drives the awaited
handle in a loop on the awaiter's stack.  Bodies are arbitrary: what main and the
coroutines may do with the handles they own is given by `MainOps` and `BodyOps`, and
`MaxYields` bounds how often a coroutine suspends.  A resume of a frame that is not
suspended, a destroy of one that runs and the executor's assertion set `fault`, and
nothing follows.  `owner` says who holds a handle: a language rule outside this
component lets only the holder use it.

### ObservationLedger and ObservationDriver

The runtime does not trust the image that calls it, so the model's image makes any
call in any order with arguments from small sets; each check of the code is a
conjunct, in its order, and a refused call publishes what there is and ends the
process.  The publication is one action per system call; each can fail, writes can
be partial, the process can be killed between any two.  The driver's actions are
interleaved with the child's: fork, exec, the pipe, waitpid, reading, judging.
The checks of the parser are one operator, `Plausible`, which is
written from the parser and not from the runtime, so that a difference shows.  Its
part `SiteAllows` asks what the runtime does not: whether the recorded site may lie in
that test, make that kind of block and ask for that many bytes.  Only the compiler sees to
that, so the driver's image is either one that makes any call, or one that is `generated`:
then it allocates as `new`, `mov`, `make` and `rem` are translated, from their own sites
(`Requests`, `Releases`).  That the parser accepts what was written is claimed of the second.
Identities are one flag, `UINT64_MAX` is `MaxU`, a report has `ReportLen` bytes.

### Signals

One payload type; registries of two types share nothing but `quitting`.  A
receiver is the number of its registration: the two parallel arrays hold it as
handler and as captures, so a mismatch of the two is visible.  Each thread has a
stack of bodies and sends.  Taking the lock is an action that waits; what is done
under it is one action that ends with the release.  `framed` has the receivers
whose function has not returned.  `over` says how the process ended; a second call
of `exit` while the exit blocks run is undefined in C and is `"undefined"` here.

### BuildOutput, LogRotation, HeapRegistry, Imports

`BuildOutput` has one action per system call that another compiler can see, in the
order of `compile_file`: make the private directory, remove the old destination, the
front end, emission, the audit, the companions, the link, the rename, the removal of
the directory, and for an archive the same again for its metadata.  Each call may fail, the
two removals at the end of a failed archive build too, whose result the code does not look
at (`stuck`); a build may be killed anywhere.  The test runner that executes what it finds at the destination is part of it.  `LogRotation` moves each
log of a directory on by an index under a lock that the kernel takes back from
a process that is killed.  `HeapRegistry` keeps the list with its `prev_next` back
pointers; `heapOrder`, the order of allocation, is history.  `Imports` walks a list
that grows under the walk; what a file contains is decided when it is read.  `by`, which
import a declaration was spliced for, and the places of the failed imports are history.

### Zone, CrashRuntime, LifecycleOrder, Cleanup, Layout

`Zone` computes with sizes up to `SizeMax` and refuses what the code refuses;
an address is a block and an offset.  `CrashRuntime` lets any thread fault whenever
it runs code of the program; the handler reads and stores its flag in two steps.
`LifecycleOrder` is Kahn's method with its fall-back to source order.  `Cleanup`
first generates: every statement the grammar allows may come next, and the cleanup is
emitted on each edge as the code would; then it runs the blocks with every branch
going either way.  `Layout` completes types depth first with its four states and
computes what LLVM is asked for by LLVM's rule.

### Interfaces and Generics

`Interfaces` registers, flattens, compares signatures, binds and calls; the
property compares the verdict and the call's target with a definition over the whole
inheritance graph.

`Generics` keeps the generator's context, `cx`, as one record that an instance takes over and
has to give back.  The calls of the generator that are under way are the sequence `todo`: a
task per call, with the field, method or statement it has come to (`at`) and what it saved; the
head is the next step.  A struct's task asks for the types of its fields (`LayoutField`,
`CheckField`), then, if it is an instance, for its methods (`InstantiateMethod`); a body's for
the types of its locals and the functions it calls.  `Asked` is the types that the next step needs;
as long as one of them names an instance that is not there, only `InstantiateStruct` can go on,
and the task continues when the instance is finished.  A name is the sequence of its parts, so
`box.[i32]` is `<<"box", "i32">>`; an argument is one part.  `cx` is the part of `cg_t` that is
saved and put back, plus `in_unsafe`.  The type a value is wanted for, `hint_ret_type`, is not
saved: a block "init" stands for the initializer of a local or the value of a `ret`, its start sets
`hint` and its end clears it, whoever set it, and `hinted` remembers which items of code were
generated under it.  `InstancesSound` has two halves.  `InstancesAlone` compares the
end with what each function means by itself: its context from the start of its body
(`ContextOf`), the code in it (`CodeAlone`), and what the program reaches (`Needed`), which is a
fixed point looked for along chains of at most `MaxChain` names.  `HintsSound` does not say that
the hint is right, because it is not (§4); it says in which way only it goes wrong.

### Scalars, Macros, the parser, C headers

These compare an implementation with a reference over all inputs of a bounded
size.  `Scalars` evaluates an expression with the masked patterns of the
evaluator and runs the instructions that the generator would emit, traps included,
and compares both with arithmetic on integers.  `Macros` expands a flat sequence of
tokens by counting brackets and compares the result with the expansion of the tree
that the tokens were written from.  The parser's functions are terms of a small
language (`Grammar`); `Parser` runs a term on tokens with the parser's modes, its
saved states and its nesting budget; `Syntax` writes programs from trees of forms, with
the parentheses that a form needs where it stands, possibly with one token dropped or
put in.  `CHeader` reads the tokens of a header as the code does and `CImport` decides
which types can be had; `CDeclarations` says what C means by the same declarations.


## 3. What is checked

Seven runs pass; five show where the code does not do what is written about it
(§4).  Each passing run's properties each have a mutant in `PROJECT.json`: a variant
of one definition, kept beside it and marked *(Fault: ...)*, a mistake one could make in
that code, with which TLC finds the property violated in the same run.

| run | question | distinct states |
|---|---|---|
| `pool` | does every job run once, whole and unlost, is every sleeper woken, does a shutdown drain the queue? | 1,441,846 |
| `pool_live` | does the pool implement `FuturePool`, does all work conclude? | 10,928 |
| `coro_flat` | with bodies that do not wait themselves: is every resume and destroy defined, every item delivered once, does control return? | 464,519 |
| `generated` | with any bodies: is the queue exact, are continuations and children tracked, does a cancelled coroutine end, does the ring implement `HandleQueue`?  Then cleanup, lifecycle order, layout, C headers | 3,229,284 |
| `language` | receivers' captures, refinement of `SignalBus`, nobody spins for ever; calls through interfaces; instances of generics | 568,601 |
| `compiler` | builds, logs, heap registry, imports, integers, macros, parser | 976,885 |
| `runtimes` | ledger, report and verdict; async pool; zone; crash blocks | 3,383,398 |
| `pool_drop`, `pool_exit_hang`, `coro_continuation`, `coro_starved`, `signals_scope` | the five disagreements of §4 | ends at the first violation |

### The properties

* `RingConsistent`, `ExactlyOnce`, `ResultComplete`, `NoJobLost` (pool): counter, indices
  and slots agree and no job is queued twice; a job is in one pair of hands and runs once;
  nobody leaves a get before the function has returned; no dispatched job vanishes.
  `SleepersWoken`: while a worker sleeps, as many are awake as jobs are queued; so with
  dispatchers and free slots; who sleeps for a future that is done has a worker that has
  still to broadcast.  `ShutdownDrains`: after the last join every job dispatched before is
  done.  `ImplementsFuturePool`, `WorkConcludes`: refinement with fairness; every
  dispatched job completes and every call, a shutdown included, returns.
* `HandlesDefined`: no resume of a frame that is not suspended, no destroy of one that
  runs, no overflow of the ring, and no call in progress holds the handle of a freed frame.
  `ItemsDelivered`: what was yielded is what was returned, but for the item that lies
  ready.  `HandlesTracked`: a frame is in the ring exactly while it is suspended at a
  `yield;`, and once; a continuation is a coroutine that runs beneath the call that
  awaits; a coroutine has a child only while it drives it.  `CancelStops`: a coroutine
  that is suspended after its cancellation never gets back into its body.  `ControlReturns`:
  whatever main calls returns.  `ImplementsQueue`: refinement of `HandleQueue`.
* `OwnCaptures`, `ImplementsBus`, `RegistryIsReached` (signals): a receiver runs with what
  was stored when it was registered and retires its own cell; arrays, lock and loop
  implement `SignalBus`; nobody waits for the lock for ever.
* `LedgerSound`: the audit passes at every point, the records are the live blocks, the total
  is their sum, no call is refused as corrupted.  `ReportTrue`: a report that says it is
  complete is true from then on, and finish returns 0 only with such a report in the file.
  `FrozenByFailure`: after the first failure nothing is measured any more.
  `VerdictWellFounded`, `PassesWhenDeserved`: the driver's verdict in both directions, for
  any image that passes and for generated ones that deserve to.
* `AsyncAllServed`: jobs run at most once and end done or cancelled, no job is taken
  twice, no wakeup is lost, a shutdown leaves nobody waiting.
* `AllocationsSound`, `CrashBlocksRun`, `OrderKept`, `CleanupSound`, `LayoutSound`: see
  "What makes each component correct".
* `VisibleIsWhole`, `LogsSurvive`, `HeapAccounted`: likewise.  `OutcomeTold`: what is left of
  a build that ended, the destination, its metadata and the private directory, fits what the
  build said, up to what an archive build could not remove.
* `ImportsResolved`: each import that was passed without an error has one block of
  declarations, all that is visible of its module; blocks stand in the order of the
  imports; a block is linked just if an archive was named for its module before.
* `ScalarsSound`: evaluator, generated code and arithmetic agree, and both trap or refuse
  where the language says so.  `MacrosSound`: expansion of tokens is expansion of trees.
  `WrittenIsRead`, `NothingLost`: a written program is read as it was meant, a damaged one
  is read as something that contains all its tokens, or refused.
* `HeaderImported`: what is imported is what C means by it, and what cannot be represented
  takes everything with it that depends on it.  `DispatchSound`: see §1.
* `InstancesSound`: each function is generated once, in the saved part of the context it has by
  itself; and an item of code has the wrong hint in two cases only - it is in a value for which an
  instance with a value of its own was made, or in an instance made for a value and before the
  end of that instance's first value.

### Bounds

* pool: two workers and a client, four futures over a ring of two, no worker guaranteed, one
  blocked job at a time.  Four futures let the ring be full while a worker holds one job and
  another is being dispatched, so that it wraps and dispatchers sleep; two workers race for
  the last job and for the shutdown.  The liveness run has two futures and a ring of one,
  the least that can be full.
* coroutines: two tasks and a stream, ring of three (that is all handles, as
  `STS_EXECUTOR_QUEUE_CAP` is beyond what a program reaches).  One `yield` each in
  `coro_flat`; two for the stream in `generated`, so that an item is left behind when the
  stream is resumed.  A task that awaits a task that drives a stream is as deep as the
  links between awaiter and awaited go.
* signals: two threads, first capacity 1 (the second registration copies the arrays, where
  the code begins with 4), two registrations, two sends, five frames: a send within a
  receiver of another send, on another thread than the registration.
* observation: three blocks of sizes 0 to 2, `MaxU = 3`, so that sums reach and pass the
  limit; two records are enough for a resize and a release in either order; a report of two
  bytes is empty, partial or whole; two tests, at most one leaked byte allowed, all
  lines to be covered.  The ledger alone, under any calls, has one site; under the driver there
  are a resize anywhere, a slice in the second test and a release, and an image that makes any
  call allocates once (it takes one record to break what a site allows).
* async pool: two workers, two callers, two futures, ring of one.  Zone: sizes up to 23 with
  alignment 4, header 8 and blocks of 9, so that rounding up, adding the header and growing
  beyond the default can each wrap.  Crash: two threads, two signals, two blocks of each kind.
* builds: two of one destination, of either kind.  Logs: four runs over two indices, so that a
  log falls off the end.  Heap: four nodes.  Imports: two modules, two imports per file, four
  splices.  Integers of 2, 3 and 4 bits, expressions of depth two with up to four tests in a
  chain: every operand of every width, so every boundary.  Macros: two definitions, calls of
  two pieces, three expansions deep.  Parser: up to two forms in each other in three places
  of the program, with one token dropped or put in, and nesting budget 24.
* cleanup: two compound and two simple statements.  Lifecycle: three blocks, two titles, every
  set of constraints.  Layout: two types of up to three fields, address space of 15.  C headers:
  two providers and their users in every order, `int` up to 3, `long` up to 7.
* interfaces: two parents, two methods, three levels.  Generics: the programs of
  `SourceSet`, which use an instance from each place that can ask for one; 618 of them are
  accepted, and no chain of names is longer than `MaxChain`.

The scaled-down limits are constants with assumptions, and what is proved (§5) is proved for
every value of them.  Symmetry is used for workers and futures, tasks, and addresses, and in
no run with a liveness property.  Deadlock is checked in the pool's runs, where a thread with
nothing to do can always begin a call; the other programs end, and their runs say so.

### Fairness

`ThreadPool!FairSpec`: a thread inside a call and a worker in its loop get strong fairness,
because the operating system schedules threads and a mutex that is released again and again
is obtained in the end; a job returns; beginning a call is never fair.
`Coroutines!FairSpec`: the one thread runs on, and a body that does operations without
end comes to its next yield or its end.  `LanguageSpec`: each thread takes its own steps,
the decisions of bodies apart; as sends and registrations are bounded, a spinning thread
finds the lock free in the end.  `FuturePool` promises completion, by weak fairness of
`Complete`.  All other runs check safety.

## 4. Where code and words differ

Each of these is a run whose property states a line of the documentation or of a comment.

1. **A drop frees a future in use** (`pool_drop`, `thread_runtime.c:295`).  The fast path of
   `__future_get` sees `done` before the worker has broadcast and unlocked;
   `__future_drop` then destroys mutex and condition and frees the memory.
2. **A shutdown may not return** (`pool_exit_hang`, `thread_runtime.c:178`).  Workers leave
   when the queue is empty; a job that dispatches and waits afterwards has nobody to run
   what it dispatched, and the join waits for it.
3. **Continuations never resume a waiting awaiter** (`coro_continuation`, `cg_coro.c:431`): an
   awaiter is never suspended while it awaits, so the transfer at the final suspend
   resumes a coroutine that runs.
4. **`await.next` can be starved** (`coro_starved`, `cg_coro.c:766`): the loop runs the executor
   until it is empty before it looks at its stream.
5. **Receivers outlive their function** (`signals_scope`, `cg_signals.c:677`), and with it
   the frame that holds their captures.

Read in the code and stated by no run:

*Runtimes.*  `quit` in an exit block after main has returned calls `exit` a second time.  Two
executions of one `watch` in a frame share captures.  A `send` in a receiver reaches
receivers registered since the outer send began (`tests/signals/recursive.sts` says otherwise).
`wiki/Signals.md` describes a list without a lock.  A coroutine cancelled while it runs
beneath another may yield one more item; `wiki/Async-Await.md:375` lists `await` among the
edges that look at the flag, but an await in a coroutine has none.  Dropping a suspended
stream does not run its defers.  `await.any` prefers the first of its list to the first to
complete.  The async library's drop has the race of 1.  `wait_any` on null futures only
sleeps for ever.  Two threads that fault together can both run the crash blocks, a fault in
an exit block leads to a second `exit`, and a second fault on another thread ends the process in
the middle of the crash blocks, though `wiki/File-Headers.md:276` says that every block is invoked.
A cycle of lifecycle blocks falls back to source order (line 320 says error), and exit blocks
run forward (line 327 says in reverse).

*Builds and logs.*  A build refused before or at the removal of the old file leaves it, though
`main.c:2232` says that a failed build invalidates it.  An archive is published before the
old metadata is removed, so a kill between the two leaves a new archive with old metadata;
two archive builds at once can remove each other's archive.  Whether a failed archive build
could remove its archive and the metadata is not looked at (`main.c:2312`, `2316`): when it
could not, the new archive stays, with the old metadata if it could remove neither.  An observed build whose `rmdir`
fails reports failure with its file published.  `log_err` counts an error twice.  Leaks of
size zero are not noticed.

*Parser.*  `c ? *p : q` is read as error propagation, `c ? a : f(x)` as a colon accessor,
though the comments of `parse_expr.c:1845` and `1906` say otherwise; `(a * r)` is read as a
pointer type; `a.b.(x)` drops its object; a condition that ends in a call takes the body of a
`with` as its closure; `va.copy` and `future.get.(handle)` are refused.  These are named
in `ReadOtherwise`, `Fits` and `Dropped` of `Syntax`.

*Generics and interfaces.*  A generic function called with the caller's own type parameter is
instantiated for the parameter's name (`cg_expr.c:1788`).  Nested type arguments are flattened.
Pointer arguments lose their pointer.  Bodies made for a plain struct's layout are generated
before functions are declared.  Two parts of the context are not saved around an instance, though
the code says that it will "save outer function-generation context (we may be called lazily from
inside an active gen_block / gen_local_var etc.)" (`cg_generics.c:264`).  `in_unsafe` leaks into
bodies generated on the way.  `hint_ret_type` leaks both ways: a body generated inside an
initializer has the hint of that initializer until its own first one ends, and then the rest of
the asker's initializer has none (`cg_stmt.c:284-289`).  Whether a C call without a declaration
gives an `i32` or the hinted type (`cg_expr.c:2143`) thus depends on who asks first.  Both leaks
occur in the run `language`; `HintsSound` says there are no others.
What else depends on who asks first, and is kept out of `WellWritten`: a function whose signature
holds an instance by value whose methods call that function is declared and generated twice (the
types are made at `cg_generics.c:484`, the symbol is added at `518`); a destructor declared after
a method that has a local of the type comes too late for that local; a function template without
a module is generated under the module of whoever asked (`cg_generics.c:528`); a plain struct
first laid out inside an instance reads its fields with the instance's type parameters
(`cg_layout.c:80`).  And a body generated inside the layout of a type refuses as recursive a
struct that holds that type by value and is first named there; `Deserved` does not count this
as a reason, so a program of that kind would need one.
Constrained generics are refused though `wiki/Interfaces.md` describes them.

*C headers.*  `struct { int x, y; }` keeps only `x` (`wiki/C-Interoperability.md:126` uses
it); an unnamed member takes the next one with it; arrays of arrays keep one length; a
pointer to an array type becomes a pointer to its element; the names of `(**p)(...)` are lost; both
branches of `#if` are read.  `CDeclarations` names what its inputs leave out
(`TakenOtherwise`, `HalfRefused`).

*Preprocessor and imports.*  A call without arguments has one empty argument; `@param` in a
`@foreach` is not substituted; beyond 32 macros in each other the recursion guard forgets;
imports of spliced modules are skipped though `main.c:399` says they are resolved; a module
that is imported twice is spliced twice; what an imported module says of archives counts from
then on only, so that one module can be compiled and linked as well; cycles of `libimp` do
not end.

## 5. What is proved

TLAPS checks these theorems for every value of the constants that the named assumptions of
the modules admit: sets of threads, jobs, builds and addresses of any size, rings of any
length, address spaces of any width.  The list, with a sentence each, is `theorems` in
`PROJECT.json`.

**`ThreadPoolProofs`** — `TypeCorrect`, `RunsExactlyOnce`, `LosesNoJob`,
`RingStaysConsistent`, `ReadsCompleteResults`, `NoWakeupLost`, `ShutdownDrainsQueue`,
`StepsImplementFuturePool`.  That a job runs once rests on one pair of hands that it is in: a
slot, a dispatcher or a worker.  `Inductive` has the types, the ring, exactly once, no loss
and `HandsConsistent`, which ties each thread's place to its future; and `PoolDown`: no worker
runs while the table of workers is empty.  Lemmas say what putting and taking do to the
occupied window of the ring.  The wakeups need to know who can be between a test
and the wait that follows it: `TestsHold` says that whoever stands there has the mutex
under which the tested value is written (`WorkersParked`, `WaitersParked`, `GettersParked`), so
a change comes before the test or after the sleep, and its author has still to notify
(`NotifiersOwn`).  That no worker sleeps beside a job counts: a dispatcher adds a job and
wakes a worker, and who is awake leaves with a job or from an empty queue.  The shutdown's broadcast is covered by `ShutdownHeld`.  The safety part of the
refinement follows step by step: putting, completing and freeing are steps of `FuturePool`,
all else is a stutter.

**`AsyncPoolProofs`** — `AsyncTypeCorrect`, `AllServedAlways`.  The same argument where
the flag is set before the mutex is taken: `Settled` (types, `AsyncStopped`, `Hands`) says where
each job is, `Wakeups` (`TestsHold`, `ShutdownHeld`, `Sleepers`, `Undone`, `Drained`) why nobody is
left.

**`LanguageProofs`** — of the signals `TypeCorrect`, `CapturesAreOwn`, `ArraysImplementBus`; of the
generics `InstancesAreAlone`.

*Signals.*  `CellsOrdered`: cell
*i* holds receiver *i* + 1 or nothing; `FramesOK`: each send keeps within a length the registry
has reached and each receiver knows its cell; `BodiesWant`: only bodies wait for the lock.
Growing copies the cells, so no send under way sees a change; a registration writes beyond the
length any of them took; the cell a receiver empties is its own; the next cell is the receiver
registered first of those that remain.  One lemma per action maps it to an action of
`SignalBus` or to a stutter.

*Generics.*  `InstancesAreAlone`: in every program that is `WellWritten` and is refused nothing,
`InstancesAlone` holds, for any number of templates, parameters, fields, methods and statements and
requests nested to any depth.  `WellWritten` asks that names are declared once and blocks closed,
that a destructor is the first method and takes no arguments, that parameters stand for whole types
or arguments and never in a call, that what the program reaches is finite, and that the types of a
signature need no instance of the function itself: each is a place where the code's answer
depends on who asked first (§4).  612 of the 618 programs of the run that are accepted are
`WellWritten`.  The property alone speaks of the end, when `todo` is empty; the invariant
`InstancesInv` has to say of every state what the tasks below the top will find when they go on:

* `Planned`: there is a context for every task, the present one for the top, such that each turns
  its own into that of the next (`Follows`) - a body's is the one its function has there by
  itself, with the unsafe blocks of its asker around it (`FrameOf`); the end of an instance brings
  back exactly the saved one (`Returns`); and whoever is unsafe has an unsafe body below it.
  This is what fails if anything is not saved, not reset or not put back.
* `AllApart`: no two tasks make the same thing, and what the signature of an instance asks for
  is not in the middle of being made below it; so nothing is generated twice.
* `SoundState`: a struct that is not finished has a task that will finish it, and everything
  it has passed is there (`SoundStruct`); code is complete or under way, as it would be alone
  up to the statement its task has come to (`SoundCode`, `SoundTask`); a symbol has code or a task
  that makes it (`SoundSymbols`); all of it is needed.

One lemma per action shows that it is kept (`LayoutFieldKeeps` ... `EndPlainKeeps`), from lemmas
about pushing and popping a task.  At the end no task is left, so everything is finished, and what
is there is closed under `Needs`, hence is `Needed` (`AllThatIsNeeded`).  The proof assumes
`GenericAssumption`, which only gives the constants their types.

**`ObservationProofs`** — `LedgerAlwaysSound`, `ReportAlwaysTrue`, `FailureFreezes`,
`VerdictAlwaysWellFounded`, `DeservedPasses`.  The total is a sum over a finite set, defined by
recursion; the lemmas about it (adding, removing, changing one block) are proved by a least
counterexample.  `LedgerInv` ties records, total and progress to the allocator's blocks and the
publication's place to the file; `DriverInv` says what the driver can know of the child at each of
its steps.  The runtime's share of `Plausible` holds of every report (`PlausibleReport`), that of
the sites is kept by the generated calls (`SitesInv`, `GeneratedKeeps`).

**`CompilerProofs`** — `AlwaysVisibleIsWhole`, `OutcomeAlwaysTold`, `LogsAlwaysSurvive`,
`HeapAlwaysAccounted`, `ImportsAlwaysResolved`.  `BuildInv` says of every file who made it,
when, and how far its maker is (`MakersPast`, `OlderGone`, `Alone`, `RanOwn`).  `LogInv`: who rotates has the lock, and its plan is
right for the files as they are (`RotationPlan`); `OrdersCounted` orders the logs by age.  `HeapInv`:
the list is ordered and linked both ways, and the scan has passed what it counted
(`ScanPassed`).  `ImportsInv` adds to the property that nothing is spliced for, and no error
noted of, an import the loop has not passed (`ByPassed`), so that a step's block cannot mix
with another's; it assumes that no module imports the primary file.

**`LifecycleProofs`** — `OrderAlwaysKept`, `CrashBlocksAlwaysRun`, `CleanupAlwaysSound`.  The order's invariant says that
the degrees count the predecessors not yet placed (`EdgesExact`, `DegreesExact`), that what is placed
is placed once and after its predecessors, and that the fall-back is taken only when the
blocks that are left form a loop (`FellForReason`).  The crash invariant says how far the handler
is for the number of faults there were.  Of the cleanup: every basic block has a set of
registrations it is entered with and one it is left with, whatever way leads to it (`Graph`), as in
a type system; each edge joins equal sets, each instruction between the two is allowed (`IsRun`).
While the function is generated the block that is filled is left with what the open scopes hold, and
a target of `break` or `continue`, or a block of an open construct that is still to be filled,
expects what the scopes it retains hold (`TargetRight`, `ConstructRight`); no other block is open
(`OpenRight`).  One lemma per statement shows that this
`CleanupInv` is kept, and the run is then a walk through the sets.  The theorem has no bound:
`MaxSimple`, `MaxCompound` and `Constructs` are arbitrary.

**`MemoryProofs`** — `ZoneTypeCorrect`, `AllocationsAlwaysSound`, `LayoutAlwaysSound`.  Of the zone:
the chain of blocks fits and is aligned, so an allocation lies in one block, behind the earlier
ones; no sum of the code wraps.  Of the layout: `CompletesRight` (a complete type is laid out as its
members' shapes say, and was accepted), `CallsRight` and `FramesRight` (a call in progress has got
the shapes of the members among the fields it has passed, `GotUpTo`), `Acyclic`, and, for the other
direction, `Reasons` with `Doomed`: a type that failed has a reason of its own, or holds a
type that failed or that is still being visited by a call that can only fail.  Lemmas say that
`BodyFits` holds exactly if the size is within the limit and that `ArrayFits` is exact although the
products it tests wrap.  Assumed of the target, and so in LLVM's data layouts: of two alignments
the smaller divides the greater, and a builtin type's size is a multiple of its alignment.

**`CoroutineProofs`** — `CoroutineTypeCorrect`, `HandlesAlwaysTracked`, `ItemsAlwaysDelivered`,
`NeverStale`, `CancelAlwaysStops`, `RingImplementsQueue`, `FlatHandlesDefined`.  For any
handles, any capacity of the ring and any `MainOps` and `BodyOps`, but for the last, which says so.

* *The ring.*  `WithoutFacts` says what `remove`'s loop keeps (all the others, none
  twice that was there once); `EnqueueAppends`, `RemoveKeeps` and `TakeNextTakes` that the array with its indices
  modulo `Cap` behaves as a sequence.  `RingStep`: every step of the coroutines is one such
  operation at most, hence `RingImplementsQueue`.
* *The stack.*  `StackInv`: main's frame is at the bottom, nobody has two frames, a coroutine runs
  exactly while it has one, and who is at the final suspend calls nobody.
* *The invariant* `Inv`.  `QueueExact` alone is not inductive: that a coroutine at `yield;` is not
  queued yet needs that it runs, so the stack; that who is resumed leaves the ring needs that the
  drive loops hold a handle that exists (`Held`), whose owner is the caller (`Owned`), so nobody else has
  destroyed it; that a destroyed task was at its end needs `Completed`.  `ItemsDelivered` needs that
  `yield expr;` never finds an item still lying there, so `ItemsWait`.  `ContinuationsWait` and
  `ChildrenDriven` say where the two links of the promise lead.
* *Cancelling.*  `StackStep` lists what a step can do to the stack: the only way back into a body
  from a resume edge is `ResumeEdgeLive`, which looks at the flag, and `CancelStays`: nobody clears it.
* *Defined behaviour.*  `FlatHandlesDefined` assumes `FlatBodies`: coroutines leave `await`,
  `await.next`, `await.all` and `await.any` to main and wait for one another by `future.wait` and
  `drop` only, and the ring has a slot for each handle.  `FlatInv` adds to `Inv` that each coroutine
  on the stack was called by its owner (`CalledByOwner`) and that the owners form no circle
  (`OwnersOrdered`): what the top call owns cannot be running beneath it, so it can be resumed
  or destroyed.  Both parts of the assumption are needed: §4 shows an awaiter that is woken while it
  runs (`coro_continuation`), and `yield;` asserts when the ring is full.

**Only model-checked**, and why.

* `WorkConcludes`, `ControlReturns`, `RegistryIsReached` and the fair part of
  `ImplementsFuturePool`: liveness under fairness.
* `ScalarsSound`, `MacrosSound`, `WrittenIsRead`, `NothingLost`, `HeaderImported`,
  `DispatchSound`: they compare recursive functions over trees and
  sequences with recursive references, so a proof would be an induction over data, with
  `RECURSIVE` operators; TLC compares them on every input of the bounded size.
* Of `InstancesSound`: `HintsSound`; that a refusal has a reason (`Deserved`); and what holds of
  accepted programs that are not `WellWritten`.

## 6. What is not modelled

* Within the modelled components: failing `malloc` (except in the observation runtime and the
  zone, which look at it), failing thread creation in the async pool, the Windows variants, the
  contents of payloads, results and captures, the weak memory model (each atomic the code uses
  is an acquire or a release of a single flag, and one atomic step here); jobs of the async
  pool that themselves call it (those of the thread pool do); macro calls of more arguments than
  `PP_MAX_PARAMS`; which refused C declarations get a diagnostic (`quiet_skip`).
* Within the parts modelled partly: preparation, hashes and JSON evidence of observed
  runs; command line, project files; floating point, pointers and slices of the
  evaluator; flow analysis of interface descriptors; type switches and compile-time members of
  templates, lambdas and slices in them (whose captures, depth and hints an instance takes from
  its asker as it does `hint_ret_type`); text of headers, preprocessor conditions of C; the lexer's characters and
  source positions; conditions and attributes of file headers.
* Semantic analyses, the source graph of observed builds, translation of expressions and types,
  linker, diagnostics, editor, standard library: passes over trees without a protocol or
  state that outlives them.  To state that they are right takes the semantics of both languages.

## 7. The plan

Done: every component that keeps state over time or meets another process or thread, and of
the sequential passes those whose answers can be compared with a reference.

Next: a model of the flow analysis of interface descriptors (`cg_iface_sources.c`,
`cg_iface_locals.c`) against paths of a function; the coroutine analysis against
`Coroutines`' notion of a body.
