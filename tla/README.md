# A TLA+ verification of milojs

This directory models milojs, a JavaScript engine and runtime written in Milo: the
concurrent core of the engine - how async functions suspend, how promises settle, how
generators hand control back and forth - and the parts of its JavaScript library that
keep state, call the program back, talk to the operating system, or compute what is easy
to get wrong. TLC checks the models on small instances. TLAPS proves, for any number of
them, the safety of async suspension, of promises, of generators and of streams, and of
what is begun and must settle - promise combinators, disposable stacks, web streams,
datagram sockets, child processes, the sweep over Node's tests - and that async
suspension implements async calls. Paths below are relative to the
repository's root; those that begin with `lib/` or `scripts/` are the library's and the
test programs'. `PROJECT.json` says which lines a definition models; a helper of a few
lines that stands for lines of the operator which uses it is in that operator's entry.

## The system

milojs runs JavaScript on one operating-system thread with green tasks. The main
task runs the module body and then the event loop (`src/milojs.milo`); each async
call and each generator body has a task of its own. Tasks switch only where native
code parks or yields, but almost everything is shared: the interpreter's state
(`Interp` in `src/engine/runtime.milo`) is one record of parallel vectors that
tasks search by address, object index or position. What can go wrong is therefore
interleaving at park points, stale positions, and lost or spurious wake-ups, none
of which a test that runs one schedule sees.

The library comes in layers. `milojs-engine` runs `lib/engine-prelude.js` alone; the
runtime runs `lib/engine-prelude.js`, `lib/temporal.js` and `lib/prelude.js` one after the
other in one global scope (`src/milojs.milo` 365-387), so what the last defines again
replaces what the first defined: `structuredClone` (`prelude.js` 299), `Promise.all`,
`allSettled`, `race` and `any` (73-150) and the `Promise.resolve` under them (1317).
`Combinators` and `Structures` have both versions, and say which one a property is of.

| component | state it keeps | operations | interactions and what is hard | what makes it correct |
|---|---|---|---|---|
| async suspension (`eval.milo` 13505-13700, 14082-14290) | activation table (`act*`), await registry (`awaitPromise`/`awaitTask`), `suspended` contexts, `tempRoots` | spawn, await, settle-and-wake, release the creator, end | parks and unparks tasks; saves and restores the interpreter's execution state | no lost or spurious wake-up; a caller released once; contexts and roots never mixed; an ended activation's promise settles (R1-R8 of `docs/milojs-async-suspension.md`) |
| promises and microtasks (14394-14680, 12530-12570, 15900-16010) | `promiseState`, `promiseResolved`, `reactions`, `microtasks`, `unhandledRejects` | construct, resolve, reject, then/catch/finally, adopt, drain, report | user code runs inside executors, handlers and in-place drains | settled once and for ever; no chain dropped; handlers in order; unhandled rejections exact |
| generators (13700-14076, 14292-14358) | the `gen*` vectors | make, next/throw/return, yield, finish, remove | caller and body park for each other; rows found by object and by task address, and moved by removal | one side runs; a step reaches its caller once; a yield finds its own row |
| event loop (14681-14851) | `timers`, servers, fetches | due timers, accept, yield to activations, sleep, exit | decides who runs next and when the process ends | no starvation, no early exit, nothing stuck silently |
| heap and collector (`runtime.milo` 1168-1432, 2744-2978) | object, scope and extra slots, free lists, owners, finalizer queue | allocate, mark, sweep, attach/take owners | every other component must keep its values reachable | no live value freed; each owner finalised once |
| rooted vectors, stack scan (`rooted.milo`, `stackscan.milo`) | registry of live vectors | new, push, drop | registry positions change on drop | the registry lists exactly the live vectors |
| execution context and realms (`runtime.milo` 420-560, `realm.milo`) | the fields of `ExecCtx` | save, restore, enter a realm | which fields travel with a task and which stay ambient | R6: nothing ambient across a suspension |
| modules (`src/runtime/modules.milo`, `eval.milo` 8005-8160) | `mod*` vectors | preload, run, require | cycles, bodies that throw, reentry | a body runs once; cycles see partial exports |
| combinators, disposable stacks, iterator helpers (`lib/engine-prelude.js`, `prelude.js`) | counters, capabilities, disposers, wrapped iterators | all, allSettled, any, race; use, adopt, defer, move, dispose; map to zip | elements, disposers and sources are program code that throws, re-enters, answers twice | one answer, by the rule; every resource disposed once, in reverse; a source closed once |
| regular expression methods, graphs (`lib/engine-prelude.js`, `prelude.js`, `builtins.milo`) | `lastIndex`, tables of objects seen | match, replace, split; structuredClone, JSON | empty matches, surrogate pairs, a replaced `exec`; cycles and shared objects | no text lost, no loop; copies have the shape of the original |
| streams (`lib/stream.js`) | buffers, flags, timers | push, read, write, end, destroy, cork, pipe, pipeline | every listener and hook may call back into the stream | chunks in order and whole; one end; errors reported; what is ended settles |
| sockets and HTTP (`lib/net.js`, `lib/http.js`) | sockets, the list the loop reads, parser state, held chunks | connect, write, end, destroy, pause; request, respond, abort | reads cut anywhere, peers that reset, two actors that give up | bodies whole in every framing; one close, one abort; the loop lets go |
| emitters, targets, signals, domains, channels (`lib/events.js`, `prelude.js`, `domain.js`, `diagnostics_channel.js`) | listeners, active domains, subscribers | emit, dispatch, abort, run, publish, trace | listeners that add, remove, throw and emit during an emission | once is once; an error finds one handler; events of a trace nest |
| web streams, datagrams, children, clusters (`prelude.js`, `dgram.js`, `child_process.js`, `cluster.js`) | queues and waiting reads, polled sockets, processes | enqueue, read, cancel; bind, send, close; spawn, kill, report | the kernel's and the workers' own time | nothing waits for what ended; a child is reported once, truly |
| files, descriptors, paths (`lib/fs.js`, `path.js`) | the tree, descriptor numbers, remembered paths | mkdir, rm, open, close, read, write; normalize, resolve, relative | other processes, the collector, reused numbers | answers fit what was done; only the owner closes |
| buffers, assertions, addresses, readline (`lib/buffer.js`, `assert.js`, `url.js`, `querystring.js`, `prelude.js`, `readline.js`) | little | codecs, copies, comparisons, parsers, lines | boundaries, overlaps, cycles, chunks | what is written is read back; equal means equal |
| Temporal (`lib/temporal.js`) | none | add, until, since, round, print, parse | the ends of months, leap years, ties, signs, offsets | every two ways to the same answer agree |
| test runner and sweeps (`lib/test.js`, `scripts/*-sweep.ts`) | the tree of tests, exit status; a pool of cases, their process groups | run, score, time out, kill, confirm | hooks that throw; cases that hang, fork and escape | success means everything ran; rows tell what happened |
| embedding (`src/libmilojs.milo`), Node-API (`src/runtime/napi.milo`) | handles, generations, references | create, retain, release, call | a host that keeps handles too long | no handle names another value |
| evaluation, bytecode VM, bigint, parser, regex, REPL | the heap | the language | sequential | tested by test262 and Node's suites |

## Modules

- `AsyncSuspension` models async calls in full. A task's position in native code
  is `pc`, the scheduler's view of it is `task`; an action is the code between two
  points where a task can switch or where the program chooses its next call. The
  vectors searched by task or promise are sets of rows (`awaitReg`, `act`,
  `suspended`); no property depends on row order, because the scheduler does not
  promise the order in which unparked tasks run (R3 is best effort,
  `docs/milojs-async-suspension.md`). `Settle` is `settlePromise` with
  `wakeAwaiters`; `CallAsync`, `AwaitPending`, `ReturnPending` and so on follow
  `spawnActivation`, `parkOnPromise` and the end of a body; `MainAwait` to
  `AwaitGivesUp` are the top-level await that drains in place; `LoopYield` and
  `LoopExit` are the branches of `runEventLoop` that meet activations.
- `AsyncSuspensionProofs`, `PromiseJobsProofs`, `GeneratorsProofs`, `StreamsProofs` hold
  the theorems of their components, `SettlingProofs` those of the six that `MCSettling`
  composes, `MCGenerators` those of the two kinds of behaviour it runs.
- `PromiseJobs` models promises for programs that do anything the language lets
  them: executors, handlers and callbacks are `frames` on a stack, and code in the
  top frame may resolve, reject, attach handlers, await, throw or return. Drains
  that await starts in place nest above running code. Activations appear only as
  "somebody awaits p".
- `Generators` models the records and the hand-over of control. A body's task is
  named by its generator and has an address out of `Cells`, because `yield` finds
  its record by address and addresses are reused. Callers are the script, the
  event loop's callbacks, activations and other bodies. `binding` and `held` are
  positions native code keeps while code of the program runs. Programs may call a
  generator that has a call in progress, and an address may be given away as soon as its
  body is dead: `astray` remembers that a call overlapped another or that a body handed
  its step to another's record, after which callers and steps no longer pair.
- `AsyncCalls` is the abstract specification of async functions: calls that run, wait
  and end, callers that are blocked, promises. It knows no tasks, registries or contexts.
  `AsyncSuspension` instantiates it with a refinement mapping (`Abstract`), and
  `ImplementsAsyncCalls` says that each step is one of its steps or changes nothing.
- `Streams` models `lib/stream.js`. `stack` holds the library's calls in progress,
  innermost first, and a frame "user" is program code - a listener, a hook, a callback -
  which may call any method again, so re-entrance is a matter of the stack and not of
  special cases. `timers` are the zero-delay timeouts the library arms.
- `Sockets` models `lib/net.js` in the same style with both ends of a connection and the
  kernel's queue between them; a read takes any non-empty prefix. `HttpExchange` extends
  it with `lib/http.js`: the parser's states, the framings, what a paused response holds,
  and aborts from either side. Its messages are tokens, so a read may be cut anywhere.
- `Responses` has the methods of a `ServerResponse` and an `IncomingMessage` one by one,
  in any order, which `HttpExchange` uses in only one.
- `TemporalSpans` (the ISO calendar, times, roundings, durations) and `Temporal` (the types
  that hold dates) are the operators of `lib/temporal.js`; each is compared with another
  way to the same answer while a pair of date-times walks apart. `TemporalTexts` prints
  values, annotates the texts and reads them with every type's `from`. A day has few
  nanoseconds in a check: `Radix` holds the factors.
- `Combinators`, `Disposables`, `WebStreams`, `Children`, `Datagrams` and `Sweep` model
  what is begun and must end. The loop's jobs, the producer, the kernel, a dying process
  and its workers are actions of their own. `host` says whose combinators a behaviour
  calls, the engine's or the runtime's; `mute` that a web stream was failed with a reason
  that counts as none; a signal may end a child or leave it running.
- `Emitter`, `EventTargets`, `Domains`, `Tracing` have an emission or a call in progress
  as a frame, so that every call of a listener is a step. `Lines`, `IteratorHelpers`,
  `TestRunner` are driven by a program in the same way; `FileTrees` and `Descriptors` by
  a program, another process (which also puts links where directories were), a kernel that
  refuses, and the collector; `Paths` and the second half of
  `TestRunner`, how the sweeps over the conformance suites score a case, by one input a
  behaviour.
- `RegExps`, `Buffers`, `Structures`, `Assertions` and `Queries` are pure: a behaviour is
  one input, and the invariant compares what the code computes with what it must be.
  Their text is a sequence of the characters that matter (a separator, an escape, a half
  of a surrogate pair), a byte is a number below `Radix`.
- `MC...` modules give model values, symmetries and instances. `MCLibrary`, `MCSettling`,
  `MCData`, `MCGenerators` and `MCTemporal` put components that share no state side by
  side: `part` (or `kind`) chooses one in the first state and the rest stay as they are,
  so that one run checks them all at the cost of their sum.

`AsyncSuspension`, `PromiseJobs` and `Generators` are separate because the joint state is
too large to check: the interfaces are the promises activations await (abstract in
`PromiseJobs`) and the awaits around generators (`Await` and `Settle` in `Generators`, one
promise a task). `HttpExchange` is composed with `Sockets`; the other parts of the library
meet only through calls of the program, which every model leaves arbitrary.

## Runs

All use two workers and end within a few minutes.

| run | bounds | shows |
|---|---|---|
| `async_suspension` | 3 activations (symmetric), 1 explicit promise, 1 await a task | the eight invariants proved below, on every interleaving, and that async calls are implemented (`ImplementsAsyncCalls`) |
| `async_live` | 2 activations, 1 promise | calls return and settled awaits resume, under fairness |
| `promise_jobs` | 3 promises (symmetric), 3 callbacks or draining awaits | `ReactionsKept`: the first call decides, no chain is dropped or reordered, pass-through keeps the state, the unhandled record is exact; a settlement is final |
| `promise_live` | 2 promises, 4 turns | every reaction of a settled promise runs |
| `generators` | 2 generators, both synchronous, or one of them async; 2 calls or awaits a task, 1 activation, 2 addresses; once astray, `MaxHanded` = 2 steps a body | `CallsAnswered`: a live body keeps a record of its own; until a call overlaps another or a step reaches another's record, one side runs, a step is received once by who asked, no task wakes before its promise settles; nothing deadlocks |
| `streams` | 3 streams, 3 chunks, high-water mark 2, 8 kinds of program with 1 to 5 calls | `ChunksKept`, `StreamsProgress` |
| `http` | 1 connection, 7 kinds of program with 3 to 6 calls, bodies of up to 3 bytes | `ExchangeSafe`, `ExchangeEnds` |
| `temporal` | 3 anchors, 2 clocks, walks 370 days ahead and 45 back; 5 dates, 2 clocks, 2 offsets, 2 annotations | calendar, differences ahead and back, roundings and texts agree |
| `library` | 2-3 listeners, domains, lines of 5 characters, sources of 3 values, trees of depth 2, 2 descriptors, paths of 3 components, 2 tests | each part's own properties, by `part` |
| `data` | subjects of 3 units of the basic plane or halves of a pair, `lastIndex` from 0 to past the end, stores of 4 bytes, graphs of 3 objects, words of 2 and addresses of 4 characters, 4 calls on a response | the same for the parts that answer one call at a time |
| `settling` | 3 elements, 3 resources, 3 chunks, 2 texts, 3 processes, 2 sockets, 2 cases | order and accounts, and that everything begun ends, under fairness |
| `async_throw` | as `async_suspension` | ends in a counterexample: see below |

The bounds are where the interesting cases begin. Three activations let one be creator,
one awaiter and one settler of the same promise; three promises make a chain with a
branch; two generators and an activation give nested calls and removal of a record below
another. Three streams are a source, a middle and a sink; a body of three bytes can be cut
inside a chunk, between chunks and in a size line. A walk of 370 days crosses two
ends of year and every end of a month: through year 0, which begins an era of 400 years
and is a leap year, past the epoch, and from March 1600 on, another such leap year. Going
back 45 days from the 20th of that March meets February 29 and the end of January, from
a day every month has, so that differences in months are retraced too. Three units hold a surrogate pair
beside an empty match; four bytes hold two overlapping views. Three objects make a cycle
with a branch.

Each listed property is often a conjunction of named parts, one per guarantee, each
commented in the module of its component. The mutants of `PROJECT.json` show that each
property fails when the code it is about is broken in a plausible way.

`CHECK_DEADLOCK FALSE` is set where the program may stop with nothing left to do, which in
the library models is the normal end. Of the engine's models only async generators may
stop (`Rests`): the main task may wait for a body that awaits (a known limit,
`docs/backlog.md` 475-508).

### What the repository says and the code does not do

`async_throw` is the run that ends in a counterexample against a sentence of the
repository: the loop yields without saving its context, so a resumed activation discards
an uncaught throw of the module body. The modules state more such sentences, under a
heading of their own; TLC refutes each when it is given as the only property of the cfg of
its run (for `StuckAwaitReported`, under `FairSpec`; those of `RegExps`, `Buffers`,
`Structures`, `Assertions` and `Responses` from the `INIT` and `NEXT` of their modules).

| module | property | what the code does |
|---|---|---|
| `AsyncSuspension` | `GivesUpOnlyWhenStuck` | a top-level await is reported as unsettleable while an activation that would settle it is ready |
| `AsyncSuspension` | `StuckAwaitReported` | activations parked on unsettleable promises keep the loop yielding for ever; nothing is reported |
| `PromiseJobs` | `FirstCallAlwaysDecides` | an executor that throws after resolving with a pending promise still rejects |
| `Generators` | `YieldFindsOwn` | a body's address is given away before its caller has read the last step; until then a yield of the next body finds the ended record |
| `Generators` | `CallerStaysOnRecord` | `next()` during a call in progress overwrites the caller on record; the first caller is lost |
| `Generators` | `RowsNotInterleaved` | a position held while parameter defaults run, or an async yield's operand is awaited, is stale once another record is removed |
| `Combinators` | `WaitsForAll` | the runtime's read `length`: an iterable without one (a Set, a generator) is an empty list to `all` and `allSettled`, and `any` of it stays pending |
| `WebStreams` | `FailureEndsReads` | after `error()` with a falsy reason (or none) later reads wait for ever |
| `FileTrees` | `NeverWalksLinks` | rmSync walks a link that takes a directory's place between lstat and readdir, and removes what it points to |
| `FileTrees` | `RemoveTells` | rmSync ignores what unlink and rmdir answer, and returns though it left entries behind |
| `Temporal` | `UntilLeadsBackward` | a difference in months or years to an earlier date is that of the other direction negated, which does not lead back where a month is cut short |
| `Streams` | `FinishNeverAfterDestroy` | a stream destroyed while its `_final` is pending still emits 'finish' |
| `Streams` | `HalvesIndependent` | the exported Duplex is Transform: what is written to it comes out of its own readable half |
| `HttpExchange` | `AbortDeliversNothing` | a request aborted by its 'response' listener still delivers the bytes that came with the head |
| `HttpExchange` | `NeverParks` | an http server reads with a blocking receive, so a silent client of the same process stops the loop |
| `Responses` | `LateHeadersRefused` | a header set after the head went out is accepted and lost: nothing sets `_header` |
| `RegExps` | `MatchPassesNone` | the native exec and its caller each move past an empty match: match, matchAll and replace pass over a place where the pattern matches |
| `RegExps` | `SplitKeepsText` | so does split, and loses the text there |
| `Structures` | `CyclesCloned` | the runtime's structuredClone is a round trip through JSON and throws on a cycle |
| `Buffers` | `CopyIsSnapshot` | copy chooses its direction by indices relative to each view, and overwrites what it still must read |
| `Assertions` | `OnlyTheExpected` | `throws(f, RangeError)` passes for a TypeError, because calling the class answers an object |
| `TestRunner` | `FailedMeansNonZero` | a file may fail and end with status 0 |

### Bounds and assumptions

`MaxAwaits`, `MaxTurns` and `MaxSteps` bound what each task or program does; all
other sets are finite constants. `MaxHanded` bounds the steps of a body in a behaviour of
`generators` that has gone astray, where `taken` and `handed` no longer keep pace; before
that nothing but `MaxSteps` does. `CombinesByRule` is stated of elements that call back
once (`Ordinary`), as every promise does; `NoneLeftWaiting` of streams that were not failed
with a falsy reason (`mute`); `UntilAddsBack` of differences that can be retraced
(`Retraceable`); what `TextsKept` says of a place after an empty native match is
`Skipped`. The behaviours these leave out are in the runs all the same: for the last three
the table above names the property that fails; elements that answer twice are the
engine's only, and what holds of them is that the count reaches zero once. `ForkBombStops`
is of `spawn`, `exec`, `execFile` and `fork`: `run()`, behind `spawnSync`, sets the depth in
`process.env` and hopes that it reaches the child (`child_process.js` 46-59). Queue order of ready tasks is left open in every model.

### Fairness

`AsyncSuspension`: native code that holds the thread makes progress
(`WF` of each task's steps), armed timers fire (`SF`, because a task that runs
disables the loop), and a ready task eventually runs (`SF` of `Resume`): the
scheduler's run queue is first in, first out. `PromiseJobs`: program code returns,
and the drain and the loop go on while there is work (`WF`). Neither assumes that
a promise is ever settled.

The library runs on the loop, and its fairness is the loop's: calls in progress go on
(`WF` of the library's steps and of a listener's return), armed timers fire, the loop
comes round to what is registered with it, jobs are run. `HttpExchange` adds that bytes
sent are delivered or the connection is reset. `Combinators` and `Disposables` assume that
a promise given to them settles, `WebStreams` that the producer ends its stream, `Children`
that the worker thread which waits for a dead process tells of it, `Sweep` that timers fire
and that what escaped its group ends some day; a case itself may hang for ever. No model
assumes that a program, a peer or a case does anything else.

## Proofs

The proofs are of every value of the constants that satisfies the named assumption of the
module (the main task is no activation and no generator, activations' promises are distinct
from explicit ones, the value for "nothing" is none of them, bounds are natural numbers, a pipeline is
made of streams there are, each once). No
property is inductive alone; each proof rests on an invariant that says how the parts of
the state fit.

### Async suspension (`AsyncSuspensionProofs`)

Every safety property of `async_suspension` holds of `Spec`. `IInv` conjoins

- `TypeOK`;
- `SchedInv`: which `pc` each scheduler state admits, and that one task runs;
- `AwaitInv`: the await registry lists exactly the parked awaiters of pending
  promises. It needs `SchedInv` to know that an awaiter that is not runnable is
  parked, so that `schedulerUnpark` has an effect;
- `CreatorInv`: one row for each live activation, and each parked creator is owed
  by exactly one row that is not yet notified;
- `CtxInv`: suspended tasks and saved contexts correspond one to one;
- `RootInv`: what is in `tempRoots` while a task runs, while nobody runs, and in
  each saved context. It is what makes a restored context the task's own, and
  needs `CtxInv` for "each" to mean "the".

`BornInv` (an activation's promise does not exist before it) is inductive beside
it. There is a lemma for each building block (`Settle`, `SaveCtx`, `EndBody`,
`ResumeCtx`), frame lemmas for the parts an action leaves alone, and one step for
each action. `EndedStaysOwed` (an ended activation's promise is settled or owed a
settlement) has an inductive argument of its own: settling a promise turns its
followers into jobs and drops none, and a job settles what it names.

`Refinement` proves that `Spec` implements `AsyncCalls` under the mapping of
`AsyncSuspension`: the first states correspond, and each action is a step of a call or
leaves what the mapping reads as it is. The mapping reads the activation table for who is
blocked on whom, which is one call a caller by `CreatorInv`; a step out of an await is one of
the specification's only because the promise has settled, which `AwaitInv` and `SchedInv` say.
`OwnInv`, inductive beside `IInv`, adds that the promise of a body in progress is pending and
that only promises of calls that ended follow others or are settled by jobs, so that a call's
promise settles at its end or after it.

### Promises (`PromiseJobsProofs`)

`ReactionsKept`, `SettledForever` and `TypeOK` hold of `Spec` for any number of promises.
A reaction is a triple (the promise it is of, its kind, the promise it settles), and is
followed through the places it may be in. `IInv` conjoins

- `PlacesInv` and `DistinctInv`: a reaction that was attached waits at its pending promise,
  or is a job, or has begun, is in one of these places and once in it, and a job carries
  the state its promise has;
- `PairInv`: how far a promise's pair of resolvers is, against what was asked of it first;
- `OriginInv`: what may settle a promise - its open pair or one reaction. Two reactions
  for one promise occur only when a handler returned a promise which the first then follows;
- `ChainInv`: a pending promise whose pair is no longer open has a reaction still to act,
  which is why no chain is dropped. It needs `OriginInv`, so that the reaction that acts is
  the last one of that promise;
- `HandledInv`: a pending promise counts as handled exactly while something waits for it,
  and the record of unhandled rejections is exact;
- `ExecutorInv`: nothing waits for a promise while its executor runs, so that the one that
  throws rejects a promise nobody has attached to;
- `OrderInv`: along the places, reactions of one promise keep the order of attachment:
  what began, then what is queued, then what waits;
- `FirstCallDecides` and `PassThroughKeepsState`, inductive beside these.

`AwaitsInv` (awaits that drain in place wait for promises the program knows) is proved
beside it, because a promise a program can name is one whose executor has returned.
`HandlersInOrder` follows from `OrderInv`, and is stated with positions: of two reactions of
one promise, the one attached first begins first.

### Generators (`GeneratorsProofs`, `MCGenerators`)

Records are kept in a sequence the code searches by generator or by address and compacts
on removal. The lemmas of the first part relate the sequence to the set of its records
(`Rows`), of which everything else is said. Three layers:

- `RowsInv`: types, no generator has two records, each record is of a generator that was
  made. It holds whatever the program does, and gives `TypeCorrect`;
- `BodiesInv`: a record that names an address names that of its generator's body, no two
  live bodies have one address, and each live body has a record of its own. It holds
  whatever calls overlap and whichever addresses are reused, and gives `BodiesKeepRecords`;
- `CallsInv`, relative to `astray`: until a call has overlapped another of its generator or a
  body has handed its step to another's record, `AskInv` (who asks is in a call, lives, and
  is the caller on record), one asker a generator, and `RowInv`: a record is at one of four
  stages - never called; its body parked at a yield and nobody asking; its body at work and
  its caller parked; answered and its caller awake. `WaitInv` and `CreatorInv` say that
  whatever else wakes a parked task - a settled promise, a spawned activation that awaits -
  wakes no caller; `HandedOne` counts the step on its way. A program that a stale index
  stopped (`Aborted`) is a case of its own. It gives `AnswersPaired`.

Nothing is assumed of the program or the scheduler. Where the code relies on them - calls
that do not overlap, addresses not given away early, positions still right after program
code ran - the model goes on, `astray` notes when a call or a step has gone to the wrong
place, and the theorems say what holds before (`AnswersPaired`) and what holds always
(`BodiesKeepRecords`); the sentences those behaviours refute are in the table above.
`BothTyped` and `BothAnswered` state the run's two invariants for any number of
generators, activations and addresses, in both kinds of behaviour.

### Streams (`StreamsProofs`)

`TypeOK` and `ChunksKept` hold of `Spec` for any programs, streams and chunks. All rests on
`Shape`: the types of every variable and frame, and `StackInv` - a call that is carried out
at once is the innermost, and the callback of a drain the outermost. Its step lemma says of
each action what calls it begins, and on top of what (`Moves`), and what is known of a call
when it begins (`Begins`); from that, six invariants follow beside each other:

- `EndInv`: 'end' was recorded as often as `_doneEmitted` says;
- `OrderInv`: what a source has handed on and what it holds go up to the last chunk made,
  which is the one a `push` in progress carries; this is `BufferedInOrder`;
- `FinishInv`: a `finish` that is about to run is of a stream not destroyed, or of one with
  a `_final`, so that no 'finish' follows a destroy;
- `FailInv`: a failed write is recorded or the call that will record it is in progress;
- `WriteInv`: what a writable stream was given is what its sink has, then the chunk being
  given, then what a flush in progress has left (`Holding`: there is one such flush, or none),
  then what is held; and an uncorked stream holds nothing. It is what makes a write that is
  not held unable to overtake, unless code that runs inside a flush writes;
- `PipeInv`: a destination piped to before the first chunk still listens, and was written all
  that was handed on, but for the last chunk while that one is due: in an emission that has
  not come to the destination yet, or in a `write` about to run. It needs `StackInv`: a drain
  goes on only when the emission of the chunk before has ended.

At rest no call is in progress, so nothing is due, on its way or left to a flush, and the
conjuncts of `ChunksKept` are what remains.

### What must settle (`SettlingProofs`)

`SettledInOrder`, `ProcessesAccounted` and `ResultsKept` hold of `Spec` of `MCSettling`, for
any number of elements, resources, chunks, texts, sockets, descriptors, processes, cases and
workers. The parts share no state: `PartsStep` says that a step is a step of the
part the behaviour is about, and `SettlingInv` is the invariant of that part. Assumed is what the modules' own assumptions
say: bounds are natural numbers, there are finitely many sockets, stacks are numbered, and
the program is none of the texts.

- `CombInv` (combinators): `WholeInv` - the array is handed over exactly once `remaining`
  has come down to nothing, and only once, even when a foreign `then` calls back twice;
  `CountInv` - as long as no element has called back twice, `remaining` is the number of those
  that have not called back, and what they said is in the array; `RuleInv` - the first outcome
  is that of the first deciding answer, or the whole array when none decides. The counter
  alone does not say which answers are missing, and without it the rule does not follow.
  Since a callback of a foreign `then` may come twice, both are relative to `CalledOnce`; in
  the runtime, which wraps its elements (`Foreign`), none does.
- `DispInv` (disposable stacks): where each disposer is - on the stack, on the
  list of a disposal in progress, or run - against the order in which it was given (`order`);
  what is still on a list is a beginning of that order, and what has run is exactly the
  rest (`RanFromEnd`). `GivenOnce` keeps a moved stack from disposing of what another holds.
- `WebInv` (web streams): what was taken, then what is queued, is what was enqueued; a
  waiter means an empty stream that goes on, or one that was failed with a falsy reason
  (`mute`); a `text()` that is the only consumer holds what
  was taken, and is done only at the end of the stream (`AloneInv`).
- `DgramInv` (datagrams): the polled list holds each open bound socket once and is
  registered while it holds anything; datagrams are numbered as they are sent, and what arrived
  at a socket is below what waits for it in the kernel, both rising. A descriptor that is not
  open yet has nothing waiting, so that a new socket does not read another's datagrams.
- `ChildInv` (children, clusters): `TreeInv` - a child's depth is one more than its
  parent's and `spawnCount` is the number of its children; `StoryInv` - what was
  announced against how the process ended and which signal was asked for; `WorkInv` - the table
  of workers is those whose exit was not announced.
- `SweepInv` (sweep): a running case has its process or knows how it ended, a settled one has
  none left; in each pass the rows written are those of the cases settled (`FirstPass`,
  `ConfirmPass`), so that the confirmation retries each timeout once and no other case.

`ResultsKept` follows from the same invariants: an array is written only by a callback,
and after the last one of elements that call back once there is none; a second disposer
starts only from a step that is not waiting. TLC has checked these invariants on the
instance of `settling`, `CombInv` without the type of `cap`, which is a set of sequences that
cannot be enumerated.

### Only model-checked

Liveness under fairness is out of the prover's reach, and so is what a recursion computes
for every input. `library`, `data` and `temporal` are checked by TLC only, with `ListenersHeard`,
`SequencesWhole`, `FilesReached`, `TestsJudged`, `TextsKept`, `BytesKept`, `ValuesCompared`,
`AnswersFramed`, `CalendarWalked`, `DaysFollow`, `TimesWalked` and `TextsRead`. The first two
compose modules with recursive operators (walks of graphs, of iterators, of texts), which keep
every module that extends them from the prover, and what holds of pure algorithms for every
input - a calendar's arithmetic too - needs induction over the data. `HttpTypeOK` and `ExchangeSafe`
(`HttpExchange`) have no inductive invariant yet: it has to relate the parser's state, the
tokens cut anywhere in the kernel's queue and what a paused response holds, for each of the
four framings and two actors that give up.

## Not modelled

In the engine: values, realms and module stacks in saved contexts; the clock of the await
budget; thenables inside `await`; `queueMicrotask` and `process.nextTick`; the unwinding of
`return()` through `finally`; `yield*`; the heap and its collector, modules, embedding and
Node-API, which need a model of the heap; the evaluator, parser, regular expression engine
and bytecode VM, which are sequential and tested by conformance suites; bigint.

In the library: what is data - constants, digests, tables, compression, locale data; what
is wording - inspection, error messages, reports; file streams and watchers, HTTP
keep-alive and upgrades, terminals, calendars other than ISO, mocks. `PROJECT.json` says
for each component what its models leave out.

## Plan

1. A proof of `ExchangeSafe` (`HttpExchange`), whose parser and kernel queue are sequences as
   in `Streams`; then emitters and descriptors, whose modules are free of recursion but are
   composed with others that are not.
2. `Heap`: slots, free lists, roots, mark and sweep, owners and finalizers; no live
   slot is reused and each owner is finalised once.
3. `EventLoop`: timers in due order, unref, servers, fetches and exit status;
   starvation by an interval that is always due. `Modules` (cycles, bodies that throw).
