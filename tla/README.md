# TLA+ models of the TA runner

Specifications of `tarunner`, the program that runs Splunk technology add-ons (TAs) outside
Splunk: it reads a TA's `inputs.conf`, `props.conf` and `transforms.conf`, runs the inputs they
describe, passes what the inputs emit through a list of operators and exports it over OTLP or HEC.
The models follow the Go code line by line in control and abstract its data; TLC checks small
instances, and TLAPS proves the main invariants for every value of the constants.

## The system

| Part | State it keeps | Operations | What must be right |
|---|---|---|---|
| main (`cmd/tarunner/main.go`) | signal channel, `waitShutdown` | load configuration, `collector.Run`, wait for SIGTERM, shut down | a caught SIGTERM ends the process in order; nothing is left started |
| collector (`internal/collector/collector.go`) | exporter, list of receivers | read the conf files, create receivers, start exporter and receivers, shutdown function | the exporter is there as long as a receiver can emit; all enabled inputs are served or none |
| scripted input (`internal/scriptedinput`) | `doneChan`, `si.command`; per execution two pipes, `stopRead`, a reader goroutine, a child process | `Start`, `Stop`, schedule, `_execute`, read stdout | executions do not overlap; output is captured; a failure does not end the schedule; `Stop` ends everything |
| receivers (`internal/receiver/*`) | configuration only | `BaseConfig` (operators), `InputConfig` (where it reads or listens, attributes) | every operator is reached; metadata is renamed |
| props as operators (`internal/operator/prop`) | none | `CreateOperatorConfigs`, behind the feature gate `cook` | raw data is left alone; a prop's settings all run, in order |
| transform operator (`internal/operator/transform/parser.go`) | regex, replacement, cache | `match` | a cached result equals a computed one |
| its cache (`.../cache.go`) | map, queue of keys, RW mutex, eviction counter, ticker goroutine | `get`, `add`, `increment`, tick, `stop` | the map stays bounded; throttling starts at the limit and ends; no call blocks |
| conf (`internal/conf`) | none | parse the ini files, order props | more specific props first |
| script path (`internal/script`) | none | resolve the command of a stanza | the command is the file named, and inside the base directory |
| configuration, exporters, feature gate, factories | none of their own | construction | construction and start can fail |

How they interact: `main` calls `Run`; `Run` hands each receiver the exporter as its consumer; the
stanza library (external) builds a receiver's input and operators, connects them by their ids and
calls `Start` and `Stop` of the input. The goroutines of a scripted input call down the operators to
the exporter. `Stop`, the scheduling goroutine and the reader of each execution share `doneChan`,
`si.command` and the pipes; threads that process entries share the cache of a transform with each
other and with its ticker. Everything else is sequential.

The hard parts are therefore: process exit against the reader of its pipe; `Stop` against an
execution that is just being started; executions that fail half-way; the lock, the atomic counter and
the ticker of the cache; a value published before it is finished; partial failure and signals during
start and shutdown; and the graph of operators, which is wired by names. `PROJECT.json` lists each
hazard at its line.

## Modules

| Module | Models | Extends / instantiates |
|---|---|---|
| `ScriptedInput` | one scripted input, its goroutines and child processes | `ScriptJob` (refinement) |
| `ScriptJob` | abstract: what a scripted input promises to the pipeline | |
| `AtomicLimiter` | the cache's eviction counter and ticker | |
| `MemoryCache` | `Parser.match` and `memoryCache` under several threads | `AtomicLimiter` |
| `Collector` | `main` and `collector.Run` from the first file read to exit | |
| `Conf` | what `internal/conf` makes of a file's sections and keys | |
| `ScriptPath` | `DetermineCommandName` and `GetPath` on the elements of paths | |
| `Receiver` | `createReceiver` and each receiver's `InputConfig` | `Conf`, `ScriptPath` |
| `Pipeline` | from the conf files to an entry that has passed all operators of its input | `Receiver` |
| `Delivery` | the runner composed with one of its scripted inputs and the exporter | `Collector`, `ScriptedInput` |
| `*_proofs` | theorems about the module of that name; `Props_proofs` and `Refusal_proofs` about `Pipeline`, on top of `Pipeline_proofs` | |
| `MC*` | inputs and small sets for TLC | |

Operators named `Mutant` in a comment are variants of the definition after them that a plausible bug
would give; no specification uses them.

### ScriptedInput

`Start` decides from the stanza (`Schedule`) whether nothing runs, executions follow each other at
once, or a timer separates them; a timer may fire at any moment. The scheduling goroutine's place is
`pc`: `select`, then through `_execute`: `prepare` (command name, pipes, reader goroutine), `feed`
(stdin), `spawn`, `record` (`si.command = cmd`), `wait`, `finish`. `Stop` is two steps, since it
signals `si.command` before it closes `doneChan`, and takes no lock. The reader of execution *n* is
`check`, `reading` (inside `io.ReadAll`), `eof` or `broken` (the pipe was closed under it), `ended`.
`stdout[n]` is this program's end of the pipe: `orphaned` is a pipe whose `_execute` returned early,
so that only the garbage collector closes it. Output is counted in chunks: `made`, `taken` out of the
pipe, `sent` downstream.

The child process is external: it writes, blocks on a full pipe, exits by itself, or dies of SIGTERM.

`JobSpec` is the refinement: under the mapping *process state to pending/live/over, made to output,
sent to entry*, every step is a step of `ScriptJob` or leaves it alone.

### AtomicLimiter and MemoryCache

A thread goes `idle`, `get`, `parse`, (`replace`), and for each add `check` (throttled, outside the
lock), `lock`, `evict`, `load` and `bump` (the two atomic operations of `increment`), `store`. A map
that is published before it is finished carries the name of the thread building it. `TickDelta` is
what `^uint64(x)` adds for a negative `float64` x: Go leaves that conversion to the implementation,
so `Wraps` chooses amd64 (wraps around) or arm64 (saturates at 0).

The cache is switched on by `Config.Cache.Size`, which `prop.go` does not set: today it runs through
the operator's own configuration only, as its tests do.

### Collector

`pc` is the place in `Run` and `main`, `next` the index of its loop. Creating or starting one
receiver, building or starting the exporter and loading a file can fail; every failure is a
`log.Fatal` with no shutdown. SIGTERM comes at any moment up to `MaxSignals` times: before
`signal.Notify` it kills the process, later it goes into a channel of one place and is dropped if
that is taken. Receivers and exporter are external: `none`, `created`, `started`, `shut`.

### Conf, ScriptPath, Receiver

These have no variables; `Pipeline` uses them. A conf file is what the ini library gives: its
sections in order, each with its keys in order, the default section first. Names that the code takes
apart are given in parts: `<<"TRANSFORMS-", class>>`, `<<"source::", rest>>`, an alias expression as
its words. `ReadProps` fails on a value that does not parse and orders the props; names are ordered
by the constant `Rank`, since TLC does not compare strings. `orderProps` says where the sort puts a
prop: behind as many as come before it. `Kept` is the loop that appends what passes a test. A path is its elements and whether it is
absolute, and `Clean`, `Join`, `Abs` and `Rel` do what `path/filepath` does. `Files` are the names a
path may have besides the empty one, `.` and `..`. `StanzaNames` is what `url.Parse` makes of a
stanza's name when it parses: a host is never an absolute path, and what has no scheme is all path.
Names outside it are those that do not parse, such as `script://.\bin\foo.bat`. `Walk`, `Named`
and `Inside` are the other definition of what `GetPath` promises: a path is walked element by
element from the base directory, and the place it leads to lies below that directory or not.

`createReceiver` fails on a name that does not parse and compares the scheme after `url.Parse` has
lowered it (`Lower`). `InputConfig` of the script receiver is the command and the attributes, of the
monitor receiver the files included and excluded, of tcp and udp the address. The code checks none of
these; the library does when it builds the input's own operator (`InputBuilds`): it compiles the
attributes, resolves the address of a tcp or udp input and looks at the patterns of a monitor. The
constants `NoExprs`, `Addresses` and `NoGlobs` say which values pass.

### Pipeline

Per behaviour, one enabled input of one configuration: the files are read, the receiver is chosen, its
operators are listed, the library builds them, and an entry goes through them. Ids are tuples of their
parts (`<<"foo", "end">>` is `foo-end`). The outputs of an operator are a set of ids, empty until the
code or the library sets them; the last operator of the list has none and feeds the exporter. `createSetSourceOperator`, `CreateOperatorConfigs` per prop
and `renameMetadata` make the list; `Build` is the library's: it builds the input's own operator, gives
an operator without outputs the next one, and refuses an input that cannot be built, operators that
are misconfigured, ids that are duplicate or unknown, and circles. `Process` is an entry's step through one operator.

The condition on a prop's first operator is left out: a skipped operator forwards the entry to the
same output, so the condition cannot change the way. The body is not followed: a transform either adds
its attributes or does nothing.

### Delivery

`Delivery` instantiates `Collector` (its `pc` is `main`) and `ScriptedInput`, and couples them where
the code does. When the loop of `Run` reaches the stanza at `Position`, starting the receiver *is*
`Start` of the input (`StartScript`); when the loop of the shutdown function reaches it, `Stop` runs
in main's goroutine in its two steps (`StopScriptSignal`, `StopScriptClose`). What a reader sends goes
to the exporter, as `exported`: the receiver between them is external and hands entries on while it is
in service; once it is shut down it may or may not (`Takes`). When the process ends, its goroutines
end with it. Its child processes do not: they go on, exit, or are killed by their next write
(`ProcessBroken`). `asked` records which execution `Stop` found in `si.command`, 0 for none: a process
that was started but not yet recorded there is not the one it finds.

`Delivery` implements `Collector` (`ImplementsRunner`), and, with the exporter in the place of the
pipeline, the abstract `ScriptJob` (`ExporterGetsJob`): through start, shutdown and the death of the
runner, what comes out is one entry at most for each execution, after its end. It does not implement
`ScriptedInput`: a script whose runner is gone dies of its next write (`ProcessBroken`), which no step
of the input by itself does.

## Runs

| Run | Instance | Shows |
|---|---|---|
| `scripted_input` | 10 stanzas, every fault, 2 executions of 2 chunks, pipe of 1 chunk, scripts that end; 60,913 states | `TypeOK`, `OneProcess`, `LossExplained`, `JobSpec`, `ScheduleGoesOn`, `StopEndsAll` |
| `scripted_capture` | 1 execution of 2 chunks | violated: `OutputCaptured` |
| `scripted_missed` | scripts that end on SIGTERM only | violated: `StopEndsAll` |
| `cache` | 2 threads, 3 bodies of which 2 match, 2 places; operators that add a body once or twice; 194,978 states | `TypeOK`, `CacheBounded`, `CountInRange`, `NoneLeftTorn`, `CallsReturn`, `ThrottleEnds` |
| `cache_torn` | named groups and a replacement | violated: `HitsWhole` |
| `cache_throttle` | 4 places, amd64 | violated: `ThrottleEnds` |
| `collector` | lists of up to 3 stanzas, all states of `inputs.conf`, 2 signals; 7,552 states | `TypeOK`, `ExporterThere`, `ServesAll`, `CleanExit`, `SignalEnds` |
| `pipeline` | every kind of input and set of metadata with up to 2 props of 4 types, raw and cooked; scripts in places seen from inside, above and outside, 4 base directories; inputs whose name, scheme, address, patterns or attributes are wrong, next to the same put right; 49,925 states | `TypeOK`, `RefusedForCause`, `CommandInside`, `RawUntouched`, `MetadataMapped`, `PropsWhole`, `SpecificFirst` |
| `pipeline_host`, `pipeline_props` | the same | violated: `HostMapped`, `AllPropsRun` |
| `pipeline_windows` | the same | violated: `WindowsReceived` |
| `delivery` | a script second of 2 or 3 stanzas, 2 executions of 1 chunk, 1 signal, failures of both; 173,452 states | `TypeOK`, `ServiceDelivers`, `LossAccounted`, `OrphansExplained`, `ExporterGetsJob`, `SignalEnds` |

Some properties need a word. `StopEndsAll` says that after `Stop` all the input started ends, *or* is
stuck: a script on a full pipe that was never signalled and that nobody reads any more, or the
scheduling goroutine writing XML to a stdin that nobody reads. Both really happen; the property says
that nothing else does. `LossAccounted` names the only ways output goes missing between a script and
the exporter. `OrphansExplained` is the same for scripts that outlive the runner without a SIGTERM of
their own: an orderly `Stop` read `si.command` before the process was recorded there, or the start of a
receiver further down the list failed and `main` gave up, or a SIGTERM killed the runner before it
listened. All three happen, the first also to a script that was already running when `Stop` looked for
one (`asked = 0`). `CommandInside`
compares `GetPath` with another definition, in which a path is walked element by element from the
base directory. `RefusedForCause` says of files that can be read which inputs are refused and that no
others are: those with something wrong with the input itself (`Unusable`: its name, scheme, address,
patterns or attributes), all of them if a value of props.conf does not parse, and those whose props
are flawed and cooked (`Flawed`). Both are stated on what the files say, not on what `Build` does.
One input that is refused stops the runner with all the others (`ServesAll`). `WindowsReceived` is
apart, because `Unusable` takes the schemes as the code compares them.
`SpecificFirst` holds of whatever order the file has, and survives `AllPropsRun` being false: what is
passed over is never the more specific prop.

Bounds. Two executions let the first still be read while the second runs; two chunks and a pipe of
one let the process block on a full pipe and the reader get a part (in `delivery` one chunk is enough,
since an entry is taken whole or not). Two threads and two matching bodies on two places make
evictions by both threads meet; an operator that adds a body twice fills the queue with two bodies and
reaches the throttle. `MaxCount` bounds the counter only where a tick raises it. Two signals meet the
full channel. In `delivery` the script has an input before it and may have one after it that starts or
fails, so that it is started first or last, and stopped before or after the others. Two props are
enough for one chain to hide the other, and for ids to clash. The places of scripts are all paths of
up to two elements, and some of four, from names inside, outside and beginning with dots.
Deadlock checking is off where the system may stop: an input that was stopped, a process that ended,
an entry that arrived. The cache runs check for deadlock.

Fairness. Goroutines that can run do run (weak fairness on the caller's `Stop` once begun, on the
scheduler and the readers), as Go's scheduler ensures; a child process exits by itself only in
`EndingSpec`, an assumption about scripts that the run names. Threads of the cache are weakly fair;
taking its lock is strongly fair, because `sync.RWMutex` starves neither readers nor writers; calls
need not come, and the ticker ticks. `main` is weakly fair, since its external calls return; signals
need not come. `Delivery` assumes fairness of `main` alone: `SignalEnds` there says that the shutdown
depends on no script, reader or scheduling goroutine.

## Disagreements found

The runs marked *violated* state what a comment, a test or a document of the repository says and show
an execution of the code that contradicts it; `PROJECT.json` quotes each line.

1. Output lost: `cmd.Wait` closes the stdout pipe while the reader still needs it (`input.go:177`).
2. A script can outlive `Stop` (`input.go:42`, `175`, `96-105`).
3. A map changed after it was cached (`parser.go:68`, `72`).
4. The limiter's tick does not lower its counter from 4 items on, on amd64 (`cache.go:166`).
5. `host` is never renamed (`scriptreceiver/receiver.go:112` and its copies).
6. Only the first prop is run (`prop.go:86`).
7. A `WinEventLog` stanza ends the runner: `createReceiver` compares with `"WinEventLog"`
   (`collector.go:204`) what `url.Parse` has put in lower case, so that the receiver of Windows events
   is out of reach on every platform, against `CHANGELOG.md:25`.

Also noticed, with no run of their own:

- A body that is added twice (`parser.go:68`, `74`) holds two places of the queue, so that items are
  evicted from a cache that is not full; `cache.go:61-62` says it evicts when full. The models
  contain it: `CacheBounded` is stated so that it holds all the same.
- A script with `interval = -1` keeps the runner serving with nothing scheduled: `Run` counts receivers
  (`collector.go:76`), and the script has one. `collector.go:40-41` says it returns nil "if the TA has
  no activity". The tests side with the code: `collector_test.go:131` calls the function that `Run`
  returns of a TA with this interval.
- One stanza that cannot be built stops every other input (`collector.go:111-113`). tcp and udp listen
  at the host of the name, so that `[tcp://9995]`, a port alone, is refused, as is a name that
  `url.Parse` rejects, such as `script://.\bin\foo.bat`.
- README.md asks for `--feature-flags +cook`, but `main` parses no flags, so only tests set the gate.
- The condition of a `source::` or `host::` prop compares with the whole name of the stanza, prefix
  included (`prop.go:33`, `35`).
- `GetPath` refuses a directory of the base whose name begins with dots, such as `..foo`, since it
  tests the relative path for the prefix `..` (`command.go`); `CommandInside` says so (`Dotted`).
- `monitor://./x` monitors `/x`: the host of the name, here `.`, is dropped.
- A value of props.conf that does not parse stops the runner even for raw data, which uses none.
- Only a lower-case `as` makes an alias (`props.go:23`). `FIELDALIAS-x = a AS b` becomes a copy of ""
  to "".

## Proofs

TLAPS proves, with no bound on anything:

- `ScriptedInput_proofs`: `TypeCorrect`, `NeverTwoProcesses`, `LossIsExplained`, `ImplementsJob`.
  `OneProcess` is not inductive by itself. The invariant `IInv` adds what the place of the scheduling
  goroutine says of its current execution (`SchedulerInv`), that executions to come are untouched and
  that an unreaped process is the one being waited for (`ProcessInv`), and how what a reader holds
  relates to the pipe and the process (`ReaderInv`). The refinement takes each action to the step of
  `ScriptJob` it implements.
- `MemoryCache_proofs`: `TypeCorrect`, `CacheStaysBounded`, `CountStaysInRange`, `HitsStayWhole`,
  `NoItemStaysTorn`. `LockInv` says who holds the lock and what it knows of the queue: a thread about
  to store has room, so the send never blocks. The counter's limit needs in addition that between load
  and addition nobody else adds, and holds where a tick does not raise the counter: where the
  conversion saturates, or below 14 items. `HitsStayWhole` assumes that no operator both parses and
  replaces; `cache_torn` shows that it must. `NoItemStaysTorn` holds of every operator: an unfinished
  map in the cache names a thread that is still between publishing and finishing it.
- `Collector_proofs`: `TypeCorrect`, `ExporterIsThere`, `ServesAllInputs`, `ExitIsClean`, for every
  list of stanzas. The invariant says what each place and loop index of `main` has made of the
  exporter (`ExporterInv`) and of each receiver (`Stage`, `ReceiverInv`), and where a success comes
  from (`ExitInv`).
- `Delivery_proofs`: `ImplementsRunner`, `RunnerStaysSafe`, `TypeCorrect`, `NeverTwoProcesses`,
  `LossIsAccounted`, `OrphansAreExplained`, `ServiceAlwaysDelivers`, `ExportsJob`, for every list,
  place in it and number of executions. The theories of the parts are instantiated
  (`RunnerTheory`, `ScriptTheory`). Every step is one of the runner or leaves it alone, so that what
  is proved of `Collector` holds here. For the input the implementation is not enough, because of
  `ProcessBroken`: its invariant `IInv` is carried over step by step instead, and `ProcessBroken`
  shown to keep it (`ScriptStep`). On top, a script left behind is the one of the current execution,
  and `Stop` found it unless it was not recorded yet (`OrphanInv`). `ServiceInv` ties the place of
  `main` to the input's state (`PlaceInv`: not started before its turn, and exporter and receiver
  started while it is in service) and says that up to then sent and exported are the same
  (`SentInv`); `ServiceDelivers` alone is not inductive, since it does not say what `Takes` depends
  on. `ExportInv` says that an entry is exported as it was sent or not at all, which with `IInv` gives
  `LossIsAccounted`, and the refinement `ExportsJob` action by action. `OrphansAreExplained` needs in
  addition `EndInv`, which says of each way `main` ends where it was: after an error, at a receiver
  that was to be started and did not start; killed, before `serve`; in order, past `Stop`.
  `LeftBehindIs` puts the three together.
- `Pipeline_proofs`: `RawStaysUntouched`, `CommandStaysInside` and `MetadataIsMapped`, for all conf
  files. With the gate shut every operator of the list is a noop or a move of metadata (`RawList`),
  which `Build` preserves; the first operator of a monitor takes the file's path out of the entry, and
  no later one puts it back (`RawInv`). `CommandStaysInside` needs of a behaviour only that the
  configuration is one of `Configs` (`InputInv`), and that the name of an input with a receiver is one
  that parses (`InputName`); the rest is `ScriptPath_proofs`. For `MetadataIsMapped` the list is a
  front, in which every operator outputs to a later one, and five operators at its end (`Opening`,
  `Ending`); `Build` refuses ids that are there twice, so that outputs lead where the list says
  (`Wired`). Along that way `MetaInv` says of each attribute whether it still has its first name
  (`Pending`) or has its last (`Mapped`).
- `ScriptPath_proofs`: `CommandIsInside`, for all paths. Cleaning a path and walking it come to the
  same place (`WalkCleaned`), cleaning an absolute path is walking it from the root
  (`CleanedAbsolute`), and a walk can be interrupted anywhere (`WalkConcat`), so that the joins and
  cleanings of `GetPath` come to one walk (`JoinPlace`). The relative path begins with `..` unless
  the base is a prefix of the place (`RelIs`).
  `Cleaned` and `Walk` go through a path by recursion, so the lemmas about them need induction. The
  library states it about an operator, which the provers cannot instantiate; the first section states
  it about the set of the numbers, or of the sequences, of which a fact holds, and proves it from the
  least element that is missing from it (`Least`).
- `Props_proofs`: `PipelineTypeCorrect`, `PropsStayWhole` and `SpecificComesFirst`, for all conf
  files, raw or cooked. None of the three is inductive; `PropsInv` is. `FileInv` says that the props
  are what `ReadProps` makes of the file. `LaidInv` says that the chain of each prop is somewhere in
  the list in one piece, the first one right after the first operator and the ending at the end, and
  that a built list has no id twice. `FlowInv` says where an entry can be, in the first chain or the
  ending, and how much of each prop it has been through: of the first as much as it has passed, of the
  others nothing. A step from the last operator of a chain goes to `end`, by its id, and an id that
  two chains share would have been refused; so no chain is entered in the middle. `SpecificFirst`
  needs in addition that no prop comes before the first in the order of `Less` (`OrderIs`, from a
  bijection between props and their numbers of predecessors, `PlaceIs`). `FlattenIs` and the lemmas
  about `Kept` expand the folds of the library.
- `Refusal_proofs`: `OnlyRefusedForCause`, for all conf files, raw or cooked: nothing is refused
  without a cause, and nothing with a cause gets through. `LaidInv` says where each chain is in the
  list; `SpreadInv` adds that there is nothing else in it, that it is all forward (an output is the id
  of an operator further down), and that an id is twice in it only if it is twice in the chains
  (`Apart`). Of a list that leads forward the library refuses only one with an id twice or with an
  operator that is misconfigured (`RefusedIs`): no output is unknown, and `Target` always goes further
  down, so that no `Hop` goes in a circle. What the ids have in them tells them apart: the name of the
  prop in those of its transforms, start and end, the class alone in those of its aliases
  (`ChainHas`, `OwnApart`, `OwnReserved`), and a prop does not have its aliases or the file its props
  twice (`PropsTidy`). So the list is refused exactly when the cooked props are `Flawed` (`FlawIs`,
  `RefusedAtBuild`). An input is `Unusable` exactly when it gets no receiver or its own operator is
  not built (`UnusableIs`). `CauseInv` says at each phase which causes are ruled out so far.

The proofs rest on the assumptions the modules name (`BoundsAssumption`, `LimiterAssumption`,
`CacheAssumption`, `CollectorAssumption`, `DeliveryAssumption`, `PathAssumption`,
`PipelineAssumption`), which say of what kind the constants are: the working directory is a clean
path, a conf file begins with its default section and has no name twice, the names of props have an
order and are one part or a `source::` or `host::` with the rest, a `FIELDALIAS-` key is the prefix
and a class, the value of a `TRANSFORMS-` key is a list. Of the names of stanzas nothing is assumed.

Checked by TLC only: the liveness properties (`ScheduleGoesOn`, `StopEndsAll`, `CallsReturn`,
`ThrottleEnds`, and `SignalEnds` of `Collector` and `Delivery`), which the prover does not reach. Every
other property of a passing run is a theorem.

## Not modelled

- The wire: exporters' queues and retries, and the file, tcp, udp and Windows inputs, belong to
  libraries. A monitor's globs are exact names in the model, or no patterns at all (`NoGlobs`), which
  is when the library refuses them. Whether a host resolves is a constant (`Addresses`); whether its
  port is taken shows when the receiver starts, which can fail (`Collector`). The id the code makes of
  a stanza's path for its component is taken to be valid.
- The format of ini files, with its inheritance from parent sections and its `%(name)s` expansion; the
  models start from sections and keys. tarunner.yaml, which loads or fails.
- The XML given to scripts (`ToXML`): it fits the pipe of stdin or does not.
- The condition of a prop, see `Pipeline`; what an expression (`EXPR(...)`) in an
  attribute value comes to, which the library evaluates (that it may not compile is modelled); the copy of "" to "" that an alias which does not parse becomes is taken to leave
  the entry alone.
- The pace of a schedule: a timer may fire at any moment, so an interval that is negative or overflows
  looks like any other.
- The factories and configs of the receivers, which hand values over, and `tools.go`, which pins build
  tools.
- `cache.copy`, `maxSize` and the accessors of the limiter, which change nothing, and the end of a
  cache's ticker.

## Plan

Done: the scripted input and its abstract job; the cache with its limiter; the collector; conf files,
script paths, receivers and operators; the runner composed with a scripted input; the proofs above.
Next:

1. Stop of a transform's cache against the threads that still use it.
2. Several scripted inputs in one runner: the one whose `Stop` comes last goes on while the others are
   gone.
