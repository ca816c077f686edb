# Metal Profiler: verification development

TLA+ models of Metal Profiler (`src/src`), of the loader firmware
(`src/arch/rpi4b/project/deploy/src`) and of the board support package of its
benchmarks (`src/arch/rpi4b/project/build/bsp`), TLC configurations that check them on small
instances, and TLAPS proofs of what should hold for every instance. Every
definition is translated from the source; `PROJECT.json` maps each to its lines.

## 1. The system and its parts

Metal Profiler is an interactive tool on a host. It loads a configuration of stress
applications, compiles it with `make`, sends it over a serial line to a bare-metal
loader on the board, collects the samples the applications print, computes
degradations and searches for the configuration that degrades the victim most.

| Part | Source | State it keeps | Operations | Correct when | Model |
|---|---|---|---|---|---|
| Build pipeline | `build.c`, `api/api.c` | `build_conf` (stages, files), `pids[]`, children | `CALL_MAKEFILES`, `callMakefile`, `parseBuildConfig`, `DEPLOY_FILES`, `activeCores` | stages are sequential, every make is waited for, the lists are those of the selected architecture | `StagedBuild`, `BuildPipeline`, `Session` |
| Debugger and Xilinx hooks | `api/t32_i.c`, `api/xsct_i.c` | a child process | `INIT_T32`, ... | do not disturb the build | helper of `BuildPipeline` |
| Default module | `default_mod.c` | `CUR_CFG` | `BUILD_PROJECT`, `INIT_BENCH`, `RUN_BENCH`, `EXIT_BENCH` | the board runs what was built from the loaded configuration | `Session`, `UartLink` |
| Host serial driver | `uart.c` | port, line buffer, `RESULT` arrays | handshake, log, lines to samples | host and loader stay in step; each sample is whole and in its place | `UartLink` |
| ELF sender | `elf_parser.c` | none | `open_elf` | an image is sent completely or not at all | `UartLink` |
| Loader firmware | `deploy/src/{main,loader,uart,power}.c` | memory of images, prompt state | `MMU`, `LOAD`, `INFO`, `RUN`, `RESET` | answers each command once; runs nothing but the images it was sent | `UartLink` |
| Session state | `state.c`, `global.c` | `SELECTED_ARCH`, `AVAIL_CONFIGS.selected`, `INPUT_CONFIG`, `OUTPUT_LIST_SELECTED` | `selectArch`, `loadConfig`, `cleanState` | the pieces never contradict one another; only checked values are accepted | `Session`, `Configuration` |
| Command line | `cli.c` | none of its own | `set arch`, `load`, `deploy`, `analyze`, `execute`, `optimize`, `generate`, `exit` | every command is safe in every state | `Session` |
| Benchmark runner | `bench.c` | position in the outputs | `runExecution`, `runBench`, `processResults`, both degradations | compares like with like | `Session`, `UartLink`, `Configuration` |
| Optimizer | `optimization.c` | best, history, hashes, averages | grids, `randomSearch`, `randomSearchNR`, `simulatedAnnealing`, `randomSearchNRWeighted`, three objectives | returns the best it measured, ends, measures nothing twice, leaves a legal configuration | `ParameterGrid`, `Search`, `WeightedSearch`, `Configuration` |
| MMU and linker generators | `mmu_gen.c` | lists of blocks | `generate mmu`, `generate linker` | an address is found in its region; two cores never share a cache set | `MemoryMap` |
| Bandwidth mitigation | `bsp/src/{boot2,IRQ,GIC}.c`, `PMU.h`, `timer.h` | `AVAIL`, `COUNTER_RST`, counters, timer, distributor | `boot2`, `irq_handler`, `mem_monitor`, `mem_overflow`, `init_irq`, `stop_irq` | a period costs no more than its budget; a core that sleeps wakes | `Bandwidth` |
| Statistics | `calc.c` | none | averages, degradation, `contiguousPages` | arithmetic | `contiguousPages` in `MemoryMap`, limits and means in `WeightedSearch` |
| Plots, arrays, results | `plot.c`, `generics.c`, `api/results.c` | none | output | | not modelled |
| Vendored remote API, `tty.c` | `api/hremote.c`, ... | | | | not modelled |

How they interact: `cli.c` calls `state.c`, `bench.c`, `optimization.c` and the
hooks of the architecture's shared object; the hooks of `default_mod.c` call the
build pipeline and the serial driver. They share global variables, and nothing but
the operating system's processes and the board runs concurrently with the tool. On
the board the cores run on their own; they share the interrupt distributor.

What is hard here:

- **children in any order**: `waitpid` on the slot of a skipped or failed instance
  waits for *any* child (`build.c:365`), a sibling make or a debugger;
- **two machines and a line**: reads give up after a second (`uart.c:76`), logs then
  end without their prompt, lines are cut; there is no flow control (`uart.c:86`) and the
  loader polls (`deploy/src/uart.c:51`), so what is sent while it prints may overrun its FIFO; the
  tool can be killed and the board switched off at any point, and a firmware that starts amid
  an image may find its part of the handshake among the bytes (`deploy/src/main.c:14`);
- **global state over a session**: a failed load, a change of architecture and a
  degradation each update a different part of it, and each command checks a
  different part of it;
- **random searches**: end and exactness rest on hashes and products of ranges; the
  weighted one keeps averages in static variables across commands and carries its best
  over to new ones by quotients;
- **values that travel**: file, `INPUT_CONFIG`, grid index, and back, through
  integer division, and clones of it cut by position while they are looked up by id;
- **generated tables**: sizes rounded up, blocks that merge, tables named by
  counting, colours by strides; nothing checks the result before the board boots with it;
- **interrupts**: overflow and timer in any order, a handler that sleeps, counters that
  wrap, and one distributor which every core resets when it starts and disables when it ends.

Each of these is an entry of "hazards" in `PROJECT.json`, at its line.

## 2. Modules and the code

**StagedBuild** is the promise of `README.md:193`: the outer list of `build.json`
is compiled sequentially, the inner ones in parallel. A task may be launched only
with tasks of its own stage running and none of a later one started.

**BuildPipeline** is `CALL_MAKEFILES` (`build.c:373`) and `callMakefile`
(`build.c:341`). `pc` is the loop of `callMakefile` being run, `stage` the position
of `build_ptr`, `inst` the loop counter, `pid` the array `pids[]` (0 of `calloc`,
the child's own, -1 of a failed `fork`), `proc` the children as the kernel sees
them. One action per outcome of an iteration: `SkipInstance` (a component is not
configured), `ForkMake`, `ForkFails`, `Reap`, `NoChild` (ECHILD), and `AllForked`,
`NextStage` between the loops. A child exits when it likes. A helper is a process a
module hook starts between two builds. The wait set of a slot that does not hold a
pid of its own is every child; that is what `waitpid(0)` and `waitpid(-1)` do.
The module refines `StagedBuild` (`started`, `running` computed from `proc`).

**UartLink** is one `runBench`: host (`uart.c`, `elf_parser.c`, `default_mod.c`)
and firmware with the line between them. `host` is the place in the hooks, `board`
the place in the firmware, `toBoard` and `toHost` the bytes under way, as tokens: a
command, the two parts of an ELF image, a line of text, the prompt and its 0, the
`$`, the two halves of a value, and `?`. A value is two tokens because a timeout may
fall inside it. `LogTimesOut` and `LineTimesOut` are reads that return 0: the first
ends a log only while no byte has come yet, since `byte_buf` keeps its last value;
the second returns a part of a line. `Script` is
the sequence of commands of `default_RUN_BENCH`, computed from the components of the
configuration (`Present`) and those each core's instance needs (`Needs`) as
`activeCores` and the `LOAD` loop do; the loop skips the cores it visits without a
component (`SkipCore`). `slow` says whether this board may pause longer than the read
timeout. A token sent to a board that still has something to print, or pauses, stays in its
FIFO if it is short; the sections of an image, and what comes behind them, may overrun it
(`Overruns`) and become "scrap". There the model of the board ends: a loader that has lost count of
the bytes writes and jumps to addresses nobody sent. The host goes on and is modelled to its end.
`TakeForHandshake` is a firmware that started amid an image and takes bytes of it for the handshake;
the loader then gathers the rest, and `fooled` remembers it. `missing` holds the images whose binary
`open_elf` cannot open (its result is ignored, `elf_parser.c:113`): the command has
then been sent and the loader takes whatever follows for the header
(`TakeFalseHeader`, ten bytes of later commands and images) and, if that announces
sections, for their bytes (`TakeGarbage`; the board is "garbled"). A token longer than
what was left of the header leaves bytes in the loader's input buffer ("litter"), where
they spoil the next command (`MissCommand`). `RUN` is `dispatch_routine`
(`vectors.S:64`), which returns at once if core 0 has no entry point. `KillTool` and
`PowerCycle` are the user.

**Session** is the command line over the global state. Each command is one action
with everything the code calls inside it; only the walk over the outputs after a run
(`PassOutput`, `ProcessDegradation`, `CloneNothing`) takes a step per output.
`TryConfig` and `IsolateVictim` are one
evaluation of the objective by `optimize`; how many there are and of what is Search.
`Walk` is how `parseBuildConfig` fills the lists that the last parse left:
an empty list is created, a longer one is cut at the node it stands on and appended
to. `curCfg.live` is false once the clone of a degradation is freed
(`bench.c:392`), after `optimize` always; an `execute` that then reads `CUR_CFG` ends in `undefined` or goes
on. The inside of a build is BuildPipeline, the inside of a run UartLink.

**ParameterGrid** is what the searches share: `mapConfigToGrid` and
`generateParameterGrid` as ranges, the number of configurations, and `Key`, the
concatenation of decimal numbers that is hashed, digit by digit, since a
finding depends on it.

**Search** is the loop shared by `randomSearch` ("rs"), `randomSearchNR` ("nr") and
`simulatedAnnealing` ("sa"; `algo` is the user's choice), one step for the draw and one
for the measurement. A configuration is its point in the grid. The objective is
whatever the board measures: a new value each time.

**WeightedSearch** is `randomSearchNRWeighted` with `objectiveMinimizeMemMonitoring`
over a session of `optimize` commands (`Begin` ... `End`). An evaluation is `RejectFirst`,
`RejectSecond` or `Accept`, by the metric at which `calculateDegradationNormalized`
gives up (out of its limits, or spread too far). `num` and `sum` are the static
averages, `deg` and `avg` the local copies that are rescaled, `iso` the
configuration whose isolated victim was measured. A metric is an integer in tenths and a
quotient an exact fraction; the code computes in `double`.

**Configuration** is the values. `Load` is `loadConfig` with every check of every
propriety; `Optimize`, `Evaluate`, `Draw`, `Return` are `optimizeConfig` as far as
`INPUT_CONFIG` is concerned (`Generated`: values to indices; `Applied`: back); `Baseline` is
the configuration an objective builds to compare with, `Isolated` for
`objectiveMaximizeInter` and `Modified` for `objectiveMinimizeInterProp`, whose
`Without` is the loop that skips the propriety after one it removes. `pc` ends in
"sigfpe", "sigsegv" or "stuck" where the code does. A propriety is a record; `limits` is
what `loadConfig` copies from the module.

**MemoryMap** is `mapToMMU` step by step (`FindBlock`, `AddBlock`, `RefuseEntry`: one
entry at one level), and the generated files as operators: `Descriptor` is what
`genTranslationTable` writes at an index of a level's section, `Slice` the pages
`genLinkerSkeleton` gives to a core. `Found` is the processor (external), level by level: it ignores the
low bits of a table's address, which is how a table that is not where its size demands
goes wrong. Addresses are counted in pages of the finest level.

**Bandwidth** is one core under `MEMBANDWIDTH`. `Refill` is the application as the PMU
sees it: a refill of a line and maybe the write-back of another; counter 4 gives an
edge when it is over, and the interrupt is taken up to `Latency` refills later. In the handler
("irq") the timer's number is lower and comes first (`Replenish`), then the overflow
(`Charge`, which may sleep in "wfi", and `Rearm`); `Leave` starts the timer again if the
budget is new. A charge may cost more than a whole budget; `whole` is history and says that the
last one did. `OtherCoreStarts` and `OtherCoreStops` are `initGICD` and `stop_irq` of the
other cores on the shared distributor. `used`, `lapse` and `disturbed` are history too.

The `MC*` modules give values to the constants. Operators with a suffix
(`NextStage_OneWait`) are mutants: plausible bugs that a named property detects.

## 3. What the runs check

| Run | Question | Bounds |
|---|---|---|
| BuildPipeline | `BuildInv`, `StageOrder`, `NoStrayMake`, refinement of `StagedBuild`, `BuildReturns` | 3 components, all 8 configurations, 2 stages of 1 and 3 instances, 1 helper; any number of builds |
| Uart | `InStep`, `SamplesComplete`, `CoresLoaded`, `CleanBoard`, `VictimLoaded`, `SamplesInPlace`, `BenchEnds` | 3 cores, the first taking two components; 2 outputs of 2 values, 2 iterations, 2 knocks on the line; a board in time with 2 faults, a slow one with 1; the table, the victim's binary, both or none missing |
| Session | `ListsOfArch`, `BoardRunsSelected`, `OutputsHaveConfig`, `ModuleAgrees`, `BuildsOnlyAccepted` | 2 architectures, 2 configuration file names, 2 outputs; any number of commands |
| Configuration | `StaysAccepted`, `GridRoundTrip`, `BaselineOfTried`, `OthersUntouched` | about 300 files: the system or its absence, values on and off the grid and out of range, wrong types and flags, two mitigations, up to 3 components in several orders; any number of commands, evaluations and drawn grids |
| Search | `SearchInv`, `BestOfAll`, `HistoryOfBest`, `NeverTwice`, `DrawsLeft`, for the three searches | 3 configurations, 4 iterations asked for, scores -1, 0, 1 |
| WeightedSearch | `AveragesBounded`, `RescaledExactly`, `BestWasMeasured`, `IsolatedOfSearch` | 3 configurations, 4 evaluations over any number of commands, readings at, inside and outside the limits, weights 9 and 1 as in `global.h` |
| MemoryMap | `MapInv`, `BlocksInOrder`, `EntriesCovered` for every map, `RegionsMapped`, `ColoursApart` for its unbroken regions | 3 levels of 16, 4 and 1 pages, boundaries 0, 2, 4, 8, 16, 32; all ascending maps of 1 to 3 regions, those of 4 that adjoin from address 0, those of the Raspberry Pi and of the Zynq boards in small with their gaps; with and without colouring; 2 cores that share a cache of 4 pages a way |
| Bandwidth | `Regulated`, `TimerWakes`, `Resumes` | budget 6, an interrupt every 3 refills, latency 1; a counter wraps once in a period, 12 events after a disturbance |

Why the bounds are enough. In the build, the interesting case is a skipped slot
before a built one, in a stage after another, with a foreign child alive; the two
stages of the Raspberry Pi's `build.json` on three components have it, and the proofs
cover the rest. In the link, two outputs and two values are the least for which
row and column order differ, two iterations the least in which a value of the run
before may be left over; two knocks let one be left for the loader, three cores leave
one between the first and the last. Two faults
allow a kill followed by a power cycle and the reverse; the properties that hold for a slow board under
faults (`VictimLoaded`, `SamplesInPlace`) are proved for any number, so one is enough there. That only the
sections of an image overrun the FIFO is an assumption: what the host sends between two images is short
(`INFO`, `RUN` and `RESET` are 15 bytes together, the FIFO holds 16), an image has kilobytes. A backlog of
knocks may exceed the FIFO too; that loses knocks, of which `MaxKnocks` is the bound. Two configuration
names let a load replace another in `Session`; two architectures are needed
for state of one to survive into the other, and they have as many cores as each
other because otherwise the core count check hides the mistake. In `Configuration` the
limits have a range that is not a multiple of its step (2..7 by 2), a mitigation that is not a
boolean before a propriety that is kept, and a module that knows more and less than the file.
In `Search`
more iterations are asked for than there are configurations, so the limiter bites. Four
evaluations allow two weighted searches of two, the second of which begins with
the averages of the first. Two regions make two blocks merge, three put one between
two others, four give two tables on one level with different ones around. One charge of
`Bandwidth` is up to 8 events, so it may leave some of the budget or exceed a whole one.

The session may end (`exit`, an assertion, the core count check); `runBench`, a
search and the generator return; `stop_irq` ends the regulation; the tool may be killed by
a signal in `Configuration`: those runs set `CHECK_DEADLOCK FALSE`. The build does not.

### Fairness

- `BuildPipeline!Fairness`: the tool's thread is scheduled, and every make ends.
  Nothing is assumed of a helper: a debugger may stay open for ever, which is why
  `BuildReturns` has `ParkedOnHelper` as its other outcome.
- `UartLink!FairSpec` (`BenchEnds` speaks of boards in time only): both processors keep executing what they can. The user's
  faults are not fair.
- `Bandwidth!FairSpec`: the core executes its handler, and a timer that counts comes to
  its end. The application and the other cores are not fair.
- `Configuration`, `Search`, `WeightedSearch`, `MemoryMap` and `Session` claim no progress. Whether
  `randomSearchNR` gets out of its draw loop depends on a generator that is seeded with `clock()` at
  each draw (`calc.c:385`), of which no fairness is known; `DrawsLeft` says what the code itself can
  be held to, that there is something left to draw.

### Disagreements between the code and what is said of it

The runs expected to fail each refute one sentence of the repository:

| Run | Sentence | What the code does |
|---|---|---|
| UartCores | `default_mod.c:138` "CUR_CFG->NUM-1 because the ID 0 is always system wide" | the bound counts components, the loop visits cores: with ids 0, 1, 3 core 2 is configured and never loaded |
| SessionDegradation | `calc.c:99` isolated data and "the same for the the full config" | the isolated run is asked for one result, always the first output |
| SearchKeys | `optimization.c:698` "every iteration we get for sure a new configuration" | `1 10` and `11 0` have one hash; the second is refused unmeasured |
| ConfigurationBaseline | `bench.c:396` "Change configuration to only compile the isolated victim" | the clone is cut to two components before the victim is looked up in it: with a file in the order #0 #2 #1 the attacker is built, and the tool waits for a victim that is not there |

Also met while modelling, and not given a run, because the property would only
restate a missing check:

- with a single stage in `build.json`, each parse appends it once more to the list of
  the last one (`build.c:195`), cores are counted twice, and `default_mod.c:119` ends the
  tool; `ListsOfArch` is checked with two stages, where the walk replaces the list;
- with three cores or more, a missing binary of a middle core can leave the loader with a
  false header that announces no section, and the run goes on without that application;
- after a load without `ITERATIONS`, `optimize` reaches the assertion of `uart.c:158`;
- the exit status of `make` is thrown away (`build.c:365`), and so is the result of
  `parseBuildConfig` (`build.c:382`), while `default_mod.c:31` prints "Binaries compiled";
- `analyze` as the first command reaches the assertion of `bench.c:59`;
- `runExecution` prints "No config has been selected" (`bench.c:166`) but tests the
  module's configuration, so `execute` runs after a rejected load;
- `CUR_CFG` may point to the freed isolated configuration (`bench.c:392`);
- `simulatedAnnealing` saves its history under the suffix of the random search
  (`optimization.c:1037`);
- with a binary missing, or a first log that ends a second too early, the
  experiment goes on: `Uart` shows that it then yields no sample or cut ones, never
  misplaced ones;
- `read_line_from_tty` returns half a line after a second of silence (`uart.c:147`),
  against its comment (`uart.c:142`); a value cut between its digits is stored;
- a tool killed while a slow board lags behind can, after a second fault, shake hands
  with a firmware that still takes the commands of the first;
- load, choose DEGRADATION, fail a load, execute: `INPUT_CONFIG` is NULL while the outputs
  remain, and `cloneConfig` asserts (`utils.c:470`);
- `runBench` subtracts `IGNORE_LIMIT` from an unsigned size (`bench.c:222`), which wraps
  below ten `ITERATIONS`; boolean proprieties would have uninitialized grids
  (`optimization.c:320`), but no module lets one be optimized;
- a propriety flagged [O] whose module has no step kills the tool by a division by
  zero (`optimization.c:309`); a value off the grid is truncated to it; ids that occur
  twice and [O] on proprieties the module does not know are accepted;
- `computeProprietyDegradation` does not test NEEDED though `bench.c:406` says so, and skips
  the propriety after one it removes; a system that is not among the first two
  components is a null pointer there; the isolated configuration of a file without #0 is its
  first component, whatever it is, and the victim;
- the weighted search may return a configuration that is worse in both metrics than
  one it measured, because the averages have moved in between (`optimization.c:916`); the
  second `optimize` begins with the averages of the first (`optimization.c:509` resets
  them only for a call nobody makes); the isolated victim is that of the first
  configuration whose first metric was accepted (`optimization.c:554`);
- what comes behind a gap of a memory map goes wrong, against `README.md:138` of the repository: a gap
  leaves no invalid descriptors, so what follows it on that level is found at another address
  (`mmu_gen.c:269`). On the Raspberry Pi that is the LINK region (`rpi4b/mem.map:12`): its table is
  shifted by the 15 pages that are missing between lines 11 and 12, so the last pages of core 0's share are
  mapped to pages of colour 1 and the last of the region to nothing. On both Zynq boards it is lines 23
  and 24. All other regions of the three maps are `Unbroken`;
- an unsorted map replaces the head of a list
  (`mmu_gen.c:107`); a coarse region between finer ones shifts the tables; a coloured
  region loses the remainder of its last period (`mmu_gen.c:243`), two that adjoin merge,
  and the stride of `mmu_gen.c:251` is right only where as many pages are contiguous as
  there are cores, as on all the boards (`ColoursMeetOtherwise` proves that elsewhere a core is
  led into the pages of another); `genMMU` ignores that `mapToMMU` gave up (`mmu_gen.c:514`);
- with `THRESHOLD` 0.5, which `module/src/global.c:8` allows, or 0.49 of the smallest `BUDGET`, a charge
  is as large as the budget, and one right after a replenishment sleeps at `IRQ.c:61` while the timer is
  stopped: for good. `TimerWakes` and `Resumes` say that this is the only way (`whole`). An overflow
  between `disable_cntp` and `stop_irq` (`boot2.c:21`) sleeps with no timer either, which they exclude by
  `from = "app"`; and a core that sleeps when another one ends sleeps on, the distributor being disabled for
  all (`GIC.c:257`);
- a board that is switched on amid an image may take a 0x1 and a later 0x0 of it for the handshake
  (`deploy/src/main.c:14`) and then answers its bytes as commands it does not know; a tool started then finds
  an answer to a handshake that is not its own, and samples may be missing or of another run. `CleanBoard`,
  `SamplesComplete` and `SamplesInPlace` exclude it (`~fooled`);
- a board that pauses for a second inside a log is sent the next image while it prints, and loses bytes
  of it; `CoresLoaded` and `InStep` speak of boards that answer in time;
- when `mkdir` fails, `processResults` returns at once (`bench.c:265`) and the run goes on without its files;
- `GIC.c:143` says "CPU private IRQs" of a loop that also clears and disables the shared ones
  of the other cores, and the registers of `init_irq` are read, changed and written
  without a lock.

## 4. What is proved

Proofs are for every value of the constants that satisfies the named assumption.

**BuildPipelineProofs**, from `StagesAssumption` (a non-empty list of lists of id
sets) and `HelperAssumption` (helpers are not makes):

- `BuildInvariant`: `Spec => []BuildInv`. `StageOrder` alone is not inductive: it
  says nothing of zombies nor of what the loops have passed. `BuildInv` adds that
  slots not reached have no make (`NotStarted`), that slots whose `waitpid` has
  returned have none left alive (`AllReaped`), that a slot has a pid of its own
  exactly when it has had a make (`PidOwned`), and that no stage is left when the
  tool is idle (`IdlePastEnd`). The step that needs thought is `Reap` on a slot without a
  make of its own: it may take any zombie, but never turns a reaped make back, and
  it passes only a slot that `PidOwned` knows to be without a make.
- `StagesAreSequential`, `BuildsLeaveNoMake`: the two properties, from it.
- `ImplementsStagedBuild`: every step is a `Launch`, a `Finish`, a `Renew` or a stutter.

**MemoryMapProofs**, from `MapAssumption` (a map is ascending, a level's page is a multiple
of the next one's), in four parts.

*The block lists of every map*: `MapInvariant`, with `BlocksStayInOrder` and `EntriesStayCovered`. The
two do not carry themselves: nothing in them says that the previous block of
an entry is the last of its list. `StartsBelow` adds that a block starts below the end of a
handled entry, so in an ascending map the new block, or the extended one, is always
the last. `CeilCovers` is the arithmetic of the rounding.

*The colours of a block*, from `CacheAssumption` too, for every block of whole periods: where as many pages are
contiguous as there are cores, the descriptors of a core point to the pages of its colour
and to each page of the block once (`ColoursFillBlock`), and two cores never meet in a set
of a shared cache (`ColoursNeverMeet`); everywhere else some descriptor of core 0 points to a page
of another colour (`ColoursMeetOtherwise`). The attempt to prove the first without
that condition is what brought it to light: `StridesFit` has since been part of `ColoursFit`, which
`RegionsMapped` and `ColoursApart` ask of a map with a coloured region.

*The block lists up to a gap*: `UnbrokenInvariant`. Nothing in `MapInv` says that a list has
no gap, that the block over a page is the right one, or how many blocks point to the next level, and
the tables are found by counting. What the generator gets right is decided level by level: `Sound(m, l, k)`
says that up to entry k the regions which reach level l follow one another there, from a whole descriptor on; an
entry is `Unbroken` if that is so on every level it reaches. `LevelOk` says of a list and the entries done
there: the last block reaches less than a descriptor behind the entries (`Tight`); the list begins with
the first entry that reaches the level and goes on without a gap, in whole descriptors (`Seamless`); a
block that points to the next level begins where that level does, as long as that level is sound
(`Pointing`); each page is in a block that is terminal exactly at the level of its region, and then
has its attributes (`Served`); a coloured block is exactly one region (`Whole`). What comes behind a gap
only adds blocks or extends the last one, so the invariant is that each list begins with the blocks of a
*core* (`CoreOf`, `Extends`) for which `LevelOk` holds with the sound entries done (`Good`). An unbroken
entry is never refused, which is part of the invariant because a refusal ends the mapping in the middle. `Prior` is the
step that uses `Sound`: what the entry before has left is the last block of the level, and
reaches the new entry. `JoinKeeps`, `AppendKeeps` and `FirstKeeps` are the three ways a core grows,
`FoundKeeps` the one it does not, `AddExtends` and `ColouredStays` what an entry that is not sound does to it.

*The tables up to a gap*: `RegionsAreMapped` and `ColoursStayApart`. When the generator is through
(`Settled`), the first descriptor of a block of the core is as many descriptors behind the table as its
first page is behind the first page of the level (`Layout`; a coloured block is written whole,
`WrittenWhole`). So an index taken from an address leads to the descriptor of that address (`BlockAt`), and
since the one table of the next level starts with that level (`OnePointing`), it does so at the next level
too (`WalkFinds`, by induction over the levels), down to the page of the region (`WalkEnds`). `FirstOf` and
`Found` are recursive functions: `FirstOfDef` and `FoundDef` unfold them once. `RegionsAreMapped` follows with
`ColoursFillBlock`, and `ColoursStayApart` with `ColoursNeverMeet`, once the share of a core is seen to be
its colour (`SliceSliced`) and a cache without a full page a way is seen to leave one core only (`OnePage`).

**BandwidthProofs**, from `BandwidthAssumption` only, which lets one charge be larger than a
budget, as the range of `THRESHOLD` does: `PeriodsAreRegulated` and `SleepersHaveTimer`, from the invariant
`BandwidthInv`. Its parts bound what the PMU may have counted before a charge by the
counter that interrupts (`LeftBound`) and, once that is over, by the latency
(`PendingBound`). While the timer is stopped in a handler that has a new budget, the budget is whole or was
charged once, since the overflow is pending once only (`Charging`); so a core sleeps there only if that
charge took a whole one (`Fresh`), and otherwise a timer counts, has fired, or is about to be started
(`TimerOn`). What was
used is what was charged or is still counted (`UsedBound`), and a core without budget
does not get back to its application before it has a new one (`Exhausted`).

**SearchProofs**, from `SearchAssumption`: `SearchInvariant` for the three searches,
with `SearchReturnsBest`, `HistoryIsOfBest` and `SearchNeverRepeats` as corollaries. The
inductive
invariant adds that annealing never stands on something better than its best
(`KeptBelowBest`), that the hashes are those of the configurations measured, all
different (`KeysOfMeasured`, `KeysDiffer`), and that the history ends in the best
(`HistoryBelow`). `NeverTwice` needs only that equal
configurations have equal keys; the converse is false (`SearchKeys`).
`MutatedInGrids` is the arithmetic of the annealing noise.

**SessionProofs**, from `SessionAssumption`: `OutputsImplyConfig` and
`OnlyAcceptedIsBuilt`, for any architectures, files, `build.json` and sequence of
commands; and `ModuleAndToolAgree`: as long as `INPUT_CONFIG` is set, `CUR_CFG` is of the
same file (the lemma `CurCfgIsInput`: whoever builds, builds `INPUT_CONFIG`).
`OutputsHaveConfig` is inductive next to the type invariant (`SessionStaysTyped`); the latter
carries that `runExecution`'s walk stays inside the list of outputs, which holds
because a build in the middle of the walk registers outputs only when there are none.
`ListsAreOfArch` and `RunsAreOfSelected` have one hypothesis more, `Plural`: every architecture
has at least two stages and two files in its `build.json`, as that of `rpi4b` does (2 under
BUILD, 4 under DEPLOY). With a single one the property is false, see section 3. `WalkIsJson` is the
induction over the walk of `parseBuildConfig`: after it the list is that of the file, whatever was in
it, if both have two nodes or more. `ListsInv` adds `ArchOfInput` to the two properties: a build in
the middle of an execution or a search parses the `build.json` of an architecture only because
`INPUT_CONFIG` is loaded after one was selected.

**WeightedSearchProofs**, from `GridAssumption` and `WeightedAssumption`: `MeansAreOfAccepted`,
`RescalingIsExact`, `BestIsMeasured` and `IsolatedIsOfSearch`, from `WeightedInv`. Its strengthening is
`OneHashEach` (the last hash is that of the configuration under evaluation, which is
why the isolated victim is one of this search) and `BestOverAverages`: the best times its averages is
what was measured, as an equation between integers, so that no quotient has to be reduced
in the middle of the argument. The fractions are reduced by Euclid's algorithm; `GcdDivides` and
`FractionIsQuotient` are what it computes, for all numbers. `NumMaxStatesPositive` is the product of
the ranges.

**ConfigurationProofs**, from `ConfigurationAssumption`: `TriedStaysAccepted` (whatever the optimizer
draws, the configuration passes the checks of `loadConfig`), `GridIsReadBack` (the grid generated from
the configuration built for a grid is that grid) and the action property `OnlyMarkedChange`. They
rest on `CfgInv`: ids do not repeat (`Unique`), limits are those of the module and values lie within them
(`Limited`), no step is zero once a search has begun (`Divisible`), and the grid drawn is within its
maxima (`OnGrid`). `BaselineIsOfTried` rests on `BaseInv` and on the hypothesis
`MitigationsApart`: in no accepted file does a mitigation come right after one that is removed,
because the loop that removes it skips the next propriety. All mitigations of `rpi4b` are booleans, which
are switched off and not removed, so its files satisfy it. `UnmitigatedIsOff` is the loop over the
proprieties, by induction on their number.

**UartLinkProofs**, from `LinkAssumption`, for any number of cores, outputs, samples,
iterations, knocks and faults:

- `LinkStaysTyped`: with `LinkTypes`, which adds to `TypeOK` where in the script each place of the
  host is (`Places`), and that a header is never longer than its ten bytes while it is awaited.
- `VictimIsLoaded`: `NoVictim` says of every place where an image or a value can be that
  the victim's is not there: the line, the loader, the memory, the answer, the line the host puts
  together. `VictimLoaded` alone says only that no sample was stored.
- `SamplesStayInPlace` and `SamplesAreComplete`, from `HostInv`, with no hypothesis: under all kills, power
  cycles, timeouts and overruns, until a firmware takes bytes of an image for the handshake. `Stream` is what is in the line followed by what the board has still to print.
  `HandshakeInv` says that a host cannot take the 0x1 of an earlier handshake for the answer to its own
  and then knock once more: what a fresh firmware prints is at most one 0x1, and nothing at all
  while a 0x0 of the last host is ahead of the knock. By `StreamInv` each `$` in the stream
  of a host that has its answer begins a whole benchmark, or one that ends where the power was cut, and
  then the board waits for a knock that does not come (`Stopped`). `SampleInv` puts the host, from the
  `$` to the `?`, at a place of that benchmark: between two values, within one, or
  past a value that a timeout cut. The place fixes the count of values, and so the slot (`Slots`).
- `StaysInStep`: from `LockInv`. When nothing interferes and the board answers in time, the line has a
  grammar (`InOrder`): each token may follow the one before it (`Chained`), the first one is one the firmware
  waits for (`Left`), the last lets the host go on (`Right`); the knocks of the handshake are answered
  once (`Greeted`), and only knocks follow a reset (`Restart`). And the two sides alternate (`Lockstep`):
  either all of a question is in the line (`Asks`: what makes the firmware answer is its last token) and no
  answer is, or the firmware is at its prompt and all of the answer is (`Answers`: its 0 is the last
  token). The two carry each other: the grammar says what the firmware makes of a question, and the
  lockstep that the board has nothing left to print when it is sent an image, so that no byte overruns its
  FIFO and the grammar holds (`NoScraps`). Both need the place in the benchmark, since the answer to `RUN` is
  read by two loops.
- `CoresAreLoaded`: from `ImagesInv`, which rests on `LockInv`: an image that was sent is in memory or
  on its way before any RUN, and what the benchmark prints is printed after it. Its hypothesis
  `Reached`, every configured core is below the bound of the loop, is what `default_mod.c:138` takes for
  granted; the run `UartCores` shows what happens without it.
- `BoardIsClean`: from `CleanInv`, in two ways to the same end, as long as no firmware was fooled. When the
  board answers in time (`Patient`), a host that is waited for has sent nothing behind its knocks but the
  0x0, so a firmware that hears a knock hears no command before its prompt, whatever an earlier host left in
  the line. When nobody interferes (`Orderly`, which is the part of the grammar that does not depend on which
  binaries are missing or what overran), a firmware starts only after RESET, behind which there are only
  knocks, or what was lost of them. Either
  way the memory, which is clear before the greeting (`Unused`), is still clear after it (`Untouched`).

The runs check the properties these theorems state and, of the inductive invariants, `BuildInv`,
`SearchInv` and `MapInv`.

*Induction.* The theorems of the library take an operator as a parameter and no prover here can
instantiate it. Four modules therefore derive the same principle for a *set* of naturals, by its least
element (`WFMin` with `NatLessThanWellFounded`), and state the induction over recursive functions
and lists with it; `MemoryMapProofs` also takes the least element itself, for the least of the shared caches, and goes through
the levels of the tables and the blocks of a list with the principle.

**Only model-checked**:

- liveness: `BuildReturns`, `BenchEnds`, `Resumes`, which the prover does not reach;
- `DrawsLeft`: it compares the number of iterations with the number of grids, a product over the
  proprieties. Every other property of a passing run is stated by a theorem.

## 5. Not modelled

Parsing of `arch.desc`, `mem.map` and configuration files, compiler flags, copying of
files, the search for a serial port, plots: input and output without a state of its
own. The rest of `calc.c` (medians, noise tests, histograms) is floating-point
arithmetic on samples; proprieties of type double take the same steps as
integers. The firmware's MMU and caches are below the level of the line; the
commands `SYS`, `MEM` and `EXIT` are never sent by the tool. `uart_unlock`,
`callMakefileVA`, `isMMUBlockAvail` and `tty.c` are not called.

How much of the repository that is. Of some 230 000 lines, about 9 000 are this
program: the rest is code Xilinx generated or ships for the Zynq boards
(`psu_init.c` and `psu_init.h` of two projects alone are half of it, then the first
stage boot loader), the Trace32 remote API (`hremote.c`), and benchmark kernels. They
have no behaviour of this project's making, so the models cover a small share of the
repository and most of its own control flow.
The Zynq projects carry a variant of the interrupt code of the Raspberry Pi, from which
`Bandwidth` is translated.

## 6. Plan

Done: every module, with a proof module beside each of the eight components, and a theorem for every
safety property but `DrawsLeft`, every action property and refinement that a passing run checks. What would come next is new
behaviour, not new proofs: the parsers of `arch.desc` and `mem.map`, which decide what maps `MemoryMap`
is given.
