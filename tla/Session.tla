-------------------------------- MODULE Session --------------------------------
(***************************************************************************)
(* A session at the command line of cli.c: the global state of state.c and  *)
(* global.c (SELECTED_ARCH, AVAIL_CONFIGS.selected, INPUT_CONFIG,           *)
(* OUTPUT_LIST_SELECTED), the lists build.c keeps of build.json, and the    *)
(* configuration default_mod.c remembers from its last build (CUR_CFG).     *)
(* The hooks of the architecture are the default ones; their inside is in   *)
(* BuildPipeline (compiling) and UartLink (measuring).                      *)
(***************************************************************************)
EXTENDS Integers, SequencesExt

CONSTANTS
    Arch,      \* the architectures of archs.txt
    Config,    \* names of configuration files
    Stages,    \* for each architecture, the stages of BUILD in build.json
    Files,     \* for each architecture, the entries of DEPLOY
    Cored,     \* for each stage, how many of its instances have a "core"
    Cores,     \* for each architecture, NUM_CORES of arch.desc
    Outputs    \* how many outputs default_BUILD_PROJECT registers

ASSUME SessionAssumption ==
    /\ "none" \notin Arch \cup Config
    /\ \A a \in Arch : Cores[a] \in Nat \ {0}
    /\ \A a \in Arch : Stages[a] \in Seq(DOMAIN Cored)
    /\ Outputs \in Nat \ {0}

VARIABLES
    mode,      \* "cli", "analyze" or "optimize" (their TUIs), "process",
               \* "isolate", or how the tool ended
    back,      \* the mode runExecution returns to
    arch,      \* SELECTED_ARCH; MODULE_CONFIG is set with it
    selected,  \* AVAIL_CONFIGS.selected
    input,     \* INPUT_CONFIG
    outputs,   \* OUTPUT_LIST_SELECTED: the DATA_TYPE of each output
    stages,    \* build_conf.bhead
    files,     \* build_conf.dhead
    curCfg,    \* CUR_CFG
    at,        \* output processResults is busy with
    run,       \* last measurement the board made
    compared   \* the two outputs calculateDegradation compared last

vars == <<mode, back, arch, selected, input, outputs, stages, files, curCfg,
          at, run, compared>>

NoConfig == [arch |-> "none", name |-> "none"]
NoRun == [arch |-> "none", stages |-> <<>>]
Configs == [arch : Arch, name : Config]

Init ==
    /\ mode = "cli" /\ back = "cli"
    /\ arch = "none" /\ selected = "none" /\ input = NoConfig
    /\ outputs = <<>> /\ stages = <<>> /\ files = <<>>
    /\ curCfg = [of |-> NoConfig, iso |-> FALSE, live |-> TRUE]
    /\ at = 0 /\ run = NoRun /\ compared = <<1, 1>>

------------------------------------------------------------------------------
(* build.c: parseBuildConfig fills the lists it finds from the last call.   *)

\* One element of BUILD or DEPLOY: the first node of an empty list, a new last
\* node, or the node the walk stands on, whose zeroing cuts the list there.
Place(walk, e) ==
    IF walk.pos = Len(walk.list)
    THEN [list |-> Append(walk.list, e), pos |-> walk.pos + 1]
    ELSE [list |-> Append(SubSeq(walk.list, 1, walk.pos - 1), e), pos |-> walk.pos]

Walk(list, json) ==
    FoldLeft(Place, [list |-> list, pos |-> IF list = <<>> THEN 0 ELSE 1], json).list

\* build.json is read and parsed, or it is not and the lists stay.
ParseBuildConfig ==
    \/ /\ arch # "none"
       /\ stages' = Walk(stages, Stages[arch])
       /\ files' = Walk(files, Files[arch])
    \/ UNCHANGED <<stages, files>>

\* activeCores counts the instances of the list that have a core.
ActiveCores(list) == FoldLeft(LAMBDA n, s : n + Cored[s], 0, list)

------------------------------------------------------------------------------
(* default_mod.c                                                            *)

\* default_BUILD_PROJECT: CALL_MAKEFILES parses build.json and runs make for
\* the stages of the list, and the outputs are registered if the victim has
\* the ITERATIONS propriety.  A registered output keeps its DATA_TYPE.
BuildProject(cfg, iso, live, iterations) ==
    /\ curCfg' = [of |-> cfg, iso |-> iso, live |-> live]
    /\ ParseBuildConfig
    /\ outputs' = IF iterations /\ outputs = <<>>
                  THEN [i \in 1..Outputs |-> "RAW"] ELSE outputs

\* default_RUN_BENCH with a list: it exits unless every core is accounted for;
\* the board then runs the images the list names.
RunBench(list, next, nextAt) ==
    IF ActiveCores(list) = Cores[arch]
    THEN /\ run' = [arch |-> arch, stages |-> list]
         /\ mode' = next /\ at' = nextAt
    ELSE mode' = "mismatch" /\ UNCHANGED <<run, at>>

------------------------------------------------------------------------------
(* Commands                                                                 *)

\* Mutant: the lists of the last architecture are kept.
SelectArch_KeepsLists(a) ==
    /\ mode = "cli"
    /\ arch' = a /\ selected' = "none"
    /\ UNCHANGED <<mode, back, input, outputs, stages, files, curCfg, at,
                   run, compared>>

\* Mutant: the module is asked to forget its configuration.
SelectArch_ForgetsConfig(a) ==
    /\ mode = "cli"
    /\ arch' = a /\ selected' = "none"
    /\ stages' = <<>> /\ files' = <<>>
    /\ curCfg' = [of |-> NoConfig, iso |-> FALSE, live |-> TRUE]
    /\ UNCHANGED <<mode, back, input, outputs, at, run, compared>>

\* set arch: selectArch and loadAvailableConfigs.  The configuration, the
\* outputs and CUR_CFG of the last architecture stay.
SelectArch(a) ==
    /\ mode = "cli"
    /\ arch' = a /\ selected' = "none"
    /\ stages' = <<>> /\ files' = <<>>
    /\ UNCHANGED <<mode, back, input, outputs, curCfg, at, run, compared>>

\* loadConfig: the file opens, parses, passes the checks against the module.
LoadAccepted(c) ==
    /\ mode = "cli" /\ arch # "none"
    /\ selected' = c
    /\ input' = [arch |-> arch, name |-> c]
    /\ \E iterations \in BOOLEAN : BuildProject(input', FALSE, TRUE, iterations)
    /\ UNCHANGED <<mode, back, arch, at, run, compared>>

\* Mutant: a rejected configuration is built all the same.
LoadFails_Builds(c) ==
    /\ mode = "cli" /\ arch # "none"
    /\ input' = NoConfig /\ selected' = "none"
    /\ \E i \in BOOLEAN : BuildProject([arch |-> arch, name |-> c], FALSE, TRUE, i)
    /\ UNCHANGED <<mode, back, arch, at, run, compared>>

\* Mutant: a rejected configuration becomes INPUT_CONFIG, and is not built.
LoadFails_Keeps(c) ==
    /\ mode = "cli" /\ arch # "none"
    /\ input' = [arch |-> arch, name |-> c] /\ selected' = c
    /\ UNCHANGED <<mode, back, arch, outputs, stages, files, curCfg, at,
                   run, compared>>

\* loadConfig gives up: the file does not open, does not parse, or the
\* configuration is rejected.
LoadFails(c) ==
    /\ mode = "cli" /\ arch # "none"
    /\ \/ selected' = c /\ UNCHANGED input
       \/ selected' = c /\ input' = NoConfig
       \/ selected' = "none" /\ input' = NoConfig
    /\ UNCHANGED <<mode, back, arch, outputs, stages, files, curCfg, at,
                   run, compared>>

\* deploy: DEPLOY_FILES reads build.json again and copies the files.
Deploy ==
    /\ mode = "cli"
    /\ ParseBuildConfig
    /\ UNCHANGED <<mode, back, arch, selected, input, outputs, curCfg, at,
                   run, compared>>

\* execute, or OK in the analyze TUI: runExecution, and the first runBench.
\* CUR_CFG may be freed memory: the tool crashes, or reads some core states.
Execute ==
    /\ mode \in {"cli", "analyze"}
    /\ arch # "none" /\ outputs # <<>>
    /\ back' = mode
    /\ \/ RunBench(stages, "process", 1)
       \/ /\ ~curCfg.live
          /\ mode' = "undefined" /\ UNCHANGED <<run, at>>
    /\ UNCHANGED <<arch, selected, input, outputs, stages, files, curCfg,
                   compared>>

\* Mutant: processResults goes on past the last output.
LastOutput_Past == at > Len(outputs)
LastOutput == at = Len(outputs)
AfterOutput == IF LastOutput THEN back ELSE "process"
NextOutput == IF LastOutput THEN 0 ELSE at + 1

\* processResults of an output with DATA_TYPE RAW; of any, if it cannot make the
\* directory of its results.
PassOutput ==
    /\ mode = "process"
    /\ mode' = AfterOutput /\ at' = NextOutput
    /\ UNCHANGED <<back, arch, selected, input, outputs, stages, files, curCfg,
                   run, compared>>

\* computeInterferenceDegradation: the victim alone is built and measured, and
\* the clone of INPUT_CONFIG, which is CUR_CFG now, is freed.  runBench is
\* asked for one result, the first output.
ProcessDegradation ==
    /\ mode = "process" /\ outputs[at] = "DEGRADATION"
    /\ input # NoConfig
    /\ \E iterations \in BOOLEAN : BuildProject(input, TRUE, FALSE, iterations)
    /\ RunBench(stages', AfterOutput, NextOutput)
    /\ compared' = IF mode' = "mismatch" THEN compared ELSE <<at, 1>>
    /\ UNCHANGED <<back, arch, selected, input>>

\* cloneConfig asserts that there is a configuration to clone.
CloneNothing ==
    /\ mode = "process" /\ outputs[at] = "DEGRADATION"
    /\ input = NoConfig
    /\ mode' = "cloneAssert"
    /\ UNCHANGED <<back, arch, selected, input, outputs, stages, files, curCfg,
                   at, run, compared>>

\* analyze: analysisTUI asserts that there is a configuration.
Analyze ==
    /\ mode = "cli"
    /\ mode' = IF input = NoConfig THEN "analyzeAssert" ELSE "analyze"
    /\ UNCHANGED <<back, arch, selected, input, outputs, stages, files, curCfg,
                   at, run, compared>>

\* hoverMultiOutType sets the DATA_TYPE of the output chosen in the TUI.
ChooseData(i, data) ==
    /\ mode = "analyze" /\ i \in DOMAIN outputs
    /\ outputs' = [outputs EXCEPT ![i] = data]
    /\ UNCHANGED <<mode, back, arch, selected, input, stages, files, curCfg,
                   at, run, compared>>

\* optimize: optimizationTUI, whose OK does nothing without a configuration.
Optimize ==
    /\ mode = "cli"
    /\ mode' = "optimize"
    /\ UNCHANGED <<back, arch, selected, input, outputs, stages, files, curCfg,
                   at, run, compared>>

\* One evaluation of the objective by the search of Search.tla, which changes
\* INPUT_CONFIG in place: it is built for the architecture selected now, and
\* uart_to_result asserts that there are outputs.
TryConfig ==
    /\ mode = "optimize" /\ input # NoConfig
    /\ \E iterations \in BOOLEAN : BuildProject(input, FALSE, TRUE, iterations)
    /\ IF ActiveCores(stages') = Cores[arch] /\ outputs' = <<>>
       THEN mode' = "resultAssert" /\ UNCHANGED <<run, at>>
       ELSE RunBench(stages', "isolate", at)
    /\ UNCHANGED <<back, arch, selected, input, compared>>

\* Its second half: the victim alone is built and measured, and its
\* configuration, a clone, is freed.
IsolateVictim ==
    /\ mode = "isolate"
    /\ \E iterations \in BOOLEAN : BuildProject(input, TRUE, FALSE, iterations)
    /\ RunBench(stages', "optimize", at)
    /\ compared' = IF mode' = "mismatch" THEN compared ELSE <<1, 1>>
    /\ UNCHANGED <<back, arch, selected, input>>

\* EXIT in either TUI.
CloseTUI ==
    /\ mode \in {"analyze", "optimize"} /\ mode' = "cli"
    /\ UNCHANGED <<back, arch, selected, input, outputs, stages, files, curCfg,
                   at, run, compared>>

\* exit: cleanState.
Exit ==
    /\ mode = "cli" /\ mode' = "exited"
    /\ input' = NoConfig /\ outputs' = <<>>
    /\ stages' = <<>> /\ files' = <<>>
    /\ UNCHANGED <<back, arch, selected, curCfg, at, run, compared>>

Next ==
    \/ \E a \in Arch : SelectArch(a)
    \/ \E c \in Config : LoadAccepted(c) \/ LoadFails(c)
    \/ Deploy \/ Execute
    \/ PassOutput \/ ProcessDegradation \/ CloneNothing
    \/ Analyze \/ Optimize \/ TryConfig \/ IsolateVictim \/ CloseTUI
    \/ \E i \in 1..Outputs, d \in {"RAW", "DEGRADATION"} : ChooseData(i, d)
    \/ Exit

Spec == Init /\ [][Next]_vars

------------------------------------------------------------------------------
\* Types; in particular the walk over the outputs stays inside the list.
TypeOK ==
    /\ mode \in {"cli", "analyze", "optimize", "process", "isolate", "exited",
                 "mismatch", "undefined", "analyzeAssert", "cloneAssert",
                 "resultAssert"}
    /\ back \in {"cli", "analyze"}
    /\ arch \in Arch \cup {"none"} /\ selected \in Config \cup {"none"}
    /\ input \in Configs \cup {NoConfig}
    /\ outputs = <<>> \/ outputs \in [1..Outputs -> {"RAW", "DEGRADATION"}]
    /\ curCfg \in [of : Configs \cup {NoConfig}, iso : BOOLEAN, live : BOOLEAN]
    /\ mode = "process" => at \in DOMAIN outputs
    /\ mode = "isolate" => input # NoConfig
    /\ compared \in (1..Outputs) \X {1}

\* Every build.json has two stages and two files or more, as the one of rpi4b
\* has.  (The second parse of a list with one entry would append it once more.)
Plural ==
    \A a \in Arch :
        /\ Len(Stages[a]) >= 2
        /\ Files[a] \in Seq(Range(Files[a])) /\ Len(Files[a]) >= 2

\* The lists build.c keeps are those of the selected architecture's build.json
\* or empty, however often and by whichever command it is parsed
\* (parseBuildConfig never empties them), if it is Plural.
ListsOfArch ==
    /\ stages # <<>> => arch # "none" /\ stages = Stages[arch]
    /\ files # <<>> => arch # "none" /\ files = Files[arch]

\* A measurement that reaches the board runs the images of the architecture
\* that was selected: switching architectures without a load ends in the core
\* count check of default_RUN_BENCH, never in images of the other one.
BoardRunsSelected == run # NoRun => run.stages = Stages[run.arch]

\* runExecution checks for outputs and never for a configuration, although
\* default_RUN_BENCH reads CUR_CFG: outputs exist only when CUR_CFG does.
OutputsHaveConfig == outputs # <<>> => curCfg.of # NoConfig

\* analyze and optimize look at INPUT_CONFIG, a run at CUR_CFG: as long as there
\* is one to look at, both are of the same file, or of its isolated victim.
ModuleAgrees == input # NoConfig => curCfg.of = input

\* Only a configuration that passed loadConfig's checks becomes CUR_CFG.
BuildsOnlyAccepted ==
    [][curCfg'.of # curCfg.of => curCfg'.of # NoConfig /\ input' = curCfg'.of]_vars

\* calc.c:99: calculateDegradation takes "the data of isolated victim and the
\* same for the the full config".
SameOutputCompared == compared[1] = compared[2]
==============================================================================
