---------------------------- MODULE BuildPipeline ----------------------------
(***************************************************************************)
(* CALL_MAKEFILES and callMakefile (src/src/build.c): the tool forks one    *)
(* "make" per instance of a stage, waits for all of them, and goes on to    *)
(* the next stage.  An instance with an unconfigured component is skipped:  *)
(* its slot of pids[] keeps the 0 of calloc, and a failed fork leaves -1,   *)
(* so waitpid() on either waits for ANY child of the tool, a make of the    *)
(* same stage or a helper process (debugger, XSCT) a board hook started.    *)
(***************************************************************************)
EXTENDS Integers, Sequences

CONSTANTS
    Comp,     \* component identifiers
    Stages,   \* build.json "BUILD": Stages[s][i] is the id set of an instance
    Helper    \* background children started through the module API

ASSUME StagesAssumption == Stages \in Seq(Seq(SUBSET Comp)) /\ Stages # <<>>

Job == UNION {{s} \X DOMAIN Stages[s] : s \in DOMAIN Stages}
Child == Job \cup Helper

ASSUME HelperAssumption == Helper \cap Job = {}

VARIABLES
    config,   \* ids of the components of the CONFIG being built
    pc,       \* "idle", or the loop of callMakefile being run: "fork", "wait"
    stage,    \* position of build_ptr; past the end when no build runs
    inst,     \* loop counter i of callMakefile
    pid,      \* pids[]: 0 of calloc, the child's own pid, or -1 of fork
    proc      \* state of every child process of the tool

vars == <<config, pc, stage, inst, pid, proc>>

Needs(j) == Stages[j[1]][j[2]]
Current == <<stage, inst>>
InStage == inst <= Len(Stages[stage])

\* Mutant: each slot waits for any child, as if waitpid(-1) had been written.
WaitSet_Any(j) == Child

\* The children waitpid(pid[j]) waits for.
WaitSet(j) == IF pid[j] = "own" THEN {j} ELSE Child
Alive(c) == proc[c] \in {"running", "zombie"}

Init ==
    /\ config = {}
    /\ pc = "idle"
    /\ stage = Len(Stages) + 1
    /\ inst = 1
    /\ pid = [j \in Job |-> "zero"]
    /\ proc = [c \in Child |-> "none"]

------------------------------------------------------------------------------
\* BUILD_PROJECT(cfg) reaches CALL_MAKEFILES.
StartBuild(cfg) ==
    /\ pc = "idle"
    /\ config' = cfg
    /\ pc' = "fork"
    /\ stage' = 1
    /\ inst' = 1
    /\ pid' = [j \in Job |-> "zero"]
    /\ proc' = [c \in Child |-> IF c \in Job THEN "none" ELSE proc[c]]

\* A module hook starts a long-lived child between two builds (INIT_T32).
StartHelper(h) ==
    /\ pc = "idle"
    /\ ~Alive(h)
    /\ proc' = [proc EXCEPT ![h] = "running"]
    /\ UNCHANGED <<config, pc, stage, inst, pid>>

\* The path was erased because an id of the instance is not configured.
SkipInstance ==
    /\ pc = "fork" /\ InStage
    /\ ~(Needs(Current) \subseteq config)
    /\ inst' = inst + 1
    /\ UNCHANGED <<config, pc, stage, pid, proc>>

ForkMake ==
    /\ pc = "fork" /\ InStage
    /\ Needs(Current) \subseteq config
    /\ pid' = [pid EXCEPT ![Current] = "own"]
    /\ proc' = [proc EXCEPT ![Current] = "running"]
    /\ inst' = inst + 1
    /\ UNCHANGED <<config, pc, stage>>

ForkFails ==
    /\ pc = "fork" /\ InStage
    /\ Needs(Current) \subseteq config
    /\ pid' = [pid EXCEPT ![Current] = "error"]
    /\ inst' = inst + 1
    /\ UNCHANGED <<config, pc, stage, proc>>

\* Mutant: the loop of the waits begins behind the first make.
AllForked_SkipsFirst ==
    /\ pc = "fork" /\ ~InStage
    /\ pc' = "wait"
    /\ inst' = 2
    /\ UNCHANGED <<config, stage, pid, proc>>

AllForked ==
    /\ pc = "fork" /\ ~InStage
    /\ pc' = "wait"
    /\ inst' = 1
    /\ UNCHANGED <<config, stage, pid, proc>>

\* waitpid returns a child that has ended; its status is thrown away.
Reap ==
    /\ pc = "wait" /\ InStage
    /\ \E c \in WaitSet(Current) :
          /\ proc[c] = "zombie"
          /\ proc' = [proc EXCEPT ![c] = "reaped"]
    /\ inst' = inst + 1
    /\ UNCHANGED <<config, pc, stage, pid>>

\* Mutant: waitpid() is retried until it returns a pid, ECHILD taken for EINTR.
NoChild_Retry ==
    /\ pc = "wait" /\ InStage
    /\ \A c \in WaitSet(Current) : ~Alive(c)
    /\ UNCHANGED vars

\* waitpid fails with ECHILD: no such child is left.
NoChild ==
    /\ pc = "wait" /\ InStage
    /\ \A c \in WaitSet(Current) : ~Alive(c)
    /\ inst' = inst + 1
    /\ UNCHANGED <<config, pc, stage, pid, proc>>

\* Mutant: the wait loop leaves after the first waitpid() of the stage.
NextStage_OneWait ==
    /\ pc = "wait" /\ (~InStage \/ inst > 1)
    /\ stage' = stage + 1
    /\ inst' = 1
    /\ pc' = IF stage < Len(Stages) THEN "fork" ELSE "idle"
    /\ UNCHANGED <<config, pid, proc>>

NextStage ==
    /\ pc = "wait" /\ ~InStage
    /\ stage' = stage + 1
    /\ inst' = 1
    /\ pc' = IF stage < Len(Stages) THEN "fork" ELSE "idle"
    /\ UNCHANGED <<config, pid, proc>>

\* A make (or a helper) ends, in its own time.
ChildExits(c) ==
    /\ proc[c] = "running"
    /\ proc' = [proc EXCEPT ![c] = "zombie"]
    /\ UNCHANGED <<config, pc, stage, inst, pid>>

Tool == \/ SkipInstance \/ ForkMake \/ ForkFails \/ AllForked
        \/ Reap \/ NoChild \/ NextStage

Next ==
    \/ \E cfg \in SUBSET Comp : StartBuild(cfg)
    \/ \E h \in Helper : StartHelper(h)
    \/ Tool
    \/ \E c \in Child : ChildExits(c)

\* The tool's thread is scheduled, and every make ends; a helper may live on.
Fairness == WF_vars(Tool) /\ \A j \in Job : WF_vars(ChildExits(j))

Spec == Init /\ [][Next]_vars
FairSpec == Spec /\ Fairness

------------------------------------------------------------------------------
TypeOK ==
    /\ config \in SUBSET Comp
    /\ pc \in {"idle", "fork", "wait"}
    /\ stage \in 1..(Len(Stages) + 1)
    /\ inst \in Nat \ {0}
    /\ pid \in [Job -> {"zero", "own", "error"}]
    /\ proc \in [Child -> {"none", "running", "zombie", "reaped"}]

\* While a make runs, no make of a later stage has been started: the outer
\* list of build.json is sequential whatever waitpid() on a skipped slot
\* happened to reap (README.md:193).
StageOrder ==
    \A j, k \in Job : proc[j] = "running" /\ proc[k] # "none" => k[1] <= j[1]

\* When CALL_MAKEFILES has returned no make is left running or unreaped, so
\* the binaries that RUN_BENCH sends to the board are not being rewritten.
NoStrayMake == pc = "idle" => \A j \in Job : ~Alive(j)

\* The build implements the staged build of the README.
started == {j \in Job : proc[j] # "none"}
running == {j \in Job : proc[j] = "running"}
Staged == INSTANCE StagedBuild WITH Task <- Job
StagedSpec == Staged!Spec

\* The only way a build does not come back: it is parked in the waitpid() of
\* a slot without a make of its own, and the only children left are helpers.
ParkedOnHelper ==
    /\ pc = "wait" /\ InStage
    /\ pid[Current] # "own"
    /\ \A j \in Job : ~Alive(j)
    /\ \E h \in Helper : proc[h] = "running"

\* Every build comes back, or is parked on a helper that never ends.
BuildReturns == pc # "idle" ~> (pc = "idle" \/ ParkedOnHelper)

(* The strengthening of StageOrder and NoStrayMake that every step keeps.   *)

\* build_ptr is NULL exactly when no build is running.
IdlePastEnd == pc = "idle" <=> stage = Len(Stages) + 1

\* Only a slot with a pid of its own has had a make.
PidOwned == \A j \in Job : pid[j] = "own" <=> proc[j] # "none"

\* Slots not reached yet have no make.
Ahead(j) == j[1] > stage \/ (j[1] = stage /\ pc = "fork" /\ j[2] >= inst)
NotStarted == \A j \in Job : Ahead(j) => proc[j] = "none"

\* Slots whose waitpid() has returned have no make left, whatever waitpid()
\* on a slot without a make reaped.
Behind(j) == j[1] < stage \/ (j[1] = stage /\ pc = "wait" /\ j[2] < inst)
AllReaped == \A j \in Job : Behind(j) => ~Alive(j)

BuildInv == TypeOK /\ IdlePastEnd /\ PidOwned /\ NotStarted /\ AllReaped
==============================================================================
