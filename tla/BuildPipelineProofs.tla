------------------------- MODULE BuildPipelineProofs -------------------------
(***************************************************************************)
(* For every build.json, every set of configured components and any number  *)
(* of helper processes: the stages are sequential, no make outlives the     *)
(* build, and the pipeline implements the staged build of the README.       *)
(***************************************************************************)
EXTENDS BuildPipeline, TLAPS

(* A job is a stage and a position in it.                                   *)
LEMMA JobFacts ==
    ASSUME NEW j \in Job
    PROVE  /\ j = <<j[1], j[2]>>
           /\ j[1] \in 1..Len(Stages)
           /\ j[2] \in 1..Len(Stages[j[1]])
  BY StagesAssumption DEF Job

(* The slot callMakefile looks at is a job while its loop runs.             *)
LEMMA CurrentIsJob ==
    ASSUME TypeOK, stage <= Len(Stages), InStage
    PROVE  Current \in Job
  <1>1. Len(Stages) \in Nat /\ stage \in DOMAIN Stages
    BY StagesAssumption DEF TypeOK
  <1>2. Stages[stage] \in Seq(SUBSET Comp)
    BY <1>1, StagesAssumption
  <1>3. inst \in DOMAIN Stages[stage]
    BY <1>2 DEF TypeOK, InStage
  <1> QED
    BY <1>1, <1>3 DEF Job, Current

LEMMA LenFacts == Len(Stages) \in Nat \ {0}
  BY StagesAssumption

(* Type correctness holds initially and is kept by every step.              *)
LEMMA InitInv == Init => BuildInv
  <1> SUFFICES ASSUME Init PROVE BuildInv
    OBVIOUS
  <1>1. \A j \in Job : j[1] \in 1..Len(Stages) /\ j[2] \in 1..Len(Stages[j[1]])
    BY JobFacts
  <1>2. TypeOK
    BY LenFacts DEF Init, TypeOK, Child
  <1> QED
    BY <1>1, <1>2, LenFacts
       DEF Init, BuildInv, IdlePastEnd, PidOwned, NotStarted, Ahead,
           AllReaped, Behind, Alive, Child

LEMMA StepInv == BuildInv /\ [Next]_vars => BuildInv'
  <1> SUFFICES ASSUME BuildInv, [Next]_vars
               PROVE  BuildInv'
    OBVIOUS
  <1> USE LenFacts DEF BuildInv
  <1> Job \subseteq Child
    BY DEF Child
  <1>j. \A j \in Job : /\ j = <<j[1], j[2]>>
                       /\ j[1] \in 1..Len(Stages)
                       /\ j[2] \in 1..Len(Stages[j[1]])
    BY JobFacts
  <1>1. ASSUME NEW cfg \in SUBSET Comp, StartBuild(cfg)
        PROVE  BuildInv'
    <2>1. TypeOK'
      BY <1>1 DEF TypeOK, StartBuild, Child
    <2>2. (IdlePastEnd /\ PidOwned /\ NotStarted)'
      BY <1>1 DEF TypeOK, StartBuild, IdlePastEnd, PidOwned, NotStarted, Child
    <2>3. AllReaped'
      BY <1>1, <1>j DEF StartBuild, AllReaped, Behind
    <2> QED BY <2>1, <2>2, <2>3
  <1>2. ASSUME NEW h \in Helper, StartHelper(h)
        PROVE  BuildInv'
    <2>1. TypeOK'
      BY <1>2 DEF TypeOK, StartHelper, Child
    <2>2. \A j \in Job : proc'[j] = proc[j]
      BY <1>2, HelperAssumption DEF StartHelper, TypeOK
    <2> QED
      BY <1>2, <2>1, <2>2 DEF StartHelper, IdlePastEnd, PidOwned, NotStarted,
                               Ahead, AllReaped, Behind, Alive
  <1>3. CASE SkipInstance
    <2>1. ASSUME NEW j \in Job, Behind(j)' PROVE Behind(j)
      BY <1>3, <2>1, <1>j DEF SkipInstance, Behind
    <2> QED
      BY <1>3, <2>1, <1>j DEF SkipInstance, TypeOK, IdlePastEnd, PidOwned,
                        NotStarted, Ahead, AllReaped, Alive
  <1>4. CASE ForkMake
    <2>1. Current \in Job
      BY <1>4, CurrentIsJob DEF ForkMake, IdlePastEnd, TypeOK
    <2>2. TypeOK'
      BY <1>4, <2>1 DEF ForkMake, TypeOK
    <2>3. \A j \in Job : j # Current => pid'[j] = pid[j] /\ proc'[j] = proc[j]
      BY <1>4 DEF ForkMake, TypeOK
    <2>4. pid'[Current] = "own" /\ proc'[Current] = "running"
      BY <1>4, <2>1 DEF ForkMake, TypeOK
    <2>5. \A j \in Job : Ahead(j)' => Ahead(j) /\ j # Current
      BY <1>4, <1>j DEF ForkMake, Ahead, Current, TypeOK
    <2>6. \A j \in Job : Behind(j)' => Behind(j) /\ j # Current
      BY <1>4, <1>j DEF ForkMake, Behind, Current, TypeOK
    <2> QED
      BY <1>4, <2>1, <2>2, <2>3, <2>4, <2>5, <2>6
         DEF ForkMake, IdlePastEnd, PidOwned, NotStarted, AllReaped, Alive
  <1>5. CASE ForkFails
    <2>1. Current \in Job
      BY <1>5, CurrentIsJob DEF ForkFails, IdlePastEnd, TypeOK
    <2>2. TypeOK'
      BY <1>5, <2>1 DEF ForkFails, TypeOK
    <2>3. Ahead(Current)
      BY <1>5 DEF ForkFails, Ahead, Current, TypeOK
    <2>4. PidOwned'
      BY <1>5, <2>1, <2>3 DEF ForkFails, PidOwned, NotStarted, TypeOK
    <2> QED
      BY <1>5, <2>2, <2>4, <1>j
         DEF ForkFails, IdlePastEnd, NotStarted, Ahead, AllReaped, Behind,
             Alive, TypeOK
  <1>6. CASE AllForked
    <2>1. \A j \in Job : ~Behind(j)' \/ j[1] < stage
      BY <1>6, <1>j DEF AllForked, Behind
    <2> QED
      BY <1>6, <1>j, <2>1 DEF AllForked, TypeOK, IdlePastEnd, PidOwned,
                              NotStarted, Ahead, AllReaped, Behind, Alive
  <1>7. CASE Reap
    <2>1. Current \in Job
      BY <1>7, CurrentIsJob DEF Reap, IdlePastEnd, TypeOK
    <2>2. PICK c \in WaitSet(Current) :
               proc[c] = "zombie" /\ proc' = [proc EXCEPT ![c] = "reaped"]
      BY <1>7 DEF Reap
    <2>3. c \in Child
      BY <2>1, <2>2 DEF WaitSet
    <2>4. \A k \in Child : proc'[k] = IF k = c THEN "reaped" ELSE proc[k]
      BY <2>2, <2>3 DEF TypeOK
    <2>5. TypeOK'
      BY <1>7, <2>2, <2>3 DEF Reap, TypeOK
    <2>6. proc'[Current] \notin {"running", "zombie"}
      BY <2>1, <2>2, <2>4 DEF WaitSet, PidOwned, TypeOK
    <2>7. \A j \in Job : Behind(j)' => Behind(j) \/ j = Current
      BY <1>7, <1>j DEF Reap, Behind, Current, TypeOK
    <2>8. AllReaped'
      BY <2>4, <2>6, <2>7 DEF AllReaped, Alive
    <2>9. (IdlePastEnd /\ PidOwned /\ NotStarted)'
      BY <1>7, <2>2, <2>4 DEF Reap, IdlePastEnd, PidOwned, NotStarted, Ahead
    <2> QED BY <2>5, <2>8, <2>9
  <1>8. CASE NoChild
    <2>1. Current \in Job
      BY <1>8, CurrentIsJob DEF NoChild, IdlePastEnd, TypeOK
    <2>2. ~Alive(Current)
      BY <1>8, <2>1 DEF NoChild, WaitSet
    <2>3. \A j \in Job : Behind(j)' => Behind(j) \/ j = Current
      BY <1>8, <1>j DEF NoChild, Behind, Current, TypeOK
    <2> QED
      BY <1>8, <2>2, <2>3 DEF NoChild, TypeOK, IdlePastEnd, PidOwned,
                               NotStarted, Ahead, AllReaped, Alive
  <1>9. CASE NextStage
    <2>1. stage <= Len(Stages) /\ stage \in Nat
      BY <1>9 DEF NextStage, IdlePastEnd, TypeOK
    <2>2. \A j \in Job : j[1] = stage => j[2] < inst
      BY <1>9, <1>j, StagesAssumption DEF NextStage, InStage, TypeOK
    <2>3. \A j \in Job : Behind(j)' => Behind(j)
      BY <1>9, <1>j, <2>1, <2>2 DEF NextStage, Behind
    <2>4. \A j \in Job : Ahead(j)' => Ahead(j)
      BY <1>9, <1>j, <2>1 DEF NextStage, Ahead
    <2>5. (TypeOK /\ IdlePastEnd)'
      BY <1>9, <2>1 DEF NextStage, TypeOK, IdlePastEnd
    <2> QED
      BY <1>9, <2>3, <2>4, <2>5
         DEF NextStage, PidOwned, NotStarted, AllReaped, Alive
  <1>10. ASSUME NEW c \in Child, ChildExits(c)
         PROVE  BuildInv'
    <2>1. \A k \in Child : proc'[k] = IF k = c THEN "zombie" ELSE proc[k]
      BY <1>10 DEF ChildExits, TypeOK
    <2>2. TypeOK'
      BY <1>10 DEF ChildExits, TypeOK
    <2> QED
      BY <1>10, <2>1, <2>2 DEF ChildExits, IdlePastEnd, PidOwned, NotStarted,
                               Ahead, AllReaped, Behind, Alive
  <1>11. CASE UNCHANGED vars
    BY <1>11 DEF vars, TypeOK, IdlePastEnd, PidOwned, NotStarted, Ahead,
                 AllReaped, Behind, Alive
  <1> QED
    BY <1>1, <1>2, <1>3, <1>4, <1>5, <1>6, <1>7, <1>8, <1>9, <1>10, <1>11
       DEF Next, Tool

(* The inductive invariant of callMakefile's two loops: slots ahead have no  *)
(* make, slots behind have none alive, whatever a stray waitpid() reaped.   *)
THEOREM BuildInvariant == Spec => []BuildInv
  BY InitInv, StepInv, PTL DEF Spec

(* The outer list of build.json is sequential (README.md:193).              *)
THEOREM StagesAreSequential == Spec => []StageOrder
  <1>1. BuildInv => StageOrder
    <2> SUFFICES ASSUME BuildInv, NEW j \in Job, NEW k \in Job,
                        proc[j] = "running", proc[k] # "none"
                 PROVE  k[1] <= j[1]
      BY DEF StageOrder
    <2>1. j[1] \in Nat /\ k[1] \in Nat /\ stage \in Nat
      BY JobFacts DEF BuildInv, TypeOK
    <2>2. ~Behind(j) /\ ~Ahead(k)
      BY DEF BuildInv, AllReaped, NotStarted, Alive
    <2> QED
      BY <2>1, <2>2 DEF Behind, Ahead
  <1> QED
    BY <1>1, BuildInvariant, PTL

(* CALL_MAKEFILES returns with every make ended and reaped.                 *)
THEOREM BuildsLeaveNoMake == Spec => []NoStrayMake
  <1>1. BuildInv => NoStrayMake
    <2> SUFFICES ASSUME BuildInv, pc = "idle", NEW j \in Job
                 PROVE  ~Alive(j)
      BY DEF NoStrayMake
    <2>1. j[1] < stage
      BY JobFacts, LenFacts DEF BuildInv, IdlePastEnd
    <2> QED
      BY <2>1 DEF BuildInv, AllReaped, Behind
  <1> QED
    BY <1>1, BuildInvariant, PTL

(* The pipeline implements the staged build: forking is Launch, the end of a *)
(* make is Finish, a new build is Renew, and every wait is a stutter.       *)
LEMMA StagedStep ==
    BuildInv /\ [Next]_vars => [Staged!Next]_(Staged!vars)
  <1> SUFFICES ASSUME BuildInv, [Next]_vars
               PROVE  [Staged!Next]_(Staged!vars)
    OBVIOUS
  <1> DEFINE Simulated == Staged!Next \/ UNCHANGED Staged!vars
  <1> SUFFICES Simulated
    OBVIOUS
  <1> USE DEF BuildInv, Staged!vars, started, running
  <1>j. Job \subseteq Child
    BY DEF Child
  <1>1. ASSUME NEW cfg \in SUBSET Comp, StartBuild(cfg)
        PROVE  Simulated
    <2>1. \A j \in Job : proc[j] # "running"
      BY <1>1, BuildInv, JobFacts, LenFacts
         DEF StartBuild, IdlePastEnd, AllReaped, Behind, Alive
    <2>2. \A j \in Job : proc'[j] = "none"
      BY <1>1, <1>j DEF StartBuild
    <2> QED
      BY <2>1, <2>2 DEF Staged!Renew, Staged!Next
  <1>3. ASSUME NEW h \in Helper, StartHelper(h)
        PROVE  Simulated
    <2>1. \A j \in Job : proc'[j] = proc[j]
      BY <1>3, HelperAssumption DEF StartHelper, TypeOK
    <2> QED BY <2>1
  <1>4. CASE ForkMake
    <2>1. Current \in Job
      BY <1>4, CurrentIsJob, LenFacts DEF ForkMake, IdlePastEnd, TypeOK
    <2>2. \A j \in Job :
              proc'[j] = IF j = Current THEN "running" ELSE proc[j]
      BY <1>4, <1>j DEF ForkMake, TypeOK
    <2>3. Ahead(Current)
      BY <1>4 DEF ForkMake, Ahead, Current, TypeOK
    <2>4. proc[Current] = "none"
      BY <2>1, <2>3 DEF NotStarted
    <2>5. \A j \in Job : proc[j] # "none" => j[1] <= stage
      BY JobFacts DEF NotStarted, Ahead, TypeOK
    <2>6. \A j \in Job : proc[j] = "running" => j[1] >= stage
      BY JobFacts DEF AllReaped, Behind, Alive, TypeOK
    <2>7. \A j \in Job : j[1] \in Nat
      BY JobFacts
    <2>8. Current[1] = stage /\ stage \in Nat
      BY DEF Current, TypeOK
    <2>9. /\ \A u \in running : u[1] = Current[1]
          /\ \A u \in started : u[1] <= Current[1]
      BY <2>5, <2>6, <2>7, <2>8
    <2>10. /\ started' = started \cup {Current}
           /\ running' = running \cup {Current}
      BY <2>1, <2>2
    <2>11. \E t \in Job : Staged!Launch(t)
      BY <2>1, <2>4, <2>9, <2>10 DEF Staged!Launch
    <2> QED
      BY <2>11 DEF Staged!Next
  <1>5. CASE Reap
    <2>1. PICK c \in WaitSet(Current) :
               proc[c] = "zombie" /\ proc' = [proc EXCEPT ![c] = "reaped"]
      BY <1>5 DEF Reap
    <2>2. running' = running /\ started' = started
      BY <2>1, <1>j DEF TypeOK
    <2> QED
      BY <2>2
  <1>6. CASE SkipInstance \/ ForkFails \/ AllForked \/ NoChild \/ NextStage
    BY <1>6 DEF SkipInstance, ForkFails, AllForked, NoChild, NextStage
  <1>7. ASSUME NEW c \in Child, ChildExits(c)
        PROVE  Simulated
    <2>1. started' = started
      BY <1>7, <1>j DEF ChildExits, TypeOK
    <2>2. CASE c \in Job
      <3>1. running' = running \ {c}
        BY <1>7, <1>j, <2>2 DEF ChildExits, TypeOK
      <3> QED
        BY <1>7, <2>1, <2>2, <3>1 DEF ChildExits, Staged!Next, Staged!Finish
    <2>3. CASE c \notin Job
      <3>1. running' = running
        BY <1>7, <1>j, <2>3 DEF ChildExits, TypeOK
      <3> QED
        BY <2>1, <3>1
    <2> QED BY <2>2, <2>3
  <1>8. CASE UNCHANGED vars
    BY <1>8 DEF vars
  <1> HIDE DEF Simulated
  <1> QED
    BY <1>1, <1>3, <1>4, <1>5, <1>6, <1>7, <1>8 DEF Next, Tool

THEOREM ImplementsStagedBuild == Spec => StagedSpec
  <1>1. Init => Staged!Init
    BY DEF Init, Staged!Init, started, running, Child
  <1> QED
    BY <1>1, StagedStep, BuildInvariant, PTL DEF Spec, StagedSpec, Staged!Spec
==============================================================================
