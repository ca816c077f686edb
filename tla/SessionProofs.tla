---------------------------- MODULE SessionProofs ----------------------------
(***************************************************************************)
(* For any architectures, configurations and build.json files, and any      *)
(* sequence of commands: the outputs exist only when a configuration was    *)
(* built, only accepted configurations are built, and the board runs the    *)
(* images of the architecture that is selected.                             *)
(***************************************************************************)
EXTENDS Session, SequenceTheorems, WellFoundedInduction, TLAPS

Data == {"RAW", "DEGRADATION"}

\* The registered outputs, as a list: all of them, or none.
LEMMA OutputList ==
    ASSUME SessionAssumption, TypeOK, outputs # <<>>
    PROVE  /\ outputs \in [1..Outputs -> Data]
           /\ DOMAIN outputs = 1..Outputs /\ Len(outputs) = Outputs
<1>1. outputs \in [1..Outputs -> Data]
  BY DEF TypeOK, Data
<1>2. Outputs \in Nat /\ DOMAIN outputs = 1..Outputs
  BY <1>1 DEF SessionAssumption
<1>3. outputs \in Seq(Data)
  BY <1>1, <1>2
<1>. QED
  BY <1>1, <1>2, <1>3

\* A configuration of an architecture is one.
LEMMA ConfigIsOne ==
    ASSUME SessionAssumption, NEW cfg \in Configs
    PROVE  cfg # NoConfig
BY DEF SessionAssumption, Configs, NoConfig

\* The state before the first command.
LEMMA InitInv == SessionAssumption /\ Init => TypeOK /\ OutputsHaveConfig
<1>. SUFFICES ASSUME SessionAssumption, Init
              PROVE  TypeOK /\ OutputsHaveConfig
  OBVIOUS
<1>1. <<1, 1>> \in (1..Outputs) \X {1}
  BY DEF SessionAssumption
<1>. QED
  BY <1>1 DEF Init, TypeOK, OutputsHaveConfig, NoConfig

\* default_BUILD_PROJECT registers the outputs of a configuration it is given.
LEMMA BuildProjectInv ==
    ASSUME SessionAssumption, TypeOK,
           NEW cfg \in Configs, NEW iso \in BOOLEAN, NEW live \in BOOLEAN,
           NEW iterations \in BOOLEAN,
           BuildProject(cfg, iso, live, iterations)
    PROVE  /\ curCfg' \in [of : Configs \cup {NoConfig}, iso : BOOLEAN, live : BOOLEAN]
           /\ curCfg'.of = cfg /\ curCfg'.of # NoConfig
           /\ outputs' = <<>> \/ outputs' \in [1..Outputs -> {"RAW", "DEGRADATION"}]
           /\ outputs # <<>> => outputs' = outputs
<1>1. curCfg' = [of |-> cfg, iso |-> iso, live |-> live]
  BY DEF BuildProject
<1>2. outputs' = IF iterations /\ outputs = <<>>
                 THEN [i \in 1..Outputs |-> "RAW"] ELSE outputs
  BY DEF BuildProject
<1>3. outputs' = <<>> \/ outputs' \in [1..Outputs -> {"RAW", "DEGRADATION"}]
  BY <1>2 DEF TypeOK
<1>. QED
  BY <1>1, <1>2, <1>3, ConfigIsOne

\* The walk of runExecution over the outputs stays inside the list.
LEMMA NextOutputInv ==
    ASSUME SessionAssumption, TypeOK, mode = "process"
    PROVE  /\ AfterOutput \in {"cli", "analyze", "process"}
           /\ AfterOutput = "process" => NextOutput \in DOMAIN outputs
<1>1. at \in DOMAIN outputs /\ outputs # <<>>
  BY DEF TypeOK
<1>2. DOMAIN outputs = 1..Outputs /\ Len(outputs) = Outputs /\ Outputs \in Nat
  BY <1>1, OutputList DEF SessionAssumption
<1>3. back \in {"cli", "analyze"}
  BY DEF TypeOK
<1>. QED
  BY <1>1, <1>2, <1>3 DEF AfterOutput, NextOutput, LastOutput

\* Every command, and every step of the walk over the outputs.
LEMMA StepInv ==
    ASSUME SessionAssumption, TypeOK, OutputsHaveConfig, [Next]_vars
    PROVE  TypeOK' /\ OutputsHaveConfig'
<1>1. ASSUME NEW a \in Arch, SelectArch(a)
      PROVE  TypeOK' /\ OutputsHaveConfig'
  BY <1>1 DEF SelectArch, TypeOK, OutputsHaveConfig
<1>2. ASSUME NEW c \in Config, LoadAccepted(c)
      PROVE  TypeOK' /\ OutputsHaveConfig'
  <2>1. input' \in Configs /\ input' = [arch |-> arch, name |-> c]
    BY <1>2 DEF LoadAccepted, TypeOK, Configs
  <2>2. /\ curCfg' \in [of : Configs \cup {NoConfig}, iso : BOOLEAN, live : BOOLEAN]
        /\ curCfg'.of # NoConfig
        /\ outputs' = <<>> \/ outputs' \in [1..Outputs -> {"RAW", "DEGRADATION"}]
    <3>1. PICK i \in BOOLEAN : BuildProject([arch |-> arch, name |-> c], FALSE, TRUE, i)
      BY <1>2, <2>1 DEF LoadAccepted
    <3>. QED
      BY <2>1, <3>1, BuildProjectInv
  <2>. QED
    BY <1>2, <2>1, <2>2 DEF LoadAccepted, TypeOK, OutputsHaveConfig
<1>3. ASSUME NEW c \in Config, LoadFails(c)
      PROVE  TypeOK' /\ OutputsHaveConfig'
  BY <1>3 DEF LoadFails, TypeOK, OutputsHaveConfig
<1>4. CASE Deploy
  BY <1>4 DEF Deploy, TypeOK, OutputsHaveConfig
<1>5. CASE Execute
  <2>1. 1 \in DOMAIN outputs
    BY <1>5, OutputList DEF Execute, SessionAssumption
  <2>2. /\ mode' \in {"process", "mismatch", "undefined"}
        /\ mode' = "process" => at' = 1
    BY <1>5 DEF Execute, RunBench
  <2>. QED
    BY <1>5, <2>1, <2>2 DEF Execute, TypeOK, OutputsHaveConfig
<1>6. CASE PassOutput
  BY <1>6, NextOutputInv DEF PassOutput, TypeOK, OutputsHaveConfig
<1>7. CASE ProcessDegradation
  <2>1. input \in Configs /\ at \in DOMAIN outputs /\ outputs # <<>>
    BY <1>7 DEF ProcessDegradation, TypeOK
  <2>2. /\ curCfg' \in [of : Configs \cup {NoConfig}, iso : BOOLEAN, live : BOOLEAN]
        /\ curCfg'.of # NoConfig
        /\ outputs' = outputs
    <3>1. PICK i \in BOOLEAN : BuildProject(input, TRUE, FALSE, i)
      BY <1>7 DEF ProcessDegradation
    <3>. QED
      BY <2>1, <3>1, BuildProjectInv
  <2>3. \/ mode' = AfterOutput /\ at' = NextOutput
        \/ mode' = "mismatch"
    BY <1>7 DEF ProcessDegradation, RunBench
  <2>4. /\ mode' \in {"cli", "analyze", "process", "mismatch"}
        /\ mode' = "process" => at' \in DOMAIN outputs
    BY <1>7, <2>3, NextOutputInv DEF ProcessDegradation
  <2>5. compared' \in (1..Outputs) \X {1}
    BY <1>7, <2>1, OutputList DEF ProcessDegradation, TypeOK
  <2>6. UNCHANGED <<back, arch, selected, input>>
    BY <1>7 DEF ProcessDegradation
  <2>. QED
    BY <2>2, <2>4, <2>5, <2>6 DEF TypeOK, OutputsHaveConfig
<1>8. CASE CloneNothing
  BY <1>8 DEF CloneNothing, TypeOK, OutputsHaveConfig
<1>9. CASE Analyze
  BY <1>9 DEF Analyze, TypeOK, OutputsHaveConfig
<1>10. CASE CloseTUI
  BY <1>10 DEF CloseTUI, TypeOK, OutputsHaveConfig
<1>11. ASSUME NEW i \in 1..Outputs, NEW d \in Data, ChooseData(i, d)
       PROVE  TypeOK' /\ OutputsHaveConfig'
  <2>1. outputs # <<>> /\ outputs \in [1..Outputs -> {"RAW", "DEGRADATION"}]
    BY <1>11, OutputList DEF ChooseData, Data
  <2>2. outputs' \in [1..Outputs -> {"RAW", "DEGRADATION"}]
    BY <1>11, <2>1 DEF ChooseData, Data
  <2>. QED
    BY <1>11, <2>1, <2>2 DEF ChooseData, TypeOK, OutputsHaveConfig
<1>12. CASE Exit
  BY <1>12 DEF Exit, TypeOK, OutputsHaveConfig
<1>13. CASE Optimize
  BY <1>13 DEF Optimize, TypeOK, OutputsHaveConfig
<1>14. CASE TryConfig
  <2>1. input \in Configs
    BY <1>14 DEF TryConfig, TypeOK
  <2>2. /\ curCfg' \in [of : Configs \cup {NoConfig}, iso : BOOLEAN, live : BOOLEAN]
        /\ curCfg'.of # NoConfig
        /\ outputs' = <<>> \/ outputs' \in [1..Outputs -> {"RAW", "DEGRADATION"}]
    <3>1. PICK i \in BOOLEAN : BuildProject(input, FALSE, TRUE, i)
      BY <1>14 DEF TryConfig
    <3>. QED
      BY <2>1, <3>1, BuildProjectInv
  <2>3. mode' \in {"resultAssert", "isolate", "mismatch"}
    BY <1>14 DEF TryConfig, RunBench
  <2>4. UNCHANGED <<back, arch, selected, input, compared>> /\ input # NoConfig
    BY <1>14 DEF TryConfig
  <2>. QED
    BY <2>2, <2>3, <2>4 DEF TypeOK, OutputsHaveConfig
<1>15. CASE IsolateVictim
  <2>1. input \in Configs
    BY <1>15 DEF IsolateVictim, TypeOK
  <2>2. /\ curCfg' \in [of : Configs \cup {NoConfig}, iso : BOOLEAN, live : BOOLEAN]
        /\ curCfg'.of # NoConfig
        /\ outputs' = <<>> \/ outputs' \in [1..Outputs -> {"RAW", "DEGRADATION"}]
    <3>1. PICK i \in BOOLEAN : BuildProject(input, TRUE, FALSE, i)
      BY <1>15 DEF IsolateVictim
    <3>. QED
      BY <2>1, <3>1, BuildProjectInv
  <2>3. mode' \in {"optimize", "mismatch"}
    BY <1>15 DEF IsolateVictim, RunBench
  <2>4. <<1, 1>> \in (1..Outputs) \X {1}
    BY DEF SessionAssumption
  <2>5. compared' \in (1..Outputs) \X {1}
    BY <1>15, <2>4 DEF IsolateVictim, TypeOK
  <2>6. UNCHANGED <<back, arch, selected, input>>
    BY <1>15 DEF IsolateVictim
  <2>. QED
    BY <2>2, <2>3, <2>5, <2>6 DEF TypeOK, OutputsHaveConfig
<1>16. CASE UNCHANGED vars
  BY <1>16 DEF vars, TypeOK, OutputsHaveConfig
<1>. QED
  BY <1>1, <1>2, <1>3, <1>4, <1>5, <1>6, <1>7, <1>8, <1>9, <1>10, <1>11,
     <1>12, <1>13, <1>14, <1>15, <1>16 DEF Next, Data

\* Types, and that the walk over the outputs never runs past their list.
THEOREM SessionTypes == Spec => [](TypeOK /\ OutputsHaveConfig)
<1>1. Init => TypeOK /\ OutputsHaveConfig
  BY InitInv, SessionAssumption
<1>2. TypeOK /\ OutputsHaveConfig /\ [Next]_vars => (TypeOK /\ OutputsHaveConfig)'
  BY StepInv, SessionAssumption
<1>. QED
  BY <1>1, <1>2, PTL DEF Spec

\* Whatever commands fail in between, runExecution, which checks only for
\* outputs, never lets default_RUN_BENCH read a CUR_CFG that was not set.
THEOREM OutputsImplyConfig == Spec => []OutputsHaveConfig
BY SessionTypes, PTL

\* What a build does to CUR_CFG: it becomes INPUT_CONFIG, whichever command
\* builds; no other step changes CUR_CFG.
LEMMA CurCfgIsInput ==
    ASSUME SessionAssumption, TypeOK, Next
    PROVE  \/ curCfg' = curCfg
           \/ curCfg'.of # NoConfig /\ curCfg'.of = input' /\ input' \in Configs
<1>1. ASSUME NEW c \in Config, LoadAccepted(c)
      PROVE  curCfg'.of # NoConfig /\ curCfg'.of = input' /\ input' \in Configs
  <2>1. [arch |-> arch, name |-> c] \in Configs /\ input' = [arch |-> arch, name |-> c]
    BY <1>1 DEF LoadAccepted, TypeOK, Configs
  <2>2. PICK i \in BOOLEAN : BuildProject([arch |-> arch, name |-> c], FALSE, TRUE, i)
    BY <1>1, <2>1 DEF LoadAccepted
  <2>. QED
    BY <2>1, <2>2, BuildProjectInv
<1>2. ASSUME NEW iso \in BOOLEAN, NEW live \in BOOLEAN, NEW i \in BOOLEAN,
             input # NoConfig, BuildProject(input, iso, live, i), UNCHANGED input
      PROVE  curCfg'.of # NoConfig /\ curCfg'.of = input' /\ input' \in Configs
  <2>1. input \in Configs
    BY <1>2 DEF TypeOK
  <2>. QED
    BY <1>2, <2>1, BuildProjectInv
<1>3. CASE ProcessDegradation
  BY <1>2, <1>3 DEF ProcessDegradation
<1>4. CASE TryConfig
  BY <1>2, <1>4 DEF TryConfig
<1>5. CASE IsolateVictim
  <2>1. input # NoConfig
    BY <1>5 DEF IsolateVictim, TypeOK
  <2>. QED
    BY <1>2, <1>5, <2>1 DEF IsolateVictim
<1>6. ASSUME NEW a \in Arch, SelectArch(a)
      PROVE  curCfg' = curCfg
  BY <1>6 DEF SelectArch
<1>7. ASSUME NEW c \in Config, LoadFails(c)
      PROVE  curCfg' = curCfg
  BY <1>7 DEF LoadFails
<1>. QED
  BY <1>1, <1>3, <1>4, <1>5, <1>6, <1>7 DEF Next, Deploy, Execute, PassOutput,
     CloneNothing, Analyze, Optimize, CloseTUI, ChooseData, Exit

\* No sequence of commands makes a configuration that loadConfig rejected, or
\* none, the one the module remembers.
THEOREM OnlyAcceptedIsBuilt == Spec => BuildsOnlyAccepted
<1>1. TypeOK /\ [Next]_vars =>
          [curCfg'.of # curCfg.of => curCfg'.of # NoConfig /\ input' = curCfg'.of]_vars
  BY CurCfgIsInput, SessionAssumption
<1>. QED
  BY <1>1, SessionTypes, PTL DEF Spec, BuildsOnlyAccepted

\* A step that leaves CUR_CFG alone leaves INPUT_CONFIG alone, or clears it.
LEMMA InputKept ==
    ASSUME Next, curCfg' = curCfg
    PROVE  input' = input \/ input' = NoConfig \/ curCfg'.of = input'
<1>1. ASSUME NEW c \in Config, LoadAccepted(c)
      PROVE  curCfg'.of = input'
  <2>1. input' = [arch |-> arch, name |-> c]
    BY <1>1 DEF LoadAccepted
  <2>2. PICK i \in BOOLEAN : BuildProject([arch |-> arch, name |-> c], FALSE, TRUE, i)
    BY <1>1, <2>1 DEF LoadAccepted
  <2>. QED
    BY <2>1, <2>2 DEF BuildProject
<1>2. ASSUME NEW a \in Arch, SelectArch(a)
      PROVE  input' = input
  BY <1>2 DEF SelectArch
<1>3. ASSUME NEW c \in Config, LoadFails(c)
      PROVE  input' = input \/ input' = NoConfig
  BY <1>3 DEF LoadFails
<1>. QED
  BY <1>1, <1>2, <1>3 DEF Next, Deploy, Execute, PassOutput, ProcessDegradation,
     CloneNothing, Analyze, Optimize, TryConfig, IsolateVictim, CloseTUI,
     ChooseData, Exit

\* As long as INPUT_CONFIG is set, the module's CUR_CFG is of the same file:
\* what is shown and searched is what is run.
THEOREM ModuleAndToolAgree == Spec => []ModuleAgrees
<1>1. Init => ModuleAgrees
  BY DEF Init, ModuleAgrees
<1>2. TypeOK /\ ModuleAgrees /\ [Next]_vars => ModuleAgrees'
  <2>. SUFFICES ASSUME TypeOK, ModuleAgrees, [Next]_vars
                PROVE  ModuleAgrees'
    OBVIOUS
  <2>1. CASE Next
    <3>1. CASE curCfg' = curCfg
      BY <2>1, <3>1, InputKept DEF ModuleAgrees
    <3>2. CASE curCfg'.of = input'
      BY <3>2 DEF ModuleAgrees
    <3>. QED
      BY <2>1, <3>1, <3>2, CurCfgIsInput, SessionAssumption
  <2>2. CASE UNCHANGED vars
    BY <2>2 DEF vars, ModuleAgrees
  <2>. QED
    BY <2>1, <2>2
<1>. QED
  BY <1>1, <1>2, SessionTypes, PTL DEF Spec

------------------------------------------------------------------------------
(* The lists of build.json, however often it is parsed.                       *)

\* Induction over the natural numbers, for a set.
LEMMA Induction ==
    ASSUME NEW S, 0 \in S, \A n \in Nat : n \in S => n + 1 \in S
    PROVE  Nat \subseteq S
<1>. DEFINE Less == {p \in Nat \X Nat : p[1] < p[2]}
<1>1. Less = OpToRel(<, Nat)
  BY DEF OpToRel
<1>2. IsWellFoundedOn(Less, Nat)
  BY <1>1, NatLessThanWellFounded
<1>3. ASSUME Nat \ S # {} PROVE FALSE
  <2>1. PICK n \in Nat \ S : \A m \in Nat \ S : <<m, n>> \notin Less
    BY <1>2, <1>3, WFMin
  <2>. QED
    BY <2>1, <<n - 1, n>> \in Nat \X Nat
<1>. QED
  BY <1>3

\* f is the fold of Walk, from start, over the sets of the first n entries.
Placing(f, n, start, json) ==
    \A s \in SUBSET (1..n) :
        f[s] = IF s = {} THEN start ELSE Place(f[s \ {Max(s)}], json[Max(s)])

\* There is such a function for every n.
LEMMA PlacingExists ==
    ASSUME NEW start, NEW json
    PROVE  \A n \in Nat : \E f : Placing(f, n, start, json)
<1>. DEFINE S == {n \in Nat : \E f : Placing(f, n, start, json)}
<1>1. 0 \in S
  <2>1. Placing([s \in {{}} |-> start], 0, start, json)
    BY 1..0 = {} DEF Placing
  <2>. QED
    BY <2>1
<1>2. ASSUME NEW n \in Nat, n \in S PROVE n + 1 \in S
  <2>1. PICK f : Placing(f, n, start, json)
    BY <1>2
  <2>. DEFINE h == [s \in SUBSET (1..(n + 1)) |->
                      IF n + 1 \in s THEN Place(f[s \ {n + 1}], json[n + 1]) ELSE f[s]]
  <2>2. ASSUME NEW s \in SUBSET (1..(n + 1))
        PROVE  h[s] = IF s = {} THEN start ELSE Place(h[s \ {Max(s)}], json[Max(s)])
    <3>1. \A t \in SUBSET (1..n) : h[t] = f[t]
      OBVIOUS
    <3>2. CASE n + 1 \in s
      <4>1. Max(s) = n + 1
        <5>1. \A x \in s : n + 1 >= x
          OBVIOUS
        <5>2. \A x \in s : (\A y \in s : x >= y) => x = n + 1
          BY <3>2, <5>1
        <5>. QED
          BY <3>2, <5>1, <5>2 DEF Max
      <4>2. s \ {n + 1} \in SUBSET (1..n)
        OBVIOUS
      <4>3. h[s \ {n + 1}] = f[s \ {n + 1}]
        BY <3>1, <4>2
      <4>4. h[s] = Place(f[s \ {n + 1}], json[n + 1]) /\ s # {}
        BY <3>2
      <4>. HIDE DEF h
      <4>. QED
        BY <4>1, <4>3, <4>4
    <3>3. CASE n + 1 \notin s
      <4>1. s \in SUBSET (1..n)
        <5>1. \A x \in s : x \in 1..n
          BY <3>3
        <5>. QED
          BY <5>1
      <4>2. h[s] = f[s] /\ h[s \ {Max(s)}] = f[s \ {Max(s)}]
        BY <3>1, <4>1, s \ {Max(s)} \in SUBSET (1..n)
      <4>. QED
        BY <2>1, <4>1, <4>2 DEF Placing
    <3>. QED
      BY <3>2, <3>3
  <2>. HIDE DEF h
  <2>3. Placing(h, n + 1, start, json)
    BY <2>2 DEF Placing
  <2>. QED
    BY <2>3
<1>. HIDE DEF S
<1>3. Nat \subseteq S
  BY <1>1, <1>2, Induction
<1>. QED
  BY <1>3 DEF S

\* So the fold of Walk goes over the entries one after the other.
LEMMA WalkSteps ==
    ASSUME NEW T, NEW list, NEW json \in Seq(T)
    PROVE  \E f : /\ Walk(list, json) = f[1..Len(json)].list
                  /\ f[{}] = [list |-> list, pos |-> IF list = <<>> THEN 0 ELSE 1]
                  /\ \A n \in 0..(Len(json) - 1) :
                        f[1..(n + 1)] = Place(f[1..n], json[n + 1])
<1>. DEFINE N == Len(json)
            start == [list |-> list, pos |-> IF list = <<>> THEN 0 ELSE 1]
            F == CHOOSE f : f = [s \in SUBSET (DOMAIN json) |->
                    IF s = {} THEN start ELSE Place(f[s \ {Max(s)}], json[Max(s)])]
<1>1. DOMAIN json = 1..N /\ N \in Nat
  OBVIOUS
<1>2. Walk(list, json) = F[1..N].list
  BY <1>1 DEF Walk, FoldLeft, MapThenFoldSet
<1>. HIDE DEF start, N
<1>3. \E f : f = [s \in SUBSET (DOMAIN json) |->
                    IF s = {} THEN start ELSE Place(f[s \ {Max(s)}], json[Max(s)])]
  <2>1. PICK f : Placing(f, N, start, json)
    BY <1>1, PlacingExists
  <2>. DEFINE h == [s \in SUBSET (1..N) |-> f[s]]
  <2>2. \A s \in SUBSET (1..N) :
          h[s] = IF s = {} THEN start ELSE Place(h[s \ {Max(s)}], json[Max(s)])
    BY <2>1 DEF Placing
  <2>3. h = [s \in SUBSET (1..N) |-> h[s]]
    OBVIOUS
  <2>. HIDE DEF h
  <2>. QED
    BY <1>1, <2>2, <2>3
<1>4. Placing(F, N, start, json)
  <2>1. F = [s \in SUBSET (DOMAIN json) |->
               IF s = {} THEN start ELSE Place(F[s \ {Max(s)}], json[Max(s)])]
    BY <1>3
  <2>. HIDE DEF F
  <2>. QED
    BY <1>1, <2>1 DEF Placing
<1>. HIDE DEF F
<1>5. F[{}] = start
  BY <1>4, {} \in SUBSET (1..N) DEF Placing
<1>6. ASSUME NEW n \in 0..(N - 1)
      PROVE  F[1..(n + 1)] = Place(F[1..n], json[n + 1])
  <2>. DEFINE t == 1..(n + 1)
  <2>1. t \in SUBSET (1..N) /\ n + 1 \in t /\ t \ {n + 1} = 1..n
    BY <1>1
  <2>2. \A x \in t : (\A y \in t : x >= y) <=> x = n + 1
    OBVIOUS
  <2>. HIDE DEF t
  <2>3. Max(t) = n + 1
    BY <2>1, <2>2 DEF Max
  <2>4. F[t] = Place(F[t \ {Max(t)}], json[Max(t)])
    BY <1>4, <2>1 DEF Placing
  <2>. QED
    BY <2>1, <2>3, <2>4 DEF t
<1>. QED
  BY <1>2, <1>5, <1>6 DEF start, N

\* parseBuildConfig fills an empty list, and leaves the list of the same build.json
\* as it is, although it overwrites it node by node.
LEMMA WalkIsJson ==
    ASSUME NEW T, NEW json \in Seq(T), Len(json) >= 2, NEW list, list \in {<<>>, json}
    PROVE  Walk(list, json) = json
<1>1. PICK f :
        /\ Walk(list, json) = f[1..Len(json)].list
        /\ f[{}] = [list |-> list, pos |-> IF list = <<>> THEN 0 ELSE 1]
        /\ \A n \in 0..(Len(json) - 1) : f[1..(n + 1)] = Place(f[1..n], json[n + 1])
  BY WalkSteps
<1>2. Len(json) \in Nat /\ \A n \in 1..Len(json) : json[n] \in T
  OBVIOUS
<1>3. 1..0 = {} /\ 1..1 = 1..(0 + 1)
  OBVIOUS
<1>4. f[1..1] = Place(f[{}], json[1])
  <2>1. f[1..(0 + 1)] = Place(f[1..0], json[0 + 1])
    BY <1>1, <1>2, 0 \in 0..(Len(json) - 1)
  <2>. QED
    BY <1>3, <2>1
<1>5. f[1..1] = [list |-> <<json[1]>>, pos |-> 1]
  <2>1. CASE list = <<>>
    BY <1>1, <1>4, <2>1 DEF Place
  <2>2. CASE list = json /\ list # <<>>
    <3>1. f[{}] = [list |-> json, pos |-> 1]
      BY <1>1, <2>2
    <3>2. SubSeq(json, 1, 0) = <<>>
      OBVIOUS
    <3>. QED
      BY <1>4, <3>1, <3>2 DEF Place
  <2>. QED
    BY <2>1, <2>2
<1>. DEFINE S == {n \in Nat : n + 1 <= Len(json) =>
                    f[1..(n + 1)] = [list |-> SubSeq(json, 1, n + 1), pos |-> n + 1]}
<1>6. 0 \in S
  <2>1. SubSeq(json, 1, 1) = <<json[1]>>
    <3>1. /\ SubSeq(json, 1, 1) \in Seq(T) /\ Len(SubSeq(json, 1, 1)) = 1
          /\ SubSeq(json, 1, 1)[1] = json[1]
      BY <1>2
    <3>2. <<json[1]>> \in Seq(T) /\ Len(<<json[1]>>) = 1 /\ <<json[1]>>[1] = json[1]
      BY <1>2
    <3>. QED
      BY <3>1, <3>2, SeqEqual, 1..1 = {1}
  <2>. QED
    BY <1>3, <1>5, <2>1
<1>7. ASSUME NEW n \in Nat, n \in S PROVE n + 1 \in S
  <2>. SUFFICES ASSUME n + 2 <= Len(json)
                PROVE  f[1..(n + 2)] = [list |-> SubSeq(json, 1, n + 2), pos |-> n + 2]
    BY (n + 1) + 1 = n + 2
  <2>1. f[1..(n + 1)] = [list |-> SubSeq(json, 1, n + 1), pos |-> n + 1]
    BY <1>2, <1>7
  <2>2. f[1..(n + 2)] = Place(f[1..(n + 1)], json[n + 2])
    <3>1. n + 1 \in 0..(Len(json) - 1) /\ (n + 1) + 1 = n + 2
      BY <1>2
    <3>. QED
      BY <1>1, <3>1
  <2>3. /\ Len(SubSeq(json, 1, n + 1)) = n + 1
        /\ Append(SubSeq(json, 1, n + 1), json[n + 2]) = SubSeq(json, 1, n + 2)
    BY <1>2
  <2>. DEFINE w == f[1..(n + 1)]
  <2>4. w.list = SubSeq(json, 1, n + 1) /\ w.pos = n + 1
    BY <2>1
  <2>. HIDE DEF w
  <2>5. Place(w, json[n + 2]) = [list |-> Append(w.list, json[n + 2]), pos |-> w.pos + 1]
    BY <2>3, <2>4 DEF Place
  <2>6. Place(w, json[n + 2]) = [list |-> SubSeq(json, 1, n + 2), pos |-> n + 2]
    BY <2>3, <2>4, <2>5, (n + 1) + 1 = n + 2
  <2>. QED
    BY <2>2, <2>6 DEF w
<1>. HIDE DEF S
<1>8. Len(json) - 1 \in S
  BY <1>2, <1>6, <1>7, Induction
<1>9. f[1..Len(json)] = [list |-> SubSeq(json, 1, Len(json)), pos |-> Len(json)]
  BY <1>2, <1>8 DEF S
<1>10. SubSeq(json, 1, Len(json)) = json
  OBVIOUS
<1>. QED
  BY <1>1, <1>9, <1>10
\* No core is active in an empty list.
LEMMA EmptyHasNoCores == ActiveCores(<<>>) = 0
<1>. DEFINE F == CHOOSE f : f = [s \in SUBSET (DOMAIN <<>>) |->
                   IF s = {} THEN 0 ELSE f[s \ {Max(s)}] + Cored[<<>>[Max(s)]]]
<1>1. DOMAIN <<>> = {}
  OBVIOUS
<1>2. ActiveCores(<<>>) = F[{}]
  BY <1>1 DEF ActiveCores, FoldLeft, MapThenFoldSet
<1>3. \E f : f = [s \in SUBSET (DOMAIN <<>>) |->
                   IF s = {} THEN 0 ELSE f[s \ {Max(s)}] + Cored[<<>>[Max(s)]]]
  <2>. DEFINE h == [s \in {{}} |-> 0]
  <2>1. h = [s \in SUBSET (DOMAIN <<>>) |->
               IF s = {} THEN 0 ELSE h[s \ {Max(s)}] + Cored[<<>>[Max(s)]]]
    BY <1>1
  <2>. QED
    BY <2>1
<1>4. F = [s \in SUBSET (DOMAIN <<>>) |->
             IF s = {} THEN 0 ELSE F[s \ {Max(s)}] + Cored[<<>>[Max(s)]]]
  BY <1>3
<1>. HIDE DEF F
<1>5. F[{}] = 0
  BY <1>1, <1>4, {} \in SUBSET (DOMAIN <<>>)
<1>. QED
  BY <1>2, <1>5

\* INPUT_CONFIG is loaded after an architecture was selected, and no command
\* unselects it.
ArchOfInput == input # NoConfig => arch \in Arch

\* The inductive invariant of the lists: the builds of ProcessDegradation, TryConfig
\* and IsolateVictim parse the build.json of the architecture only because there
\* is one, which ArchOfInput says.
ListsInv == TypeOK /\ ListsOfArch /\ BoardRunsSelected /\ ArchOfInput

\* Parsing build.json once more, after whatever commands, leaves its list.
LEMMA ParseKeepsLists ==
    ASSUME SessionAssumption, Plural, TypeOK, ListsOfArch, ParseBuildConfig, arch' = arch
    PROVE  ListsOfArch'
<1>1. CASE UNCHANGED <<stages, files>>
  BY <1>1 DEF ListsOfArch
<1>2. CASE /\ arch # "none"
           /\ stages' = Walk(stages, Stages[arch])
           /\ files' = Walk(files, Files[arch])
  <2>1. arch \in Arch
    BY <1>2 DEF TypeOK
  <2>2. /\ stages \in {<<>>, Stages[arch]} /\ files \in {<<>>, Files[arch]}
    BY DEF ListsOfArch
  <2>3. /\ Stages[arch] \in Seq(DOMAIN Cored) /\ Len(Stages[arch]) >= 2
        /\ Files[arch] \in Seq(Range(Files[arch])) /\ Len(Files[arch]) >= 2
    BY <2>1 DEF SessionAssumption, Plural
  <2>4. stages' = Stages[arch]
    BY <1>2, <2>2, <2>3, WalkIsJson
  <2>5. files' = Files[arch]
    BY <1>2, <2>2, <2>3, WalkIsJson
  <2>. QED
    BY <1>2, <2>4, <2>5 DEF ListsOfArch
<1>. QED
  BY <1>1, <1>2 DEF ParseBuildConfig

\* So does a build.
LEMMA BuildKeepsLists ==
    ASSUME SessionAssumption, Plural, TypeOK, ListsOfArch, arch' = arch,
           NEW cfg, NEW iso, NEW live, NEW iterations,
           BuildProject(cfg, iso, live, iterations)
    PROVE  ListsOfArch'
BY ParseKeepsLists DEF BuildProject

\* A list that has the core count of the architecture is not empty.
LEMMA RunsSelected ==
    ASSUME SessionAssumption, BoardRunsSelected, arch \in Arch,
           NEW list \in {<<>>, Stages[arch]}, NEW next, NEW nextAt,
           RunBench(list, next, nextAt)
    PROVE  BoardRunsSelected'
<1>1. CASE ActiveCores(list) = Cores[arch]
  <2>1. list # <<>>
    BY <1>1, EmptyHasNoCores DEF SessionAssumption
  <2>. QED
    BY <1>1, <2>1 DEF RunBench, BoardRunsSelected
<1>2. CASE ActiveCores(list) # Cores[arch]
  BY <1>2 DEF RunBench, BoardRunsSelected
<1>. QED
  BY <1>1, <1>2

\* Every command keeps the lists those of the selected architecture, or empty.
LEMMA ListsStep ==
    ASSUME SessionAssumption, Plural, ListsInv, [Next]_vars, TypeOK'
    PROVE  ListsInv'
<1>. USE DEF ListsInv
<1>. USE SessionAssumption, Plural
<1>. DEFINE Kept == ListsOfArch' /\ BoardRunsSelected' /\ ArchOfInput'
<1>. SUFFICES Kept
  OBVIOUS
<1>1. ASSUME NEW a \in Arch, SelectArch(a) PROVE Kept
  BY <1>1 DEF SelectArch, ListsOfArch, BoardRunsSelected, ArchOfInput
<1>2. ASSUME NEW c \in Config, LoadAccepted(c)
      PROVE  Kept
  <2>1. ListsOfArch'
    BY <1>2, BuildKeepsLists DEF LoadAccepted
  <2>. QED
    BY <1>2, <2>1 DEF LoadAccepted, BoardRunsSelected, ArchOfInput, TypeOK
<1>3. ASSUME NEW c \in Config, LoadFails(c)
      PROVE  Kept
  BY <1>3 DEF LoadFails, ListsOfArch, BoardRunsSelected, ArchOfInput
<1>4. ASSUME Deploy PROVE Kept
  <2>1. ListsOfArch'
    BY <1>4, ParseKeepsLists DEF Deploy
  <2>. QED
    BY <1>4, <2>1 DEF Deploy, BoardRunsSelected, ArchOfInput
<1>5. ASSUME Execute PROVE Kept
  <2>1. arch \in Arch /\ stages \in {<<>>, Stages[arch]}
    BY <1>5 DEF Execute, TypeOK, ListsOfArch
  <2>2. BoardRunsSelected'
    <3>1. CASE RunBench(stages, "process", 1)
      BY <2>1, <3>1, RunsSelected
    <3>2. CASE UNCHANGED <<run, at>>
      BY <3>2 DEF BoardRunsSelected
    <3>. QED
      BY <1>5, <3>1, <3>2 DEF Execute
  <2>. QED
    BY <1>5, <2>2 DEF Execute, ListsOfArch, ArchOfInput
<1>6. ASSUME ProcessDegradation PROVE Kept
  <2>1. arch \in Arch /\ arch' = arch /\ input' = input
    BY <1>6 DEF ProcessDegradation, ArchOfInput
  <2>2. ListsOfArch'
    BY <1>6, <2>1, BuildKeepsLists DEF ProcessDegradation
  <2>3. stages' \in {<<>>, Stages[arch]}
    BY <2>1, <2>2 DEF ListsOfArch
  <2>4. RunBench(stages', AfterOutput, NextOutput)
    BY <1>6 DEF ProcessDegradation
  <2>5. BoardRunsSelected'
    BY <2>1, <2>3, <2>4, RunsSelected
  <2>. QED
    BY <2>1, <2>2, <2>5 DEF ArchOfInput
<1>7. ASSUME TryConfig PROVE Kept
  <2>1. arch \in Arch /\ arch' = arch /\ input' = input
    BY <1>7 DEF TryConfig, ArchOfInput
  <2>2. ListsOfArch'
    BY <1>7, <2>1, BuildKeepsLists DEF TryConfig
  <2>3. stages' \in {<<>>, Stages[arch]}
    BY <2>1, <2>2 DEF ListsOfArch
  <2>4. UNCHANGED <<run, at>> \/ RunBench(stages', "isolate", at)
    BY <1>7 DEF TryConfig
  <2>5. BoardRunsSelected'
    <3>1. CASE UNCHANGED <<run, at>>
      BY <3>1 DEF BoardRunsSelected
    <3>2. CASE RunBench(stages', "isolate", at)
      BY <2>1, <2>3, <3>2, RunsSelected
    <3>. QED
      BY <2>4, <3>1, <3>2
  <2>. QED
    BY <2>1, <2>2, <2>5 DEF ArchOfInput
<1>8. ASSUME IsolateVictim PROVE Kept
  <2>1. arch \in Arch /\ arch' = arch /\ input' = input
    BY <1>8 DEF IsolateVictim, ArchOfInput, TypeOK
  <2>2. ListsOfArch'
    BY <1>8, <2>1, BuildKeepsLists DEF IsolateVictim
  <2>3. stages' \in {<<>>, Stages[arch]}
    BY <2>1, <2>2 DEF ListsOfArch
  <2>4. RunBench(stages', "optimize", at)
    BY <1>8 DEF IsolateVictim
  <2>5. BoardRunsSelected'
    BY <2>1, <2>3, <2>4, RunsSelected
  <2>. QED
    BY <2>1, <2>2, <2>5 DEF ArchOfInput
<1>9. ASSUME \/ PassOutput \/ CloneNothing \/ Analyze \/ Optimize \/ CloseTUI
             \/ \E i \in 1..Outputs, d \in {"RAW", "DEGRADATION"} : ChooseData(i, d)
             \/ UNCHANGED vars
      PROVE  Kept
  <2>1. UNCHANGED <<arch, input, stages, files, run>>
    BY <1>9 DEF PassOutput, CloneNothing, Analyze, Optimize, CloseTUI, ChooseData, vars
  <2>. QED
    BY <2>1 DEF ListsOfArch, BoardRunsSelected, ArchOfInput
<1>10. ASSUME Exit PROVE Kept
  BY <1>10 DEF Exit, ListsOfArch, BoardRunsSelected, ArchOfInput
<1>. QED
  BY <1>1, <1>2, <1>3, <1>4, <1>5, <1>6, <1>7, <1>8, <1>9, <1>10 DEF Next

\* So they are in every session.
LEMMA ListsInvariant ==
    ASSUME SessionAssumption, Plural
    PROVE  Spec => []ListsInv
<1>1. Init => ListsInv
  BY InitInv DEF Init, ListsInv, ListsOfArch, BoardRunsSelected, ArchOfInput
<1>2. ListsInv /\ [Next]_vars /\ TypeOK' => ListsInv'
  BY ListsStep
<1>. QED
  BY <1>1, <1>2, SessionTypes, PTL DEF Spec

\* Types: every command leaves a state of its kind, the walk of runExecution over
\* the outputs stays inside their list, and what calculateDegradation compares
\* is an output that exists.
THEOREM SessionStaysTyped == Spec => []TypeOK
BY SessionTypes, PTL

\* parseBuildConfig overwrites its list node by node and never empties it: after
\* any sequence of commands the lists are still those of the build.json of the
\* selected architecture, or empty.
THEOREM ListsAreOfArch == Plural => (Spec => []ListsOfArch)
<1>. SUFFICES ASSUME Plural PROVE Spec => []ListsOfArch
  OBVIOUS
<1>1. Spec => []ListsInv
  BY ListsInvariant, SessionAssumption
<1>. QED
  BY <1>1, PTL DEF ListsInv

\* Whatever architectures are selected between the builds, a measurement runs
\* the images of the architecture it is made for.
THEOREM RunsAreOfSelected == Plural => (Spec => []BoardRunsSelected)
<1>. SUFFICES ASSUME Plural PROVE Spec => []BoardRunsSelected
  OBVIOUS
<1>1. Spec => []ListsInv
  BY ListsInvariant, SessionAssumption
<1>. QED
  BY <1>1, PTL DEF ListsInv
==============================================================================
