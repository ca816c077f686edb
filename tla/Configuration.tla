----------------------------- MODULE Configuration -----------------------------
(***************************************************************************)
(* The values of a configuration: loadConfig of state.c checks a file       *)
(* against the proprieties the architecture module declares; optimizeConfig *)
(* (optimization.c) maps the proprieties marked [O] to a grid and writes    *)
(* each grid it tries back into INPUT_CONFIG; bench.c derives from it the   *)
(* configuration of the isolated victim that the result is compared with.   *)
(* Which grid is tried next is the business of Search and WeightedSearch.   *)
(***************************************************************************)
EXTENDS Integers, SequencesExt

CONSTANTS
    Module,   \* MODULE_CONFIG->COMPS: the components and their proprieties
    System,   \* SYSTEM_COMP_ID
    Victim,   \* MODULE_CONFIG->VICTIM_ID
    Texts     \* the configuration files, as components and proprieties

\* A propriety: flags are letters of [OMN]; a type int has low, high and step, a
\* type str has opts.  A file has no such limits; Unset stands for them.
Unset == [low |-> 0, high |-> 0, step |-> 0, opts |-> <<>>]
Prop(name, type, value, flags, limits) ==
    [name |-> name, type |-> type, value |-> value, flags |-> flags,
     limits |-> limits]

\* A configuration is a list of components, a component one of proprieties.
IsConfig(cfg) ==
    /\ cfg \in Seq(Range(cfg))
    /\ \A c \in DOMAIN cfg :
          /\ cfg[c] = [id |-> cfg[c].id, props |-> cfg[c].props]
          /\ cfg[c].props \in Seq(Range(cfg[c].props))
          /\ \A p \in DOMAIN cfg[c].props :
                LET prop == cfg[c].props[p]
                IN prop = Prop(prop.name, prop.type, prop.value, prop.flags, prop.limits)

IsRule(rule) ==
    CASE rule.type = "int" -> /\ rule.limits.low \in Int /\ rule.limits.high \in Int
                              /\ rule.limits.step \in Nat
      [] rule.type = "str" -> /\ rule.limits.opts \in Seq(Range(rule.limits.opts))
                              /\ \A i, j \in DOMAIN rule.limits.opts :
                                    rule.limits.opts[i] = rule.limits.opts[j] => i = j
      [] OTHER -> rule.type = "bool" /\ "O" \notin rule.flags

\* Ids, names and options are not repeated, a file marks [O] only what Module knows,
\* and Module no boolean: loadConfig and generateParameterGrid would leave the limits
\* and the grid of such a propriety uninitialized.
ASSUME ConfigurationAssumption ==
    /\ \A t \in Texts \cup {Module} :
          /\ IsConfig(t)
          /\ \A i, j \in DOMAIN t : t[i].id = t[j].id => i = j
          /\ \A i \in DOMAIN t : \A p, q \in DOMAIN t[i].props :
                t[i].props[p].name = t[i].props[q].name => p = q
    /\ \A t \in Texts : \A i \in DOMAIN t : \A p \in DOMAIN t[i].props :
          "O" \in t[i].props[p].flags =>
            \E m \in DOMAIN Module : \E r \in DOMAIN Module[m].props :
              /\ Module[m].id = t[i].id
              /\ Module[m].props[r].name = t[i].props[p].name
    /\ \A m \in DOMAIN Module : \A r \in DOMAIN Module[m].props :
          IsRule(Module[m].props[r])

VARIABLES
    pc,         \* "cli"; in the optimizer "draw", "evaluate" or "baseline";
                \* "sigfpe" or "sigsegv" when the tool is killed, "stuck" when it
                \* waits for a core without an application
    objective,  \* objectiveMaximizeInter or objectiveMinimizeInterProp
    input,      \* INPUT_CONFIG->COMPS
    grid,       \* the PARAM_GRID last evaluated, or about to be
    built       \* the configuration last given to BUILD_PROJECT

vars == <<pc, objective, input, grid, built>>

NoConfig == <<>>

Init ==
    /\ pc = "cli" /\ objective = "inter"
    /\ input = NoConfig /\ grid = <<>> /\ built = NoConfig

------------------------------------------------------------------------------
(* api.c, state.c                                                           *)

\* GET_COMP_BY_ID and the loops of loadConfig: where a component or a propriety is.
CompAt(cfg, id) == {c \in DOMAIN cfg : cfg[c].id = id}
PropAt(comp, name) == {p \in DOMAIN comp.props : comp.props[p].name = name}

InLimits(value, type, limits) ==
    CASE type = "int" -> value \in limits.low..limits.high
      [] type = "str" -> value \in Range(limits.opts)
      [] OTHER -> TRUE

\* loadConfig accepts what a file says of one propriety of the module.
Accepts(rule, prop) ==
    /\ prop.type = rule.type
    /\ prop.flags \cap {"O", "M"} \subseteq rule.flags
    /\ InLimits(prop.value, prop.type, rule.limits)

AcceptsComp(rules, comp) ==
    \A r \in DOMAIN rules.props :
        LET rule == rules.props[r] IN
        IF PropAt(comp, rule.name) = {} THEN "N" \notin rule.flags
        ELSE \A p \in PropAt(comp, rule.name) : Accepts(rule, comp.props[p])

AcceptsConfig(cfg) ==
    \A m \in DOMAIN Module : \A c \in CompAt(cfg, Module[m].id) :
        AcceptsComp(Module[m], cfg[c])

\* The limits of the module are copied; a boolean has none.
WithLimits(comp) ==
    LET rules == UNION {Range(Module[m].props) : m \in CompAt(Module, comp.id)}
        Limits(prop) ==
            {r.limits : r \in {q \in rules : q.name = prop.name /\ q.type # "bool"}}
    IN [comp EXCEPT !.props =
          [p \in DOMAIN comp.props |->
             IF Limits(comp.props[p]) = {} THEN comp.props[p]
             ELSE [comp.props[p] EXCEPT !.limits =
                      CHOOSE l \in Limits(comp.props[p]) : TRUE]]]

\* parseConfig wants the victim; loadConfig checks, completes and builds.
Load(text) ==
    /\ pc = "cli"
    /\ IF CompAt(text, Victim) # {} /\ AcceptsConfig(text)
       THEN /\ input' = [c \in DOMAIN text |-> WithLimits(text[c])]
            /\ built' = input'
       ELSE input' = NoConfig /\ UNCHANGED built
    /\ UNCHANGED <<pc, objective, grid>>

------------------------------------------------------------------------------
(* optimization.c                                                           *)

\* Mutant: what the module allows to be optimized is optimized.
Slots_ByModule(cfg) ==
    UNION {{<<c, p>> : p \in {q \in DOMAIN cfg[c].props : cfg[c].props[q].limits.step > 0}} :
              c \in DOMAIN cfg}

\* mapConfigToGrid: the proprieties marked [O].
Slots(cfg) ==
    UNION {{<<c, p>> : p \in {q \in DOMAIN cfg[c].props : "O" \in cfg[c].props[q].flags}} :
              c \in DOMAIN cfg}

At(cfg, slot) == cfg[slot[1]].props[slot[2]]

\* Mutant: the range is rounded up.
MaxOf_RoundsUp(prop) ==
    IF prop.type = "str" THEN Len(prop.limits.opts) - 1
    ELSE (prop.limits.high - prop.limits.low + prop.limits.step - 1)
            \div prop.limits.step

\* generateParameterGrid: max and cur of one propriety.
MaxOf(prop) ==
    IF prop.type = "str" THEN Len(prop.limits.opts) - 1
    ELSE (prop.limits.high - prop.limits.low) \div prop.limits.step

CurOf(prop) ==
    IF prop.type = "str"
    THEN (CHOOSE i \in DOMAIN prop.limits.opts : prop.limits.opts[i] = prop.value) - 1
    ELSE (prop.value - prop.limits.low) \div prop.limits.step

Generated(cfg) == [s \in Slots(cfg) |-> CurOf(At(cfg, s))]

\* Mutant: the lowest value is not added back.
ValueOf_NoLow(prop, cur) ==
    IF prop.type = "str" THEN prop.limits.opts[cur + 1] ELSE cur * prop.limits.step

\* buildConfigFromParameterGrid: the value of one propriety, and all of them.
ValueOf(prop, cur) ==
    IF prop.type = "str" THEN prop.limits.opts[cur + 1]
    ELSE cur * prop.limits.step + prop.limits.low

Applied(cfg, g) ==
    [c \in DOMAIN cfg |-> [cfg[c] EXCEPT !.props =
        [p \in DOMAIN cfg[c].props |->
            IF <<c, p>> \in DOMAIN g
            THEN [cfg[c].props[p] EXCEPT !.value = ValueOf(cfg[c].props[p], g[<<c, p>>])]
            ELSE cfg[c].props[p]]]]

\* optimizeConfig: a step of 0 divides by zero.
Optimize(o) ==
    /\ pc = "cli" /\ input # NoConfig
    /\ IF \E s \in Slots(input) : At(input, s).type = "int" /\ At(input, s).limits.step = 0
       THEN pc' = "sigfpe" /\ UNCHANGED <<objective, grid>>
       ELSE pc' = "evaluate" /\ objective' = o /\ grid' = Generated(input)
    /\ UNCHANGED <<input, built>>

\* An objective function builds the configuration of the grid and measures it.
Evaluate ==
    /\ pc = "evaluate"
    /\ input' = Applied(input, grid) /\ built' = input'
    /\ pc' = "baseline"
    /\ UNCHANGED <<objective, grid>>

\* A search draws its next grid, or has returned.
Grids(cfg) ==
    {g \in [Slots(cfg) -> UNION {0..MaxOf(At(cfg, s)) : s \in Slots(cfg)}] :
        \A s \in Slots(cfg) : g[s] <= MaxOf(At(cfg, s))}

Draw ==
    /\ pc = "draw"
    /\ grid' \in Grids(input) /\ pc' = "evaluate"
    /\ UNCHANGED <<objective, input, built>>

Return ==
    /\ pc = "draw"
    /\ pc' = "cli" /\ grid' = <<>>
    /\ UNCHANGED <<objective, input, built>>

------------------------------------------------------------------------------
(* bench.c                                                                  *)

\* computeInterferenceDegradation: the system, or what comes first without one,
\* and the victim.
Isolated(cfg) ==
    [i \in 1..2 |->
       LET at == IF i = 2 THEN CompAt(cfg, Victim)
                 ELSE IF CompAt(cfg, System) = {} THEN {1} ELSE CompAt(cfg, System)
       IN cfg[CHOOSE c \in at : TRUE]]

\* Mutant: a mitigation stays on.
Without_Booleans(acc, prop) ==
    IF acc.skips \/ "M" \notin prop.flags \/ prop.type = "bool"
    THEN [props |-> Append(acc.props, prop), skips |-> FALSE]
    ELSE [acc EXCEPT !.skips = TRUE]

\* A boolean mitigation is set to 0, another one removed; the loop then skips the
\* propriety that has taken its place.
Without(acc, prop) ==
    IF acc.skips \/ "M" \notin prop.flags
    THEN [props |-> Append(acc.props, prop), skips |-> FALSE]
    ELSE IF prop.type = "bool"
    THEN [props |-> Append(acc.props, [prop EXCEPT !.value = 0]), skips |-> FALSE]
    ELSE [acc EXCEPT !.skips = TRUE]

Unmitigated(comp) ==
    [comp EXCEPT !.props = FoldLeft(Without, [props |-> <<>>, skips |-> FALSE], @).props]

\* computeProprietyDegradation looks for the system and the victim in its clone
\* only after it has cut the clone to its first two components.
Clone(cfg) == [c \in DOMAIN cfg \cap 1..2 |-> cfg[c]]
Modified(cfg) ==
    [i \in 1..2 |->
       IF i = 1 THEN Unmitigated(cfg[CHOOSE c \in CompAt(cfg, System) : TRUE])
       ELSE IF CompAt(cfg, Victim) = {} THEN cfg[2]
            ELSE cfg[CHOOSE c \in CompAt(cfg, Victim) : TRUE]]

\* The degradation an objective function asks for is relative to a second build.
\* Without a system the clone's is a null pointer; without a victim default_RUN_BENCH
\* waits for a core that was not built.
Baseline ==
    /\ pc = "baseline"
    /\ IF objective = "propriety" /\ CompAt(Clone(input), System) = {}
       THEN pc' = "sigsegv" /\ UNCHANGED built
       ELSE /\ built' = IF objective = "inter" THEN Isolated(input)
                                               ELSE Modified(Clone(input))
            /\ pc' = IF CompAt(built', Victim) = {} THEN "stuck" ELSE "draw"
    /\ UNCHANGED <<objective, input, grid>>

\* processResults, for the degradation of an output of analyze.
Degradation ==
    /\ pc = "cli" /\ input # NoConfig
    /\ built' = Isolated(input)
    /\ UNCHANGED <<pc, objective, input, grid>>

Next ==
    \/ \E t \in Texts : Load(t)
    \/ \E o \in {"inter", "propriety"} : Optimize(o)
    \/ Evaluate \/ Baseline \/ Draw \/ Return \/ Degradation

Spec == Init /\ [][Next]_vars

------------------------------------------------------------------------------
\* Whatever a search has written into INPUT_CONFIG, loadConfig would accept it from
\* a file: nothing needed is missing, and every value is within its limits.
StaysAccepted == AcceptsConfig(input)

\* A grid stands for one configuration: generating the grid of what was built from a
\* grid gives it back, so a value off the grid is only rounded once.
GridRoundTrip == pc \in {"baseline", "draw"} => Generated(input) = grid

\* What a degradation is relative to is the victim as it was just measured, alone
\* with the system; for objectiveMinimizeInterProp the system has its mitigations
\* off and is otherwise the same.  It takes a file that has the system, and there
\* one that has the system and the victim before any other component.
Comparable(cfg) ==
    LET first == IF objective = "inter" THEN cfg ELSE Clone(cfg)
    IN CompAt(first, System) # {} /\ CompAt(first, Victim) # {}
Off(comp) ==
    {[p EXCEPT !.value = IF "M" \in p.flags THEN 0 ELSE @] :
        p \in {q \in Range(comp.props) : "M" \notin q.flags \/ q.type = "bool"}}
BaselineOfTried ==
    pc \in {"draw", "stuck"} /\ Comparable(input) =>
        /\ Len(built) = 2
        /\ \A c \in CompAt(input, Victim) : built[2] = input[c]
        /\ \A c \in CompAt(input, System) :
              /\ built[1].id = System
              /\ Range(built[1].props) = IF objective = "inter"
                                         THEN Range(input[c].props) ELSE Off(input[c])

\* A search changes the values of the proprieties the file marks [O], and nothing else.
Fixed(cfg) ==
    [c \in DOMAIN cfg |-> [id |-> cfg[c].id, props |->
        [p \in DOMAIN cfg[c].props |->
            IF "O" \in cfg[c].props[p].flags THEN [cfg[c].props[p] EXCEPT !.value = 0]
            ELSE cfg[c].props[p]]]]
OthersUntouched == [][pc # "cli" => Fixed(input') = Fixed(input)]_vars

\* bench.c:396: "Change configuration to only compile the isolated victim".
VictimIsolated ==
    pc \in {"draw", "stuck"} /\ CompAt(input, System) # {} =>
        {built[i].id : i \in DOMAIN built} = {System, Victim}

------------------------------------------------------------------------------
(* The inductive invariant of the theorems.                                 *)

\* A propriety the search may change: its limits are of its type, and hold.
Good(prop) ==
    \/ /\ prop.type = "int"
       /\ prop.limits.low \in Int /\ prop.limits.high \in Int /\ prop.limits.step \in Nat
       /\ prop.value \in prop.limits.low..prop.limits.high
    \/ /\ prop.type = "str"
       /\ prop.limits.opts \in Seq(Range(prop.limits.opts))
       /\ \A i, j \in DOMAIN prop.limits.opts :
             prop.limits.opts[i] = prop.limits.opts[j] => i = j
       /\ prop.value \in Range(prop.limits.opts)

\* The limits of what is marked [O] are those of the module.
Limited ==
    \A s \in Slots(input) :
        /\ Good(At(input, s))
        /\ \A m \in CompAt(Module, input[s[1]].id) :
              \A r \in PropAt(Module[m], At(input, s).name) :
                  Module[m].props[r].limits = At(input, s).limits

\* A search has checked its steps.
Divisible ==
    pc \in {"evaluate", "baseline", "draw"} =>
        \A s \in Slots(input) : At(input, s).type = "int" => At(input, s).limits.step # 0

OnGrid == pc = "evaluate" => grid \in Grids(input)
Unique == \A i, j \in DOMAIN input : input[i].id = input[j].id => i = j

CfgInv ==
    /\ pc \in {"cli", "evaluate", "baseline", "draw", "sigfpe", "sigsegv", "stuck"}
    /\ objective \in {"inter", "propriety"}
    /\ IsConfig(input) /\ Unique
    /\ StaysAccepted /\ Limited /\ Divisible /\ OnGrid /\ GridRoundTrip
==============================================================================
