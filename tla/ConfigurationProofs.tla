-------------------------- MODULE ConfigurationProofs --------------------------
(***************************************************************************)
(* For any module, any victim and any configuration files: what a search    *)
(* writes into INPUT_CONFIG would be accepted from a file, differs from it  *)
(* only in the proprieties marked [O], and stands for the grid it was made  *)
(* from; and the baseline of a degradation is the configuration just tried. *)
(***************************************************************************)
EXTENDS Configuration, SequenceTheorems, WellFoundedInduction, TLAPS

\* Dividing keeps the order, and undoes a multiplication.
LEMMA Division ==
    ASSUME NEW d \in Nat, d # 0
    PROVE  /\ \A a \in Nat : a \div d \in Nat /\ (a \div d) * d <= a
           /\ \A a, b \in Nat : a <= b => a \div d <= b \div d
           /\ \A c \in Nat : c * d \in Nat /\ (c * d) \div d = c
           /\ \A b, c \in Nat : c <= b \div d => c * d <= b
<1>1. \A a \in Nat : a \div d \in Nat /\ (a \div d) * d <= a /\ a < (a \div d) * d + d
  <2>. SUFFICES ASSUME NEW a \in Nat
                PROVE  a \div d \in Nat /\ (a \div d) * d <= a /\ a < (a \div d) * d + d
    OBVIOUS
  <2>1. a \div d \in Nat /\ a % d \in 0..(d - 1) /\ a = d * (a \div d) + (a % d)
    OBVIOUS
  <2>2. \A q, r \in Nat : a = d * q + r /\ r < d => q * d <= a /\ a < q * d + d
    OBVIOUS
  <2>. QED
    BY <2>1, <2>2
<1>2. \A a, b, p, q \in Nat : a <= b /\ p * d <= a /\ b < q * d + d => p <= q
  <2>1. \A p, q \in Nat : p >= q + 1 => p * d >= (q + 1) * d
    OBVIOUS
  <2>2. \A q \in Nat : (q + 1) * d = q * d + d
    OBVIOUS
  <2>3. \A p \in Nat : p * d \in Nat
    OBVIOUS
  <2>. QED
    BY <2>1, <2>2, <2>3
<1>3. \A p, q \in Nat : p <= q => p * d <= q * d
  OBVIOUS
<1>4. \A p \in Nat : p * d \in Nat
  OBVIOUS
<1>5. \A c \in Nat : (c * d) \div d = c
  <2>. SUFFICES ASSUME NEW c \in Nat PROVE (c * d) \div d = c
    OBVIOUS
  <2>. DEFINE e == c * d
              q == e \div d
  <2>1. e \in Nat /\ q \in Nat /\ q * d <= e /\ e < q * d + d
    BY <1>1, <1>4
  <2>2. c * d <= e /\ e < c * d + d
    BY <1>4
  <2>3. q <= c
    BY <2>1, <2>2, <1>2
  <2>4. c <= q
    BY <2>1, <2>2, <1>2
  <2>. QED
    BY <2>1, <2>3, <2>4
<1>6. \A a, b \in Nat : a <= b => a \div d <= b \div d
  BY <1>1, <1>2
<1>7. \A b, c \in Nat : c <= b \div d => c * d <= b
  <2>. SUFFICES ASSUME NEW b \in Nat, NEW c \in Nat, c <= b \div d PROVE c * d <= b
    OBVIOUS
  <2>1. c * d <= (b \div d) * d /\ (b \div d) * d <= b /\ (b \div d) * d \in Nat /\ c * d \in Nat
    BY <1>1, <1>3, <1>4
  <2>. QED
    BY <2>1
<1>. QED
  BY <1>1, <1>4, <1>5, <1>6, <1>7

\* optimizeConfig does not divide by zero.
Steps(prop) == prop.type = "int" => prop.limits.step # 0

\* generateParameterGrid maps a value within its limits into the grid.
LEMMA CurInGrid ==
    ASSUME NEW prop, Good(prop), Steps(prop)
    PROVE  MaxOf(prop) \in Nat /\ CurOf(prop) \in 0..MaxOf(prop)
<1>1. CASE prop.type = "int"
  <2>1. /\ prop.limits.low \in Int /\ prop.limits.high \in Int
        /\ prop.limits.step \in Nat /\ prop.limits.step # 0
        /\ prop.value \in prop.limits.low..prop.limits.high
    BY <1>1 DEF Good, Steps
  <2>2. /\ prop.value - prop.limits.low \in Nat
        /\ prop.limits.high - prop.limits.low \in Nat
        /\ prop.value - prop.limits.low <= prop.limits.high - prop.limits.low
    BY <2>1
  <2>3. /\ MaxOf(prop) = (prop.limits.high - prop.limits.low) \div prop.limits.step
        /\ CurOf(prop) = (prop.value - prop.limits.low) \div prop.limits.step
    BY <1>1 DEF MaxOf, CurOf
  <2>. QED
    BY <2>1, <2>2, <2>3, Division
<1>2. CASE prop.type = "str"
  <2>. DEFINE opts == prop.limits.opts
  <2>1. opts \in Seq(Range(opts)) /\ prop.value \in Range(opts)
    BY <1>2 DEF Good
  <2>. DEFINE i == CHOOSE i \in DOMAIN opts : opts[i] = prop.value
  <2>2. i \in DOMAIN opts
    BY <2>1 DEF Range
  <2>3. MaxOf(prop) = Len(opts) - 1 /\ CurOf(prop) = i - 1
    BY <1>2 DEF MaxOf, CurOf
  <2>4. DOMAIN opts = 1..Len(opts) /\ Len(opts) \in Nat
    BY <2>1
  <2>. HIDE DEF opts, i
  <2>. QED
    BY <2>2, <2>3, <2>4
<1>. QED
  BY <1>1, <1>2 DEF Good

\* buildConfigFromParameterGrid maps the grid to values within the limits, of which
\* generateParameterGrid finds the same place again.
LEMMA ValueInLimits ==
    ASSUME NEW prop, Good(prop), Steps(prop), NEW k \in 0..MaxOf(prop)
    PROVE  /\ prop.type \in {"int", "str"}
           /\ InLimits(ValueOf(prop, k), prop.type, prop.limits)
           /\ \A new : /\ new.type = prop.type /\ new.limits = prop.limits
                       /\ new.value = ValueOf(prop, k)
                       => Good(new) /\ CurOf(new) = k
<1>1. CASE prop.type = "int"
  <2>. DEFINE low == prop.limits.low
              high == prop.limits.high
              d == prop.limits.step
              v == ValueOf(prop, k)
  <2>1. low \in Int /\ high \in Int /\ d \in Nat /\ d # 0 /\ high - low \in Nat
    BY <1>1 DEF Good, Steps
  <2>2. k \in Nat /\ k <= (high - low) \div d
    <3>1. MaxOf(prop) = (high - low) \div d
      BY <1>1 DEF MaxOf
    <3>2. (high - low) \div d \in Nat
      BY <2>1, Division
    <3>. QED
      BY <3>1, <3>2
  <2>3. v = k * d + low
    BY <1>1 DEF ValueOf
  <2>4. k * d \in Nat /\ k * d <= high - low /\ (k * d) \div d = k
    <3>. HIDE DEF d, low, high
    <3>. QED
      BY <2>1, <2>2, Division
  <2>5. v \in low..high /\ v - low = k * d
    <3>. HIDE DEF v, low, high, d
    <3>. DEFINE e == k * d
    <3>1. e \in Nat /\ e <= high - low /\ v = e + low
      BY <2>3, <2>4
    <3>. HIDE DEF e
    <3>2. v \in low..high /\ v - low = e
      BY <2>1, <3>1
    <3>. QED
      BY <3>2 DEF e
  <2>6. ASSUME NEW new, new.type = prop.type, new.limits = prop.limits, new.value = v
        PROVE  Good(new) /\ CurOf(new) = k
    <3>1. CurOf(new) = (v - low) \div d
      BY <1>1, <2>6 DEF CurOf
    <3>2. CurOf(new) = k
      BY <2>4, <2>5, <3>1
    <3>3. Good(new)
      BY <1>1, <2>1, <2>5, <2>6 DEF Good
    <3>. QED
      BY <3>2, <3>3
  <2>7. InLimits(v, prop.type, prop.limits)
    BY <1>1, <2>5 DEF InLimits
  <2>. QED
    BY <1>1, <2>6, <2>7
<1>2. CASE prop.type = "str"
  <2>. DEFINE opts == prop.limits.opts
              v == ValueOf(prop, k)
  <2>1. /\ opts \in Seq(Range(opts))
        /\ \A i, j \in DOMAIN opts : opts[i] = opts[j] => i = j
    BY <1>2 DEF Good
  <2>2. DOMAIN opts = 1..Len(opts) /\ Len(opts) \in Nat
    BY <2>1
  <2>3. v = opts[k + 1] /\ MaxOf(prop) = Len(opts) - 1
    BY <1>2 DEF ValueOf, MaxOf
  <2>4. k + 1 \in DOMAIN opts
    <3>. HIDE DEF opts
    <3>. QED
      BY <2>2, <2>3
  <2>5. v \in Range(opts)
    BY <2>3, <2>4 DEF Range
  <2>6. ASSUME NEW new, new.type = prop.type, new.limits = prop.limits, new.value = v
        PROVE  Good(new) /\ CurOf(new) = k
    <3>. DEFINE i == CHOOSE i \in DOMAIN opts : opts[i] = v
    <3>1. i = k + 1
      BY <2>1, <2>3, <2>4
    <3>2. CurOf(new) = i - 1
      BY <1>2, <2>6 DEF CurOf
    <3>3. Good(new)
      BY <1>2, <2>1, <2>5, <2>6 DEF Good
    <3>4. k \in Int
      OBVIOUS
    <3>. HIDE DEF i
    <3>. QED
      BY <3>1, <3>2, <3>3, <3>4
  <2>7. InLimits(v, prop.type, prop.limits)
    BY <1>2, <2>5 DEF InLimits
  <2>. QED
    BY <1>2, <2>6, <2>7
<1>. QED
  BY <1>1, <1>2 DEF Good
\* Where a propriety marked [O] is.
LEMMA SlotsAre ==
    ASSUME NEW cfg, NEW c, NEW p
    PROVE  <<c, p>> \in Slots(cfg) <=>
             c \in DOMAIN cfg /\ p \in DOMAIN cfg[c].props /\ "O" \in cfg[c].props[p].flags
BY DEF Slots

\* A place is a component and a propriety of it.
LEMMA SlotIsPair ==
    ASSUME NEW cfg, NEW s \in Slots(cfg)
    PROVE  s = <<s[1], s[2]>>
BY DEF Slots

\* The value buildConfigFromParameterGrid gives a propriety.
NewValue(cfg, g, c, p) ==
    IF "O" \in cfg[c].props[p].flags THEN ValueOf(cfg[c].props[p], g[<<c, p>>])
                                     ELSE cfg[c].props[p].value

\* The proprieties it makes.
NewProps(cfg, g, c) ==
    [p \in DOMAIN cfg[c].props |->
        Prop(cfg[c].props[p].name, cfg[c].props[p].type, NewValue(cfg, g, c, p),
             cfg[c].props[p].flags, cfg[c].props[p].limits)]

\* It changes nothing else.
LEMMA AppliedComp ==
    ASSUME NEW cfg, IsConfig(cfg), NEW g, DOMAIN g = Slots(cfg), NEW c \in DOMAIN cfg
    PROVE  Applied(cfg, g)[c] = [id |-> cfg[c].id, props |-> NewProps(cfg, g, c)]
<1>. DEFINE new == Applied(cfg, g)
            props == [p \in DOMAIN cfg[c].props |->
               IF <<c, p>> \in DOMAIN g
               THEN [cfg[c].props[p] EXCEPT !.value = ValueOf(cfg[c].props[p], g[<<c, p>>])]
               ELSE cfg[c].props[p]]
<1>1. new[c] = [cfg[c] EXCEPT !.props = props]
  BY DEF Applied
<1>2. ASSUME NEW p \in DOMAIN cfg[c].props
      PROVE  LET old == cfg[c].props[p]
             IN  props[p] = Prop(old.name, old.type, NewValue(cfg, g, c, p),
                                 old.flags, old.limits)
  <2>. DEFINE old == cfg[c].props[p]
              v == NewValue(cfg, g, c, p)
  <2>1. old = Prop(old.name, old.type, old.value, old.flags, old.limits)
    BY DEF IsConfig
  <2>2. <<c, p>> \in DOMAIN g <=> "O" \in old.flags
    BY SlotsAre
  <2>3. props[p] = IF "O" \in old.flags
                   THEN [old EXCEPT !.value = ValueOf(old, g[<<c, p>>])] ELSE old
    BY <2>2
  <2>4. v = IF "O" \in old.flags THEN ValueOf(old, g[<<c, p>>]) ELSE old.value
    BY DEF NewValue
  <2>. HIDE DEF old, props, v
  <2>5. \A w : [old EXCEPT !.value = w] = Prop(old.name, old.type, w, old.flags, old.limits)
    BY <2>1 DEF Prop
  <2>6. props[p] = Prop(old.name, old.type, v, old.flags, old.limits)
    <3>1. CASE "O" \in old.flags
      BY <2>3, <2>4, <2>5, <3>1
    <3>2. CASE "O" \notin old.flags
      BY <2>1, <2>3, <2>4, <3>2
    <3>. QED
      BY <3>1, <3>2
  <2>. QED
    BY <2>6 DEF old, v
<1>3. props = NewProps(cfg, g, c)
  BY <1>2 DEF NewProps
<1>4. cfg[c] = [id |-> cfg[c].id, props |-> cfg[c].props]
  BY DEF IsConfig
<1>. HIDE DEF new, props
<1>5. new[c] = [id |-> cfg[c].id, props |-> props]
  BY <1>1, <1>4
<1>. QED
  BY <1>3, <1>5 DEF new

\* So the ids and the places are those there were.
LEMMA AppliedShape ==
    ASSUME NEW cfg, IsConfig(cfg), NEW g, DOMAIN g = Slots(cfg)
    PROVE  /\ DOMAIN Applied(cfg, g) = DOMAIN cfg
           /\ \A c \in DOMAIN cfg :
                /\ Applied(cfg, g)[c].id = cfg[c].id
                /\ Applied(cfg, g)[c].props = NewProps(cfg, g, c)
                /\ DOMAIN Applied(cfg, g)[c].props = DOMAIN cfg[c].props
<1>1. DOMAIN Applied(cfg, g) = DOMAIN cfg
  BY DEF Applied
<1>2. ASSUME NEW c \in DOMAIN cfg
      PROVE  /\ Applied(cfg, g)[c].id = cfg[c].id
             /\ Applied(cfg, g)[c].props = NewProps(cfg, g, c)
  <2>. DEFINE new == Applied(cfg, g)[c]
  <2>1. new = [id |-> cfg[c].id, props |-> NewProps(cfg, g, c)]
    BY AppliedComp
  <2>. HIDE DEF new
  <2>2. new.id = cfg[c].id /\ new.props = NewProps(cfg, g, c)
    BY <2>1
  <2>. QED
    BY <2>2 DEF new
<1>3. \A c \in DOMAIN cfg : DOMAIN NewProps(cfg, g, c) = DOMAIN cfg[c].props
  BY DEF NewProps
<1>. QED
  BY <1>1, <1>2, <1>3

\* One of its proprieties.
LEMMA AppliedProp ==
    ASSUME NEW cfg, IsConfig(cfg), NEW g, DOMAIN g = Slots(cfg), NEW c \in DOMAIN cfg,
           NEW p \in DOMAIN cfg[c].props
    PROVE  LET new == Applied(cfg, g)[c].props[p]
               old == cfg[c].props[p]
           IN  /\ old = Prop(old.name, old.type, old.value, old.flags, old.limits)
               /\ new = Prop(old.name, old.type, NewValue(cfg, g, c, p), old.flags, old.limits)
               /\ new.name = old.name /\ new.type = old.type /\ new.flags = old.flags
               /\ new.limits = old.limits /\ new.value = NewValue(cfg, g, c, p)
<1>. DEFINE new == Applied(cfg, g)[c].props[p]
            old == cfg[c].props[p]
<1>1. new = Prop(old.name, old.type, NewValue(cfg, g, c, p), old.flags, old.limits)
  <2>1. Applied(cfg, g)[c].props = NewProps(cfg, g, c)
    BY AppliedShape
  <2>. QED
    BY <2>1 DEF NewProps
<1>2. old = Prop(old.name, old.type, old.value, old.flags, old.limits)
  BY DEF IsConfig
<1>. HIDE DEF new, old
<1>3. /\ new.name = old.name /\ new.type = old.type /\ new.flags = old.flags
      /\ new.limits = old.limits /\ new.value = NewValue(cfg, g, c, p)
  BY <1>1 DEF Prop
<1>. QED
  BY <1>1, <1>2, <1>3 DEF new, old

\* What it makes is a configuration, with the same proprieties marked [O].
LEMMA AppliedIsConfig ==
    ASSUME NEW cfg, IsConfig(cfg), NEW g, DOMAIN g = Slots(cfg)
    PROVE  /\ DOMAIN Applied(cfg, g) = DOMAIN cfg
           /\ Slots(Applied(cfg, g)) = Slots(cfg)
           /\ IsConfig(Applied(cfg, g))
<1>. DEFINE new == Applied(cfg, g)
<1>1. DOMAIN new = DOMAIN cfg /\ new = [c \in DOMAIN cfg |-> new[c]]
  BY DEF Applied
<1>2. Slots(new) = Slots(cfg)
  <2>1. \A c, p : <<c, p>> \in Slots(new) <=> <<c, p>> \in Slots(cfg)
    <3>. SUFFICES ASSUME NEW c, NEW p
                  PROVE  <<c, p>> \in Slots(new) <=> <<c, p>> \in Slots(cfg)
      OBVIOUS
    <3>1. CASE c \in DOMAIN cfg
      <4>1. DOMAIN new[c].props = DOMAIN cfg[c].props
        BY <3>1, AppliedShape
      <4>2. CASE p \in DOMAIN cfg[c].props
        <5>1. new[c].props[p].flags = cfg[c].props[p].flags
          BY <3>1, <4>2, AppliedProp
        <5>. HIDE DEF new
        <5>. QED
          BY <1>1, <3>1, <4>1, <4>2, <5>1, SlotsAre
      <4>3. CASE p \notin DOMAIN cfg[c].props
        <5>. HIDE DEF new
        <5>. QED
          BY <1>1, <3>1, <4>1, <4>3, SlotsAre
      <4>. QED
        BY <4>2, <4>3
    <3>2. CASE c \notin DOMAIN cfg
      <4>. HIDE DEF new
      <4>. QED
        BY <1>1, <3>2, SlotsAre
    <3>. QED
      BY <3>1, <3>2
  <2>2. \A s \in Slots(new) : s \in Slots(cfg)
    BY <2>1, SlotIsPair
  <2>3. \A s \in Slots(cfg) : s \in Slots(new)
    BY <2>1, SlotIsPair
  <2>. QED
    BY <2>2, <2>3
<1>3. ASSUME NEW q, NEW r, q = [i \in DOMAIN r |-> q[i]], r \in Seq(Range(r))
      PROVE  q \in Seq(Range(q))
  <2>1. DOMAIN r = 1..Len(r) /\ Len(r) \in Nat
    BY <1>3
  <2>2. q \in [1..Len(r) -> Range(q)]
    BY <1>3, <2>1 DEF Range
  <2>. QED
    BY <2>1, <2>2
<1>4. new \in Seq(Range(new))
  <2>. HIDE DEF new
  <2>. QED
    BY <1>1, <1>3 DEF IsConfig
<1>5. ASSUME NEW c \in DOMAIN cfg
      PROVE  /\ new[c] = [id |-> new[c].id, props |-> new[c].props]
             /\ DOMAIN new[c].props = DOMAIN cfg[c].props
             /\ new[c].props \in Seq(Range(new[c].props))
  <2>1. new[c] = [id |-> cfg[c].id, props |-> NewProps(cfg, g, c)]
    BY AppliedComp
  <2>2. NewProps(cfg, g, c) = [p \in DOMAIN cfg[c].props |-> NewProps(cfg, g, c)[p]]
    BY DEF NewProps
  <2>. HIDE DEF new
  <2>. QED
    BY <1>3, <2>1, <2>2 DEF IsConfig
<1>6. ASSUME NEW c \in DOMAIN cfg, NEW p \in DOMAIN cfg[c].props
      PROVE  LET prop == new[c].props[p]
             IN prop = Prop(prop.name, prop.type, prop.value, prop.flags, prop.limits)
  <2>. DEFINE prop == new[c].props[p]
              old == cfg[c].props[p]
  <2>1. /\ prop = Prop(old.name, old.type, NewValue(cfg, g, c, p), old.flags, old.limits)
        /\ prop.name = old.name /\ prop.type = old.type /\ prop.flags = old.flags
        /\ prop.limits = old.limits /\ prop.value = NewValue(cfg, g, c, p)
    BY AppliedProp
  <2>. HIDE DEF prop, old
  <2>2. prop = Prop(prop.name, prop.type, prop.value, prop.flags, prop.limits)
    BY <2>1
  <2>. QED
    BY <2>2 DEF prop
<1>. HIDE DEF new
<1>7. IsConfig(new)
  BY <1>1, <1>4, <1>5, <1>6 DEF IsConfig
<1>. QED
  BY <1>1, <1>2, <1>7 DEF new

\* A grid that is about to be evaluated gives every propriety a value it may have.
LEMMA GridValue ==
    ASSUME CfgInv, pc = "evaluate"
    PROVE  /\ DOMAIN grid = Slots(input) /\ grid = [s \in Slots(input) |-> grid[s]]
           /\ \A s \in Slots(input) :
                /\ Good(At(input, s)) /\ Steps(At(input, s))
                /\ grid[s] \in 0..MaxOf(At(input, s))
<1>1. grid \in Grids(input)
  BY DEF CfgInv, OnGrid
<1>2. /\ DOMAIN grid = Slots(input) /\ grid = [s \in Slots(input) |-> grid[s]]
      /\ \A s \in Slots(input) : /\ grid[s] <= MaxOf(At(input, s))
                                 /\ \E t \in Slots(input) : grid[s] \in 0..MaxOf(At(input, t))
  BY <1>1 DEF Grids
<1>3. \A s \in Slots(input) : Good(At(input, s)) /\ Steps(At(input, s))
  BY DEF CfgInv, Limited, Divisible, Steps
<1>4. \A s \in Slots(input) : MaxOf(At(input, s)) \in Nat
  BY <1>3, CurInGrid
<1>. QED
  BY <1>2, <1>3, <1>4

\* buildConfigFromParameterGrid writes values that loadConfig would accept.
LEMMA AppliedAccepted ==
    ASSUME CfgInv, pc = "evaluate"
    PROVE  AcceptsConfig(Applied(input, grid))
<1>. DEFINE new == Applied(input, grid)
<1>1. IsConfig(input) /\ DOMAIN grid = Slots(input)
  BY GridValue DEF CfgInv
<1>2. ASSUME NEW m \in DOMAIN Module, NEW c \in CompAt(new, Module[m].id)
      PROVE  AcceptsComp(Module[m], new[c])
  <2>1. c \in CompAt(input, Module[m].id) /\ c \in DOMAIN input /\ m \in CompAt(Module, input[c].id)
    <3>1. c \in DOMAIN new /\ new[c].id = Module[m].id
      BY <1>2 DEF CompAt
    <3>2. c \in DOMAIN input
      BY <1>1, <3>1, AppliedIsConfig
    <3>3. new[c].id = input[c].id
      BY <1>1, <3>2, AppliedShape
    <3>. HIDE DEF new
    <3>. QED
      BY <3>1, <3>2, <3>3 DEF CompAt
  <2>2. AcceptsComp(Module[m], input[c])
    BY <2>1 DEF CfgInv, StaysAccepted, AcceptsConfig
  <2>3. \A n : PropAt(new[c], n) = PropAt(input[c], n)
    <3>1. DOMAIN new[c].props = DOMAIN input[c].props
      BY <1>1, <2>1, AppliedShape
    <3>2. \A p \in DOMAIN input[c].props : new[c].props[p].name = input[c].props[p].name
      BY <1>1, <2>1, AppliedProp
    <3>. HIDE DEF new
    <3>. QED
      BY <3>1, <3>2 DEF PropAt
  <2>4. ASSUME NEW r \in DOMAIN Module[m].props, NEW p \in PropAt(input[c], Module[m].props[r].name)
        PROVE  Accepts(Module[m].props[r], new[c].props[p])
    <3>. DEFINE rule == Module[m].props[r]
                old == input[c].props[p]
    <3>1. p \in DOMAIN input[c].props /\ old.name = rule.name /\ Accepts(rule, old)
      BY <2>2, <2>4 DEF AcceptsComp, PropAt
    <3>2. new[c].props[p].type = old.type /\ new[c].props[p].flags = old.flags
      BY <1>1, <2>1, <3>1, AppliedProp
    <3>3. new[c].props[p].value =
            IF "O" \in old.flags THEN ValueOf(old, grid[<<c, p>>]) ELSE old.value
      BY <1>1, <2>1, <3>1, AppliedProp DEF NewValue
    <3>4. CASE "O" \in old.flags
      <4>1. <<c, p>> \in Slots(input) /\ At(input, <<c, p>>) = old
        BY <2>1, <3>1, <3>4, SlotsAre DEF At
      <4>2. InLimits(ValueOf(old, grid[<<c, p>>]), old.type, old.limits)
        BY <4>1, GridValue, ValueInLimits
      <4>3. r \in PropAt(Module[m], old.name)
        BY <3>1 DEF PropAt
      <4>4. rule.limits = old.limits
        BY <2>1, <4>1, <4>3 DEF CfgInv, Limited
      <4>. HIDE DEF old, new, rule
      <4>. QED
        BY <3>1, <3>2, <3>3, <3>4, <4>2, <4>4 DEF Accepts, rule, new
    <3>5. CASE "O" \notin old.flags
      <4>. HIDE DEF old, new, rule
      <4>. QED
        BY <3>1, <3>2, <3>3, <3>5 DEF Accepts, rule, new
    <3>. QED
      BY <3>4, <3>5
  <2>. HIDE DEF new
  <2>. QED
    BY <2>2, <2>3, <2>4 DEF AcceptsComp
<1>. QED
  BY <1>2 DEF AcceptsConfig

\* The proprieties it writes have the limits they had, and a value within them;
\* and the grid can be read off again.
LEMMA AppliedLimited ==
    ASSUME CfgInv, pc = "evaluate", NEW s \in Slots(input)
    PROVE  LET new == Applied(input, grid) IN
           /\ Good(At(new, s)) /\ CurOf(At(new, s)) = grid[s]
           /\ At(new, s).name = At(input, s).name
           /\ At(new, s).type = At(input, s).type
           /\ At(new, s).limits = At(input, s).limits
           /\ new[s[1]].id = input[s[1]].id
<1>. DEFINE new == Applied(input, grid)
            old == At(input, s)
<1>1. IsConfig(input) /\ DOMAIN grid = Slots(input)
  BY GridValue DEF CfgInv
<1>2. /\ s = <<s[1], s[2]>> /\ s[1] \in DOMAIN input
      /\ s[2] \in DOMAIN input[s[1]].props /\ "O" \in old.flags
  BY SlotIsPair, SlotsAre DEF At
<1>3. /\ At(new, s).name = old.name /\ At(new, s).type = old.type
      /\ At(new, s).limits = old.limits /\ At(new, s).value = ValueOf(old, grid[s])
  BY <1>1, <1>2, AppliedProp DEF At, NewValue
<1>4. new[s[1]].id = input[s[1]].id
  BY <1>1, <1>2, AppliedShape
<1>5. Good(old) /\ Steps(old) /\ grid[s] \in 0..MaxOf(old)
  BY GridValue
<1>. HIDE DEF new, old
<1>6. Good(At(new, s)) /\ CurOf(At(new, s)) = grid[s]
  BY <1>3, <1>5, ValueInLimits
<1>. QED
  BY <1>3, <1>4, <1>6 DEF new, old

\* It changes the values of the proprieties marked [O], and nothing else.
LEMMA AppliedFixed ==
    ASSUME NEW cfg, IsConfig(cfg), NEW g, DOMAIN g = Slots(cfg)
    PROVE  Fixed(Applied(cfg, g)) = Fixed(cfg)
<1>. DEFINE new == Applied(cfg, g)
            F(d, c) == [p \in DOMAIN d[c].props |->
                          IF "O" \in d[c].props[p].flags
                          THEN [d[c].props[p] EXCEPT !.value = 0] ELSE d[c].props[p]]
<1>1. ASSUME NEW c \in DOMAIN cfg PROVE F(new, c) = F(cfg, c)
  <2>1. ASSUME NEW p \in DOMAIN cfg[c].props
        PROVE  F(new, c)[p] = F(cfg, c)[p]
    <3>. DEFINE old == cfg[c].props[p]
                w == NewValue(cfg, g, c, p)
                now == new[c].props[p]
    <3>1. /\ old = Prop(old.name, old.type, old.value, old.flags, old.limits)
          /\ now = Prop(old.name, old.type, w, old.flags, old.limits)
          /\ now.flags = old.flags
      BY AppliedProp
    <3>2. "O" \notin old.flags => w = old.value
      BY DEF NewValue
    <3>3. p \in DOMAIN new[c].props
      BY AppliedShape
    <3>4. /\ F(new, c)[p] = IF "O" \in now.flags THEN [now EXCEPT !.value = 0] ELSE now
          /\ F(cfg, c)[p] = IF "O" \in old.flags THEN [old EXCEPT !.value = 0] ELSE old
      BY <3>3
    <3>. HIDE DEF F, old, new, now, w
    <3>5. [now EXCEPT !.value = 0] = [old EXCEPT !.value = 0]
      BY <3>1 DEF Prop
    <3>6. "O" \notin old.flags => now = old
      BY <3>1, <3>2
    <3>. QED
      BY <3>1, <3>4, <3>5, <3>6
  <2>2. DOMAIN new[c].props = DOMAIN cfg[c].props
    BY AppliedShape
  <2>. HIDE DEF new
  <2>. QED
    BY <2>1, <2>2
<1>2. DOMAIN new = DOMAIN cfg /\ \A c \in DOMAIN cfg : new[c].id = cfg[c].id
  BY AppliedShape, AppliedIsConfig
<1>3. \A d : Fixed(d) = [c \in DOMAIN d |-> [id |-> d[c].id, props |-> F(d, c)]]
  BY DEF Fixed
<1>. HIDE DEF F, new
<1>. QED
  BY <1>1, <1>2, <1>3 DEF new

\* What loadConfig does to a component: its proprieties get the limits of the
\* module, if it has any.
LEMMA WithLimitsIs ==
    ASSUME NEW text \in Texts, NEW c \in DOMAIN text
    PROVE  LET comp == text[c]  new == WithLimits(text[c]) IN
           /\ new.id = comp.id
           /\ new = [id |-> new.id, props |-> new.props]
           /\ DOMAIN new.props = DOMAIN comp.props
           /\ new.props \in Seq(Range(new.props))
           /\ \A p \in DOMAIN comp.props :
                /\ new.props[p].name = comp.props[p].name
                /\ new.props[p].type = comp.props[p].type
                /\ new.props[p].value = comp.props[p].value
                /\ new.props[p].flags = comp.props[p].flags
                /\ new.props[p] = Prop(new.props[p].name, new.props[p].type,
                     new.props[p].value, new.props[p].flags, new.props[p].limits)
                /\ \A m \in CompAt(Module, comp.id) :
                     \A r \in PropAt(Module[m], comp.props[p].name) :
                        Module[m].props[r].type # "bool" =>
                            new.props[p].limits = Module[m].props[r].limits
<1>. DEFINE comp == text[c]
            new == WithLimits(comp)
            rules == UNION {Range(Module[m].props) : m \in CompAt(Module, comp.id)}
            Limits(prop) ==
                {r.limits : r \in {q \in rules : q.name = prop.name /\ q.type # "bool"}}
            props == [p \in DOMAIN comp.props |->
                 IF Limits(comp.props[p]) = {} THEN comp.props[p]
                 ELSE [comp.props[p] EXCEPT !.limits =
                          CHOOSE l \in Limits(comp.props[p]) : TRUE]]
<1>1. /\ IsConfig(text) /\ IsConfig(Module)
      /\ \A i, j \in DOMAIN Module : Module[i].id = Module[j].id => i = j
      /\ \A i \in DOMAIN Module : \A p, q \in DOMAIN Module[i].props :
            Module[i].props[p].name = Module[i].props[q].name => p = q
  BY ConfigurationAssumption
<1>2. comp = [id |-> comp.id, props |-> comp.props] /\ comp.props \in Seq(Range(comp.props))
  BY <1>1 DEF IsConfig
<1>3. new = [comp EXCEPT !.props = props]
  BY DEF WithLimits
<1>4. new = [id |-> comp.id, props |-> props]
  <2>. HIDE DEF new, comp, props
  <2>. QED
    BY <1>2, <1>3
<1>5. DOMAIN props = DOMAIN comp.props
  OBVIOUS
<1>6. props \in Seq(Range(props))
  <2>1. DOMAIN props = 1..Len(comp.props) /\ Len(comp.props) \in Nat
    BY <1>2
  <2>2. props = [p \in DOMAIN props |-> props[p]]
    OBVIOUS
  <2>. HIDE DEF props
  <2>3. props \in [1..Len(comp.props) -> Range(props)]
    BY <2>1, <2>2 DEF Range
  <2>. QED
    BY <2>1, <2>3
<1>7. ASSUME NEW p \in DOMAIN comp.props
      PROVE  /\ props[p].name = comp.props[p].name
             /\ props[p].type = comp.props[p].type
             /\ props[p].value = comp.props[p].value
             /\ props[p].flags = comp.props[p].flags
             /\ props[p] = Prop(props[p].name, props[p].type,
                     props[p].value, props[p].flags, props[p].limits)
  <2>. DEFINE old == comp.props[p]
  <2>1. old = Prop(old.name, old.type, old.value, old.flags, old.limits)
    BY <1>1 DEF IsConfig
  <2>2. \E l : props[p] = [old EXCEPT !.limits = l]
    <3>1. CASE Limits(old) = {}
      <4>1. [old EXCEPT !.limits = old.limits] = old
        <5>. HIDE DEF old
        <5>. QED
          BY <2>1 DEF Prop
      <4>2. props[p] = old
        BY <3>1
      <4>. QED
        BY <4>1, <4>2
    <3>2. CASE Limits(old) # {}
      BY <3>2
    <3>. QED
      BY <3>1, <3>2
  <2>3. PICK l : props[p] = [old EXCEPT !.limits = l]
    BY <2>2
  <2>. HIDE DEF props, old
  <2>4. props[p] = Prop(old.name, old.type, old.value, old.flags, l)
    BY <2>1, <2>3 DEF Prop
  <2>. QED
    BY <2>4 DEF Prop, old
<1>8. ASSUME NEW p \in DOMAIN comp.props, NEW m \in CompAt(Module, comp.id),
             NEW r \in PropAt(Module[m], comp.props[p].name),
             Module[m].props[r].type # "bool"
      PROVE  props[p].limits = Module[m].props[r].limits
  <2>. DEFINE old == comp.props[p]
              rule == Module[m].props[r]
  <2>1. /\ m \in DOMAIN Module /\ Module[m].id = comp.id
        /\ r \in DOMAIN Module[m].props /\ rule.name = old.name
    BY DEF CompAt, PropAt
  <2>2. rule \in rules
    BY <2>1 DEF Range
  <2>3. \A q \in rules : q.name = old.name => q = rule
    BY <1>1, <2>1 DEF CompAt, Range
  <2>4. Limits(old) = {rule.limits}
    <3>. HIDE DEF rules, rule, old
    <3>. QED
      BY <1>8, <2>1, <2>2, <2>3 DEF rule
  <2>5. props[p] = [old EXCEPT !.limits = rule.limits]
    BY <2>4
  <2>6. old = Prop(old.name, old.type, old.value, old.flags, old.limits)
    BY <1>1 DEF IsConfig
  <2>. HIDE DEF props, old, rule
  <2>7. props[p] = Prop(old.name, old.type, old.value, old.flags, rule.limits)
    BY <2>5, <2>6 DEF Prop
  <2>. QED
    BY <2>7 DEF Prop, rule
<1>. HIDE DEF props, new, Limits, rules, comp
<1>. QED
  BY <1>4, <1>5, <1>6, <1>7, <1>8 DEF new, comp

\* Nothing is wrong with no configuration.
LEMMA NothingLoaded ==
    /\ IsConfig(NoConfig) /\ AcceptsConfig(NoConfig)
    /\ DOMAIN NoConfig = {} /\ Slots(NoConfig) = {}
<1>1. DOMAIN NoConfig = {} /\ NoConfig \in Seq(Range(NoConfig))
  BY DEF NoConfig
<1>. QED
  BY <1>1 DEF IsConfig, AcceptsConfig, CompAt, Slots

\* A configuration that loadConfig accepts is as the optimizer needs it.
LEMMA LoadedGood ==
    ASSUME NEW text \in Texts, AcceptsConfig(text),
           input' = [c \in DOMAIN text |-> WithLimits(text[c])]
    PROVE  IsConfig(input') /\ Unique' /\ StaysAccepted' /\ Limited'
<1>1. /\ IsConfig(text)
      /\ \A i, j \in DOMAIN text : text[i].id = text[j].id => i = j
      /\ \A i \in DOMAIN text : \A p \in DOMAIN text[i].props :
          "O" \in text[i].props[p].flags =>
            \E m \in DOMAIN Module : \E r \in DOMAIN Module[m].props :
              /\ Module[m].id = text[i].id
              /\ Module[m].props[r].name = text[i].props[p].name
      /\ \A m \in DOMAIN Module : \A r \in DOMAIN Module[m].props : IsRule(Module[m].props[r])
  BY ConfigurationAssumption
<1>2. DOMAIN input' = DOMAIN text /\ \A c \in DOMAIN text : input'[c] = WithLimits(text[c])
  OBVIOUS
<1>3. IsConfig(input')
  <2>1. input' \in Seq(Range(input'))
    <3>1. DOMAIN text = 1..Len(text) /\ Len(text) \in Nat
      BY <1>1 DEF IsConfig
    <3>2. input' \in [1..Len(text) -> Range(input')]
      BY <1>2, <3>1 DEF Range
    <3>. QED
      BY <3>1, <3>2
  <2>. QED
    BY <1>2, <2>1, WithLimitsIs DEF IsConfig
<1>4. Unique'
  BY <1>1, <1>2, WithLimitsIs DEF Unique
<1>5. StaysAccepted'
  <2>1. ASSUME NEW m \in DOMAIN Module, NEW c \in CompAt(input', Module[m].id)
        PROVE  AcceptsComp(Module[m], input'[c])
    <3>1. c \in DOMAIN text /\ c \in CompAt(text, Module[m].id)
      BY <1>2, <2>1, WithLimitsIs DEF CompAt
    <3>2. AcceptsComp(Module[m], text[c])
      BY <3>1 DEF AcceptsConfig
    <3>3. \A n : PropAt(input'[c], n) = PropAt(text[c], n)
      BY <1>2, <3>1, WithLimitsIs DEF PropAt
    <3>4. \A rule : \A p \in DOMAIN text[c].props :
            Accepts(rule, input'[c].props[p]) <=> Accepts(rule, text[c].props[p])
      BY <1>2, <3>1, WithLimitsIs DEF Accepts
    <3>. QED
      BY <3>2, <3>3, <3>4 DEF AcceptsComp, PropAt
  <2>. QED
    BY <2>1 DEF StaysAccepted, AcceptsConfig
<1>6. ASSUME NEW s \in Slots(input')
      PROVE  /\ Good(At(input', s))
             /\ \A m \in CompAt(Module, input'[s[1]].id) :
                   \A r \in PropAt(Module[m], At(input', s).name) :
                       Module[m].props[r].limits = At(input', s).limits
  <2>. DEFINE c == s[1]
              p == s[2]
              old == text[c].props[p]
              new == At(input', s)
  <2>1. /\ s = <<c, p>> /\ c \in DOMAIN input' /\ p \in DOMAIN input'[c].props
        /\ "O" \in new.flags
    BY SlotIsPair, SlotsAre DEF At
  <2>2. c \in DOMAIN text /\ input'[c].id = text[c].id /\ p \in DOMAIN text[c].props
    BY <1>2, <2>1, WithLimitsIs
  <2>3. /\ new.name = old.name /\ new.type = old.type
        /\ new.value = old.value /\ new.flags = old.flags
        /\ \A m \in CompAt(Module, text[c].id) : \A r \in PropAt(Module[m], old.name) :
              Module[m].props[r].type # "bool" => new.limits = Module[m].props[r].limits
    BY <1>2, <2>2, WithLimitsIs DEF At
  <2>4. ASSUME NEW m \in CompAt(Module, text[c].id), NEW r \in PropAt(Module[m], old.name)
        PROVE  LET rule == Module[m].props[r] IN
               /\ rule.type # "bool" /\ rule.type = new.type /\ rule.limits = new.limits
               /\ IsRule(rule) /\ InLimits(new.value, new.type, new.limits)
    <3>. DEFINE rule == Module[m].props[r]
    <3>1. /\ m \in DOMAIN Module /\ Module[m].id = text[c].id /\ r \in DOMAIN Module[m].props
          /\ rule.name = old.name
      BY DEF CompAt, PropAt
    <3>2. c \in CompAt(text, Module[m].id) /\ p \in PropAt(text[c], rule.name)
      BY <2>2, <3>1 DEF CompAt, PropAt
    <3>3. Accepts(rule, old)
      BY <3>1, <3>2 DEF AcceptsConfig, AcceptsComp
    <3>4. rule.type = old.type /\ "O" \in rule.flags /\ InLimits(old.value, old.type, rule.limits)
      BY <2>1, <2>3, <3>3 DEF Accepts
    <3>5. IsRule(rule)
      BY <1>1, <3>1
    <3>6. rule.type # "bool"
      BY <3>4, <3>5 DEF IsRule
    <3>. QED
      BY <2>3, <3>4, <3>5, <3>6
  <2>5. PICK m \in CompAt(Module, text[c].id) : \E r : r \in PropAt(Module[m], old.name)
    BY <1>1, <2>1, <2>2, <2>3 DEF CompAt, PropAt
  <2>6. PICK r \in PropAt(Module[m], old.name) : TRUE
    BY <2>5
  <2>7. Good(new)
    <3>. HIDE DEF new, old
    <3>. QED
      BY <2>4, <2>6 DEF IsRule, InLimits, Good
  <2>. QED
    BY <2>2, <2>3, <2>4, <2>7
<1>. QED
  BY <1>3, <1>4, <1>5, <1>6 DEF Limited

\* Every step keeps the configuration as the optimizer needs it, and a search
\* changes only what is marked [O].
LEMMA StepCfg ==
    ASSUME CfgInv, [Next]_vars
    PROVE  CfgInv' /\ (pc # "cli" => Fixed(input') = Fixed(input))
<1>. DEFINE Kept == CfgInv' /\ (pc # "cli" => Fixed(input') = Fixed(input))
<1>. SUFFICES Kept
  OBVIOUS
<1>1. ASSUME NEW t \in Texts, Load(t) PROVE Kept
  <2>1. /\ pc' = "cli" /\ pc = "cli" /\ objective' = objective
    BY <1>1 DEF Load
  <2>2. IsConfig(input') /\ Unique' /\ StaysAccepted' /\ Limited'
    <3>1. CASE CompAt(t, Victim) # {} /\ AcceptsConfig(t)
      BY <1>1, <3>1, LoadedGood DEF Load
    <3>2. CASE ~(CompAt(t, Victim) # {} /\ AcceptsConfig(t))
      <4>1. input' = NoConfig
        BY <1>1, <3>2 DEF Load
      <4>. QED
        BY <4>1, NothingLoaded DEF Unique, StaysAccepted, Limited
    <3>. QED
      BY <3>1, <3>2
  <2>. QED
    BY <2>1, <2>2 DEF CfgInv, Divisible, OnGrid, GridRoundTrip
<1>2. ASSUME NEW o \in {"inter", "propriety"}, Optimize(o) PROVE Kept
  <2>1. pc = "cli" /\ input' = input
    BY <1>2 DEF Optimize
  <2>2. CASE pc' = "sigfpe" /\ UNCHANGED <<objective, grid>>
    BY <2>1, <2>2 DEF CfgInv, Unique, StaysAccepted, Limited, Divisible, OnGrid, GridRoundTrip
  <2>3. CASE /\ \A s \in Slots(input) :
                    At(input, s).type = "int" => At(input, s).limits.step # 0
             /\ pc' = "evaluate" /\ objective' = o /\ grid' = Generated(input)
    <3>1. \A s \in Slots(input) : /\ MaxOf(At(input, s)) \in Nat
                                  /\ CurOf(At(input, s)) \in 0..MaxOf(At(input, s))
      BY <2>3, CurInGrid DEF CfgInv, Limited, Steps
    <3>2. Generated(input) \in Grids(input)
      <4>1. \A s \in Slots(input) :
              CurOf(At(input, s)) \in UNION {0..MaxOf(At(input, t)) : t \in Slots(input)}
        BY <3>1
      <4>2. \A s \in Slots(input) : Generated(input)[s] = CurOf(At(input, s))
        BY DEF Generated
      <4>3. Generated(input) \in
              [Slots(input) -> UNION {0..MaxOf(At(input, t)) : t \in Slots(input)}]
        BY <4>1 DEF Generated
      <4>. QED
        BY <3>1, <4>2, <4>3 DEF Grids
    <3>. QED
      BY <2>1, <2>3, <3>2
      DEF CfgInv, Unique, StaysAccepted, Limited, Divisible, OnGrid, GridRoundTrip
  <2>. QED
    BY <1>2, <2>2, <2>3 DEF Optimize
<1>3. ASSUME Evaluate PROVE Kept
  <2>. DEFINE new == Applied(input, grid)
  <2>1. pc = "evaluate" /\ pc' = "baseline" /\ input' = new /\ UNCHANGED <<objective, grid>>
    BY <1>3 DEF Evaluate
  <2>2. IsConfig(input) /\ DOMAIN grid = Slots(input) /\ grid = [s \in Slots(input) |-> grid[s]]
    BY <2>1, GridValue DEF CfgInv
  <2>3. /\ DOMAIN new = DOMAIN input /\ \A c \in DOMAIN input : new[c].id = input[c].id
        /\ Slots(new) = Slots(input) /\ IsConfig(new)
    BY <2>2, AppliedShape, AppliedIsConfig
  <2>4. Unique'
    BY <2>1, <2>3 DEF CfgInv, Unique
  <2>5. StaysAccepted'
    BY <2>1, AppliedAccepted DEF StaysAccepted
  <2>6. ASSUME NEW s \in Slots(input)
        PROVE  /\ Good(At(new, s)) /\ CurOf(At(new, s)) = grid[s]
               /\ At(new, s).name = At(input, s).name
               /\ At(new, s).type = At(input, s).type
               /\ At(new, s).limits = At(input, s).limits
               /\ new[s[1]].id = input[s[1]].id
    BY <2>1, AppliedLimited
  <2>. HIDE DEF new
  <2>7. Limited' /\ Divisible'
    <3>1. Limited /\ \A s \in Slots(input) : At(input, s).type = "int" => At(input, s).limits.step # 0
      BY <2>1 DEF CfgInv, Divisible
    <3>. QED
      BY <2>1, <2>3, <2>6, <3>1 DEF Limited, Divisible
  <2>8. Generated(new) = grid
    BY <2>2, <2>3, <2>6 DEF Generated
  <2>9. Fixed(new) = Fixed(input)
    BY <2>2, AppliedFixed DEF new
  <2>. QED
    BY <2>1, <2>3, <2>4, <2>5, <2>7, <2>8, <2>9 DEF CfgInv, OnGrid, GridRoundTrip
<1>4. ASSUME Draw PROVE Kept
  BY <1>4 DEF Draw, CfgInv, Unique, StaysAccepted, Limited, Divisible, OnGrid, GridRoundTrip
<1>5. ASSUME Return PROVE Kept
  BY <1>5 DEF Return, CfgInv, Unique, StaysAccepted, Limited, Divisible, OnGrid, GridRoundTrip
<1>6. ASSUME Baseline PROVE Kept
  <2>1. /\ pc = "baseline" /\ pc' \in {"sigsegv", "stuck", "draw"}
        /\ UNCHANGED <<objective, input, grid>>
    BY <1>6 DEF Baseline
  <2>. QED
    BY <2>1 DEF CfgInv, Unique, StaysAccepted, Limited, Divisible, OnGrid, GridRoundTrip
<1>7. ASSUME Degradation \/ UNCHANGED vars PROVE Kept
  <2>1. UNCHANGED <<pc, objective, input, grid>>
    BY <1>7 DEF Degradation, vars
  <2>. QED
    BY <2>1 DEF CfgInv, Unique, StaysAccepted, Limited, Divisible, OnGrid, GridRoundTrip
<1>. QED
  BY <1>1, <1>2, <1>3, <1>4, <1>5, <1>6, <1>7 DEF Next

\* In every state what is loaded has the module's limits and a value within them,
\* and the grid about to be evaluated is within its maxima.
THEOREM ConfigurationInvariant == Spec => []CfgInv
<1>1. Init => CfgInv
  BY NothingLoaded
  DEF Init, CfgInv, Unique, StaysAccepted, Limited, Divisible, OnGrid, GridRoundTrip
<1>2. CfgInv /\ [Next]_vars => CfgInv'
  BY StepCfg
<1>. QED
  BY <1>1, <1>2, PTL DEF Spec

\* However long a search runs, loadConfig would accept what it wrote.
THEOREM TriedStaysAccepted == Spec => []StaysAccepted
BY ConfigurationInvariant, PTL DEF CfgInv

\* Generating the grid of what was built from a grid gives the grid.
THEOREM GridIsReadBack == Spec => []GridRoundTrip
BY ConfigurationInvariant, PTL DEF CfgInv

\* A search never changes a propriety the file does not mark [O].
THEOREM OnlyMarkedChange == Spec => OthersUntouched
<1>1. CfgInv /\ [Next]_vars => [pc # "cli" => Fixed(input') = Fixed(input)]_vars
  BY StepCfg
<1>. QED
  BY <1>1, ConfigurationInvariant, PTL DEF Spec, OthersUntouched

\* Induction over the natural numbers, for a set.
LEMMA Induction ==
    ASSUME NEW S, 0 \in S, \A n \in Nat : n \in S => n + 1 \in S
    PROVE  Nat \subseteq S
<1>. DEFINE Less == {p \in Nat \X Nat : p[1] < p[2]}
<1>1. Less = OpToRel(<, Nat)
  BY DEF OpToRel
<1>2. IsWellFoundedOn(Less, Nat)
  BY <1>1, NatLessThanWellFounded
<1>3. ASSUME Nat \ S # {} PROVE FALSE
  <2>1. PICK n \in Nat \ S : \A m \in Nat \ S : <<m, n>> \notin Less
    BY <1>2, <1>3, WFMin
  <2>. QED
    BY <2>1, <<n - 1, n>> \in Nat \X Nat
<1>. QED
  BY <1>3

\* Before the first propriety.
Nothing == [props |-> <<>>, skips |-> FALSE]

\* f is the fold of Unmitigated over the sets of the first n proprieties.
Folding(f, n, props) ==
    \A s \in SUBSET (1..n) :
        f[s] = IF s = {} THEN Nothing ELSE Without(f[s \ {Max(s)}], props[Max(s)])

\* There is such a function for every n.
LEMMA FoldingExists ==
    ASSUME NEW props
    PROVE  \A n \in Nat : \E f : Folding(f, n, props)
<1>. DEFINE S == {n \in Nat : \E f : Folding(f, n, props)}
<1>1. 0 \in S
  <2>1. Folding([s \in {{}} |-> Nothing], 0, props)
    BY 1..0 = {} DEF Folding
  <2>. QED
    BY <2>1
<1>2. ASSUME NEW n \in Nat, n \in S PROVE n + 1 \in S
  <2>1. PICK f : Folding(f, n, props)
    BY <1>2
  <2>. DEFINE h == [s \in SUBSET (1..(n + 1)) |->
                      IF n + 1 \in s THEN Without(f[s \ {n + 1}], props[n + 1]) ELSE f[s]]
  <2>2. ASSUME NEW s \in SUBSET (1..(n + 1))
        PROVE  h[s] = IF s = {} THEN Nothing ELSE Without(h[s \ {Max(s)}], props[Max(s)])
    <3>1. \A t \in SUBSET (1..n) : h[t] = f[t]
      OBVIOUS
    <3>2. CASE n + 1 \in s
      <4>1. Max(s) = n + 1
        <5>1. \A x \in s : n + 1 >= x
          OBVIOUS
        <5>2. \A x \in s : (\A y \in s : x >= y) => x = n + 1
          BY <3>2, <5>1
        <5>. QED
          BY <3>2, <5>1, <5>2 DEF Max
      <4>2. s \ {n + 1} \in SUBSET (1..n)
        OBVIOUS
      <4>3. h[s \ {n + 1}] = f[s \ {n + 1}]
        BY <3>1, <4>2
      <4>4. h[s] = Without(f[s \ {n + 1}], props[n + 1]) /\ s # {}
        BY <3>2
      <4>. HIDE DEF h
      <4>. QED
        BY <4>1, <4>3, <4>4
    <3>3. CASE n + 1 \notin s
      <4>1. s \in SUBSET (1..n)
        <5>1. \A x \in s : x \in 1..n
          BY <3>3
        <5>. QED
          BY <5>1
      <4>2. h[s] = f[s] /\ h[s \ {Max(s)}] = f[s \ {Max(s)}]
        BY <3>1, <4>1, s \ {Max(s)} \in SUBSET (1..n)
      <4>. QED
        BY <2>1, <4>1, <4>2 DEF Folding
    <3>. QED
      BY <3>2, <3>3
  <2>. HIDE DEF h
  <2>3. Folding(h, n + 1, props)
    BY <2>2 DEF Folding
  <2>. QED
    BY <2>3
<1>. HIDE DEF S
<1>3. Nat \subseteq S
  BY <1>1, <1>2, Induction
<1>. QED
  BY <1>3 DEF S

\* So Unmitigated goes over the proprieties one after the other.
LEMMA FoldSteps ==
    ASSUME NEW T, NEW props \in Seq(T)
    PROVE  \E f : /\ FoldLeft(Without, Nothing, props) = f[1..Len(props)]
                  /\ f[{}] = Nothing
                  /\ \A n \in 0..(Len(props) - 1) :
                        f[1..(n + 1)] = Without(f[1..n], props[n + 1])
<1>. DEFINE N == Len(props)
            F == CHOOSE f : f = [s \in SUBSET (DOMAIN props) |->
                    IF s = {} THEN Nothing ELSE Without(f[s \ {Max(s)}], props[Max(s)])]
<1>1. DOMAIN props = 1..N /\ N \in Nat
  OBVIOUS
<1>2. FoldLeft(Without, Nothing, props) = F[1..N]
  BY <1>1 DEF FoldLeft, MapThenFoldSet
<1>. HIDE DEF N
<1>3. \E f : f = [s \in SUBSET (DOMAIN props) |->
                    IF s = {} THEN Nothing ELSE Without(f[s \ {Max(s)}], props[Max(s)])]
  <2>1. PICK f : Folding(f, N, props)
    BY <1>1, FoldingExists
  <2>. DEFINE h == [s \in SUBSET (1..N) |-> f[s]]
  <2>2. \A s \in SUBSET (1..N) :
          h[s] = IF s = {} THEN Nothing ELSE Without(h[s \ {Max(s)}], props[Max(s)])
    BY <2>1 DEF Folding
  <2>3. h = [s \in SUBSET (1..N) |-> h[s]]
    OBVIOUS
  <2>. HIDE DEF h
  <2>. QED
    BY <1>1, <2>2, <2>3
<1>4. Folding(F, N, props)
  <2>1. F = [s \in SUBSET (DOMAIN props) |->
               IF s = {} THEN Nothing ELSE Without(F[s \ {Max(s)}], props[Max(s)])]
    BY <1>3
  <2>. HIDE DEF F
  <2>. QED
    BY <1>1, <2>1 DEF Folding
<1>. HIDE DEF F
<1>5. F[{}] = Nothing
  BY <1>4, {} \in SUBSET (1..N) DEF Folding
<1>6. ASSUME NEW n \in 0..(N - 1)
      PROVE  F[1..(n + 1)] = Without(F[1..n], props[n + 1])
  <2>. DEFINE t == 1..(n + 1)
  <2>1. t \in SUBSET (1..N) /\ n + 1 \in t /\ t \ {n + 1} = 1..n
    BY <1>1
  <2>2. \A x \in t : (\A y \in t : x >= y) <=> x = n + 1
    OBVIOUS
  <2>. HIDE DEF t
  <2>3. Max(t) = n + 1
    BY <2>1, <2>2 DEF Max
  <2>4. F[t] = Without(F[t \ {Max(t)}], props[Max(t)])
    BY <1>4, <2>1 DEF Folding
  <2>. QED
    BY <2>1, <2>3, <2>4 DEF t
<1>. QED
  BY <1>2, <1>5, <1>6 DEF N

\* A mitigation that is no boolean is removed, any other one switched off.
Removed(prop) == "M" \in prop.flags /\ prop.type # "bool"
SwitchedOff(prop) == [prop EXCEPT !.value = IF "M" \in prop.flags THEN 0 ELSE @]

\* No mitigation comes after one that is removed.
ApartIn(props) ==
    \A p \in DOMAIN props :
        Removed(props[p]) /\ p + 1 \in DOMAIN props => "M" \notin props[p + 1].flags

\* Then the baseline's system has exactly the others, with the booleans at 0.
LEMMA UnmitigatedIsOff ==
    ASSUME NEW comp, comp = [id |-> comp.id, props |-> comp.props],
           comp.props \in Seq(Range(comp.props)), ApartIn(comp.props),
           \A p \in DOMAIN comp.props :
              comp.props[p] = Prop(comp.props[p].name, comp.props[p].type,
                  comp.props[p].value, comp.props[p].flags, comp.props[p].limits)
    PROVE  Unmitigated(comp).id = comp.id /\ Range(Unmitigated(comp).props) = Off(comp)
<1>. DEFINE props == comp.props
            N == Len(props)
            OffOf(n) == {SwitchedOff(props[p]) : p \in {q \in 1..n : ~Removed(props[q])}}
<1>1. PICK f :
        /\ FoldLeft(Without, Nothing, props) = f[1..N]
        /\ f[{}] = Nothing
        /\ \A n \in 0..(N - 1) : f[1..(n + 1)] = Without(f[1..n], props[n + 1])
  BY FoldSteps
<1>2. N \in Nat /\ DOMAIN props = 1..N
  OBVIOUS
<1>. DEFINE Is(n) == /\ f[1..n] = [props |-> f[1..n].props, skips |-> f[1..n].skips]
                     /\ f[1..n].props \in Seq(Range(f[1..n].props))
                     /\ Range(f[1..n].props) = OffOf(n)
                     /\ f[1..n].skips <=> (n > 0 /\ Removed(props[n]))
            S == {n \in Nat : n <= N => Is(n)}
<1>3. 0 \in S
  <2>1. f[1..0] = Nothing
    BY <1>1, 1..0 = {}
  <2>2. <<>> \in Seq(Range(<<>>)) /\ Range(<<>>) = {}
    BY DEF Range
  <2>3. OffOf(0) = {}
    BY 1..0 = {}
  <2>4. Is(0)
    <3>. DEFINE z == f[1..0]
    <3>1. z = [props |-> <<>>, skips |-> FALSE]
      BY <2>1 DEF Nothing
    <3>. HIDE DEF OffOf, z
    <3>2. z.props = <<>> /\ ~z.skips
      BY <3>1
    <3>3. z = [props |-> z.props, skips |-> z.skips]
      BY <3>1
    <3>4. z.props \in Seq(Range(z.props)) /\ Range(z.props) = OffOf(0)
      BY <2>2, <2>3, <3>2
    <3>5. z.skips <=> (0 > 0 /\ Removed(props[0]))
      BY <3>2
    <3>. QED
      BY <3>3, <3>4, <3>5 DEF z
  <2>. HIDE DEF Is
  <2>. QED
    BY <2>4
<1>4. ASSUME NEW n \in Nat, n \in S PROVE n + 1 \in S
  <2>. SUFFICES ASSUME n + 1 <= N PROVE Is(n + 1)
    <3>. HIDE DEF Is, N
    <3>. QED
      OBVIOUS
  <2>. DEFINE acc == f[1..n]
              x == props[n + 1]
              new == f[1..(n + 1)]
  <2>1. /\ acc = [props |-> acc.props, skips |-> acc.skips]
        /\ acc.props \in Seq(Range(acc.props)) /\ Range(acc.props) = OffOf(n)
        /\ acc.skips <=> (n > 0 /\ Removed(props[n]))
    <3>. HIDE DEF Is, N
    <3>1. Is(n)
      BY <1>2, <1>4
    <3>. QED
      BY <3>1 DEF Is
  <2>2. new = Without(acc, x)
    BY <1>1, <1>2
  <2>3. x = Prop(x.name, x.type, x.value, x.flags, x.limits)
    BY <1>2
  <2>4. acc.skips => "M" \notin x.flags
    <3>1. acc.skips => n \in DOMAIN props /\ n + 1 \in DOMAIN props /\ Removed(props[n])
      BY <1>2, <2>1
    <3>. QED
      BY <3>1 DEF ApartIn
  <2>5. OffOf(n + 1) = IF Removed(x) THEN OffOf(n) ELSE OffOf(n) \cup {SwitchedOff(x)}
    <3>1. 1..(n + 1) = 1..n \cup {n + 1}
      OBVIOUS
    <3>2. {q \in 1..(n + 1) : ~Removed(props[q])} =
            {q \in 1..n : ~Removed(props[q])} \cup (IF Removed(x) THEN {} ELSE {n + 1})
      BY <3>1
    <3>. QED
      BY <3>2
  <2>. HIDE DEF OffOf
  <2>6. ASSUME NEW y
        PROVE  /\ Append(acc.props, y) \in Seq(Range(Append(acc.props, y)))
               /\ Range(Append(acc.props, y)) = Range(acc.props) \cup {y}
    <3>. DEFINE a == acc.props
                b == Append(a, y)
    <3>. HIDE DEF acc
    <3>1. /\ Len(a) \in Nat /\ DOMAIN a = 1..Len(a)
          /\ b = [k \in 1..(Len(a) + 1) |-> IF k = Len(a) + 1 THEN y ELSE a[k]]
      BY <2>1
    <3>2. 1..(Len(a) + 1) = 1..Len(a) \cup {Len(a) + 1}
      BY <3>1
    <3>. HIDE DEF b
    <3>3. /\ DOMAIN b = 1..(Len(a) + 1) /\ b[Len(a) + 1] = y
          /\ \A k \in 1..Len(a) : b[k] = a[k]
      BY <3>1, <3>2
    <3>4. b \in Seq(Range(b))
      <4>. DEFINE R == Range(b)
                  m == Len(a) + 1
      <4>1. b \in [1..m -> R]
        BY <3>1, <3>3 DEF Range
      <4>2. m \in Nat
        BY <3>1
      <4>. HIDE DEF R, m
      <4>3. b \in Seq(R)
        BY <4>1, <4>2
      <4>. QED
        BY <4>3 DEF R
    <3>5. Range(b) = Range(a) \cup {y}
      <4>. HIDE DEF a
      <4>. QED
        BY <3>1, <3>2, <3>3 DEF Range
    <3>. QED
      BY <3>4, <3>5 DEF b
  <2>. DEFINE Kept == /\ new = [props |-> new.props, skips |-> new.skips]
                      /\ new.props \in Seq(Range(new.props)) /\ Range(new.props) = OffOf(n + 1)
                      /\ new.skips <=> (n + 1 > 0 /\ Removed(x))
  <2>. SUFFICES Kept
    OBVIOUS
  <2>. HIDE DEF acc, x, new
  <2>7. CASE "M" \notin x.flags
    <3>1. new = [props |-> Append(acc.props, x), skips |-> FALSE]
      BY <2>2, <2>7 DEF Without
    <3>2. SwitchedOff(x) = x /\ ~Removed(x)
      BY <2>3, <2>7 DEF SwitchedOff, Removed, Prop
    <3>3. new.props \in Seq(Range(new.props)) /\ Range(new.props) = OffOf(n + 1)
      BY <2>1, <2>5, <2>6, <3>1, <3>2
    <3>4. new.skips <=> (n + 1 > 0 /\ Removed(x))
      BY <3>1, <3>2
    <3>. QED
      BY <3>1, <3>3, <3>4
  <2>8. CASE "M" \in x.flags /\ x.type = "bool"
    <3>1. new = [props |-> Append(acc.props, [x EXCEPT !.value = 0]), skips |-> FALSE]
      BY <2>2, <2>4, <2>8 DEF Without
    <3>2. SwitchedOff(x) = [x EXCEPT !.value = 0] /\ ~Removed(x)
      BY <2>8 DEF SwitchedOff, Removed
    <3>3. new.props \in Seq(Range(new.props)) /\ Range(new.props) = OffOf(n + 1)
      BY <2>1, <2>5, <2>6, <3>1, <3>2
    <3>4. new.skips <=> (n + 1 > 0 /\ Removed(x))
      BY <3>1, <3>2
    <3>. QED
      BY <3>1, <3>3, <3>4
  <2>9. CASE "M" \in x.flags /\ x.type # "bool"
    <3>1. new = [props |-> acc.props, skips |-> TRUE]
      BY <2>1, <2>2, <2>4, <2>9 DEF Without
    <3>2. Removed(x)
      BY <2>9 DEF Removed
    <3>3. new.props = acc.props /\ new.skips
      BY <3>1
    <3>4. new.props \in Seq(Range(new.props)) /\ Range(new.props) = OffOf(n + 1)
      BY <2>1, <2>5, <3>2, <3>3
    <3>5. new.skips <=> (n + 1 > 0 /\ Removed(x))
      BY <3>1, <3>2
    <3>. QED
      BY <3>1, <3>3, <3>4, <3>5
  <2>. QED
    BY <2>7, <2>8, <2>9
<1>. HIDE DEF S
<1>5. Nat \subseteq S
  BY <1>3, <1>4, Induction
<1>6. Range(f[1..N].props) = OffOf(N)
  <2>1. N \in S
    BY <1>2, <1>5
  <2>. HIDE DEF N, OffOf
  <2>. QED
    BY <1>2, <2>1 DEF S
<1>7. OffOf(N) = Off(comp)
  <2>1. {SwitchedOff(props[p]) : p \in {q \in DOMAIN props : ~Removed(props[q])}} =
          {SwitchedOff(p) : p \in {q \in Range(props) : ~Removed(q)}}
    BY DEF Range
  <2>2. \A q : ~Removed(q) <=> ("M" \notin q.flags \/ q.type = "bool")
    BY DEF Removed
  <2>. QED
    BY <1>2, <2>1, <2>2 DEF Off, SwitchedOff
<1>8. Unmitigated(comp) = [id |-> comp.id, props |-> f[1..N].props]
  <2>1. Unmitigated(comp) = [comp EXCEPT !.props = f[1..N].props]
    BY <1>1 DEF Unmitigated, Nothing
  <2>. QED
    BY <2>1
<1>9. Unmitigated(comp).id = comp.id /\ Unmitigated(comp).props = f[1..N].props
  BY <1>8
<1>. QED
  BY <1>6, <1>7, <1>9

\* Every file loadConfig accepts has its mitigations apart.
MitigationsApart ==
    \A t \in Texts : AcceptsConfig(t) => \A c \in DOMAIN t : ApartIn(t[c].props)

\* The inductive invariant of the baseline.
BaseInv == /\ CfgInv /\ BaselineOfTried
           /\ \A c \in DOMAIN input : ApartIn(input[c].props)

\* The only place of an id.
LEMMA OnlyPlace ==
    ASSUME CfgInv, NEW id, NEW c \in CompAt(input, id)
    PROVE  CompAt(input, id) = {c}
BY DEF CfgInv, Unique, CompAt

\* computeInterferenceDegradation and computeProprietyDegradation build the victim
\* and the system of the configuration just tried.
LEMMA BaselineRight ==
    ASSUME BaseInv, Baseline
    PROVE  BaselineOfTried'
<1>. SUFFICES ASSUME pc' \in {"draw", "stuck"}, Comparable(input)'
              PROVE  /\ Len(built') = 2
                     /\ \A c \in CompAt(input, Victim) : built'[2] = input[c]
                     /\ \A c \in CompAt(input, System) :
                          /\ built'[1].id = System
                          /\ Range(built'[1].props) = IF objective = "inter"
                                                THEN Range(input[c].props) ELSE Off(input[c])
  BY DEF Baseline, BaselineOfTried
<1>1. /\ UNCHANGED <<objective, input>> /\ objective \in {"inter", "propriety"}
      /\ built' = IF objective = "inter" THEN Isolated(input) ELSE Modified(Clone(input))
  BY DEF Baseline, BaseInv, CfgInv
<1>2. Comparable(input)
  BY <1>1 DEF Comparable
<1>3. CASE objective = "inter"
  <2>1. CompAt(input, System) # {} /\ CompAt(input, Victim) # {}
    BY <1>2, <1>3 DEF Comparable
  <2>2. PICK v \in CompAt(input, Victim), y \in CompAt(input, System) : TRUE
    BY <2>1
  <2>3. CompAt(input, Victim) = {v} /\ CompAt(input, System) = {y}
    BY <2>2, OnlyPlace DEF BaseInv
  <2>4. built' = [i \in 1..2 |-> input[CHOOSE c \in IF i = 2 THEN {v} ELSE {y} : TRUE]]
    BY <1>1, <1>3, <2>1, <2>3 DEF Isolated
  <2>5. built'[2] = input[v] /\ built'[1] = input[y] /\ Len(built') = 2
    BY <2>4
  <2>6. input[y].id = System
    BY <2>2 DEF CompAt
  <2>. QED
    BY <1>3, <2>3, <2>5, <2>6
<1>4. CASE objective = "propriety"
  <2>1. CompAt(Clone(input), System) # {} /\ CompAt(Clone(input), Victim) # {}
    BY <1>2, <1>4 DEF Comparable
  <2>2. \A id : \A c \in CompAt(Clone(input), id) :
           c \in CompAt(input, id) /\ Clone(input)[c] = input[c]
    BY DEF CompAt, Clone
  <2>3. PICK v \in CompAt(Clone(input), Victim), y \in CompAt(Clone(input), System) : TRUE
    BY <2>1
  <2>4. CompAt(input, Victim) = {v} /\ CompAt(input, System) = {y}
    BY <2>2, <2>3, OnlyPlace DEF BaseInv
  <2>5. CompAt(Clone(input), Victim) = {v} /\ CompAt(Clone(input), System) = {y}
    BY <2>2, <2>3, <2>4
  <2>6. built' = [i \in 1..2 |-> IF i = 1 THEN Unmitigated(Clone(input)[y]) ELSE Clone(input)[v]]
    BY <1>1, <1>4, <2>5 DEF Modified
  <2>7. Len(built') = 2 /\ built'[1] = Unmitigated(input[y]) /\ built'[2] = input[v]
    BY <2>2, <2>3, <2>6
  <2>8. y \in DOMAIN input /\ input[y].id = System
    BY <2>2, <2>3 DEF CompAt
  <2>9. /\ Unmitigated(input[y]).id = System
        /\ Range(Unmitigated(input[y]).props) = Off(input[y])
    <3>1. /\ input[y] = [id |-> input[y].id, props |-> input[y].props]
          /\ input[y].props \in Seq(Range(input[y].props))
          /\ \A p \in DOMAIN input[y].props :
                input[y].props[p] = Prop(input[y].props[p].name, input[y].props[p].type,
                  input[y].props[p].value, input[y].props[p].flags, input[y].props[p].limits)
      BY <2>8 DEF BaseInv, CfgInv, IsConfig
    <3>2. ApartIn(input[y].props)
      BY <2>8 DEF BaseInv
    <3>. QED
      BY <2>8, <3>1, <3>2, UnmitigatedIsOff
  <2>. QED
    BY <1>4, <2>4, <2>7, <2>9
<1>. QED
  BY <1>1, <1>3, <1>4

\* No other step reaches a state the property is about.
LEMMA BaseStep ==
    ASSUME MitigationsApart, BaseInv, [Next]_vars
    PROVE  BaseInv'
<1>. DEFINE Apart == \A c \in DOMAIN input : ApartIn(input[c].props)
<1>1. CfgInv'
  BY StepCfg DEF BaseInv
<1>2. BaselineOfTried'
  <2>1. CASE Baseline
    BY <2>1, BaselineRight
  <2>2. CASE UNCHANGED vars
    BY <2>2 DEF BaseInv, vars, BaselineOfTried, Comparable
  <2>3. CASE Next /\ ~Baseline
    <3>1. pc' \notin {"draw", "stuck"}
      BY <2>3 DEF Next, Load, Optimize, Evaluate, Draw, Return, Degradation
    <3>. QED
      BY <3>1 DEF BaselineOfTried
  <2>. QED
    BY <2>1, <2>2, <2>3
<1>3. Apart'
  <2>1. CASE UNCHANGED input
    BY <2>1 DEF BaseInv
  <2>2. CASE Evaluate
    <3>1. /\ IsConfig(input) /\ DOMAIN grid = Slots(input) /\ input' = Applied(input, grid)
      BY <2>2, GridValue DEF BaseInv, CfgInv, Evaluate
    <3>2. DOMAIN input' = DOMAIN input
      BY <3>1, AppliedShape
    <3>3. ASSUME NEW c \in DOMAIN input PROVE ApartIn(input'[c].props)
      <4>1. DOMAIN input'[c].props = DOMAIN input[c].props
        BY <3>1, AppliedShape
      <4>2. \A p \in DOMAIN input[c].props :
              /\ input'[c].props[p].flags = input[c].props[p].flags
              /\ input'[c].props[p].type = input[c].props[p].type
        BY <3>1, AppliedProp
      <4>3. ApartIn(input[c].props)
        BY DEF BaseInv
      <4>. QED
        BY <4>1, <4>2, <4>3 DEF ApartIn, Removed
    <3>. QED
      BY <3>2, <3>3
  <2>3. ASSUME NEW t \in Texts, Load(t) PROVE Apart'
    <3>1. CASE AcceptsConfig(t) /\ input' = [c \in DOMAIN t |-> WithLimits(t[c])]
      <4>1. ASSUME NEW c \in DOMAIN t PROVE ApartIn(WithLimits(t[c]).props)
        <5>1. /\ DOMAIN WithLimits(t[c]).props = DOMAIN t[c].props
              /\ \A p \in DOMAIN t[c].props :
                   /\ WithLimits(t[c]).props[p].flags = t[c].props[p].flags
                   /\ WithLimits(t[c]).props[p].type = t[c].props[p].type
          BY WithLimitsIs
        <5>2. ApartIn(t[c].props)
          BY <3>1 DEF MitigationsApart
        <5>. QED
          BY <5>1, <5>2 DEF ApartIn, Removed
      <4>. QED
        BY <3>1, <4>1
    <3>2. CASE input' = NoConfig
      BY <3>2, NothingLoaded
    <3>. QED
      BY <2>3, <3>1, <3>2 DEF Load
  <2>. QED
    BY <2>1, <2>2, <2>3 DEF Next, Optimize, Baseline, Draw, Return, Degradation, vars
<1>. QED
  BY <1>1, <1>2, <1>3 DEF BaseInv

\* A degradation is relative to what was just tried, with its mitigations off, if
\* no mitigation follows one that is removed (the loop that removes them skips it).
THEOREM BaselineIsOfTried == MitigationsApart => (Spec => []BaselineOfTried)
<1>. SUFFICES ASSUME MitigationsApart PROVE Spec => []BaselineOfTried
  OBVIOUS
<1>1. Init => BaseInv
  <2>. SUFFICES ASSUME Init PROVE BaseInv
    OBVIOUS
  <2>1. CfgInv
    BY NothingLoaded
    DEF Init, CfgInv, Unique, StaysAccepted, Limited, Divisible, OnGrid, GridRoundTrip
  <2>2. BaselineOfTried
    BY DEF Init, BaselineOfTried
  <2>3. \A c \in DOMAIN input : ApartIn(input[c].props)
    BY NothingLoaded DEF Init
  <2>. QED
    BY <2>1, <2>2, <2>3 DEF BaseInv
<1>2. BaseInv /\ [Next]_vars => BaseInv'
  BY BaseStep
<1>3. BaseInv => BaselineOfTried
  BY DEF BaseInv
<1>. QED
  BY <1>1, <1>2, <1>3, PTL DEF Spec
==============================================================================
