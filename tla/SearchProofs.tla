----------------------------- MODULE SearchProofs -----------------------------
(***************************************************************************)
(* For every grid, objective and number of iterations, and for each of the  *)
(* three algorithms: what a search returns is the best it has measured, and *)
(* randomSearchNR measures no configuration twice.                          *)
(***************************************************************************)
EXTENDS Search, TLAPS

\* Noise stays in the range of its propriety, wherever the draw lands.
LEMMA MutatedInGrids ==
    ASSUME SearchAssumption, GridAssumption, NEW draw \in Grids, kept \in Points
    PROVE  Mutated(draw) \in Grids
<1>1. \A p \in 1..Params : MaxOf[p] \in Nat
  BY DEF SearchAssumption, GridAssumption
<1>2. kept.grid \in Grids
  BY DEF Points
<1>3. ASSUME NEW p \in 1..Params
      PROVE  Noise(p, kept.grid, draw[p]) \in 0..MaxOf[p]
  <2>1. MaxOf[p] \in Nat
    BY <1>1
  <2>2. kept.grid[p] \in 0..MaxOf[p] /\ draw[p] \in 0..MaxOf[p]
    BY <1>2 DEF Grids
  <2>. DEFINE m == MaxOf[p]
              n == kept.grid[p] + draw[p] + (3 * m) \div 2
  <2>3. n \in Int
    <3>. HIDE DEF m
    <3>1. m \in Nat /\ kept.grid[p] \in Int /\ draw[p] \in Int
      BY <2>1, <2>2 DEF m
    <3>2. \A k \in Nat : (3 * k) \div 2 \in Int
      OBVIOUS
    <3>. QED
      BY <3>1, <3>2
  <2>4. n % (m + 1) \in 0..m
    <3>1. \A k \in Int, l \in Nat : k % (l + 1) \in 0..l
      OBVIOUS
    <3>. HIDE DEF n
    <3>. QED
      BY <2>1, <2>3, <3>1
  <2>. QED
    BY <2>4 DEF Noise
<1>4. [p \in 1..Params |-> Noise(p, kept.grid, draw[p])] \in Grids
  BY <1>3 DEF Grids
<1>. QED
  BY <1>4 DEF Mutated

\* The configuration of the user is the best so far, and its hash the first.
LEMMA InitInv ==
    ASSUME SearchAssumption, GridAssumption, Init
    PROVE  SearchInv
<1>1. PICK g \in Grids, v \in Values :
        /\ cur = g /\ kept = Point(g, v) /\ best = Point(g, v)
        /\ keys = <<Key(g)>> /\ measured = <<Point(g, v)>>
        /\ result = <<Point(g, v)>> /\ algo \in Algos
        /\ pc \in {"mutate", "done"}
  BY DEF Init
<1>2. Point(g, v) \in Points /\ Point(g, v).grid = g /\ Point(g, v).value = v
  BY DEF Point, Points, SearchAssumption, GridAssumption
<1>3. measured[1] = Point(g, v) /\ Len(measured) = 1 /\ DOMAIN measured = {1}
  BY <1>1
<1>4. keys[1] = Key(g) /\ Len(keys) = 1 /\ DOMAIN keys = {1}
  BY <1>1
<1>5. TypeOK
  BY <1>1, <1>2 DEF TypeOK, SearchAssumption, GridAssumption
<1>6. BestOfAll
  BY <1>1, <1>2, <1>3 DEF BestOfAll, Points
<1>7. KeptBelowBest
  BY <1>1, <1>2 DEF KeptBelowBest, Points
<1>8. KeysOfMeasured
  BY <1>1, <1>2, <1>3, <1>4 DEF KeysOfMeasured
<1>9. KeysDiffer
  BY <1>4 DEF KeysDiffer
<1>10. HistoryBelow
  <2>1. /\ Len(result) = 1 /\ DOMAIN result = {1} /\ result[1] = Point(g, v)
        /\ result \in Seq(Points)
    BY <1>1, <1>2
  <2>2. v \in Int /\ 1..1 = {1}
    BY DEF SearchAssumption, GridAssumption
  <2>3. measured[1].value = v /\ result[1].value = v
    BY <1>2, <1>3, <2>1
  <2>. QED
    BY <1>1, <1>3, <2>1, <2>2, <2>3 DEF HistoryBelow
<1>. QED
  BY <1>5, <1>6, <1>7, <1>8, <1>9, <1>10 DEF SearchInv

\* A draw is refused and nothing but cur changes, or its new hash is appended.
LEMMA MutateInv ==
    ASSUME SearchAssumption, GridAssumption, SearchInv, NEW draw \in Grids, Mutate(draw)
    PROVE  SearchInv'
<1>. USE DEF SearchInv
<1>1. cur' \in Grids
  BY MutatedInGrids DEF Mutate, TypeOK
<1>2. UNCHANGED <<algo, kept, best, result, measured>>
  BY DEF Mutate
<1>3. BestOfAll' /\ KeptBelowBest' /\ HistoryBelow'
  BY <1>2 DEF BestOfAll, KeptBelowBest, HistoryBelow
<1>4. CASE Repeats(cur')
  <2>1. UNCHANGED <<pc, keys>> /\ pc # "measure"
    BY <1>4 DEF Mutate
  <2>2. TypeOK'
    BY <1>1, <1>2, <2>1 DEF TypeOK
  <2>3. KeysOfMeasured' /\ KeysDiffer'
    BY <1>2, <2>1 DEF KeysOfMeasured, KeysDiffer
  <2>. QED
    BY <1>3, <2>2, <2>3
<1>5. CASE ~Repeats(cur')
  <2>1. /\ pc # "measure" /\ pc' = "measure"
        /\ keys' = Append(keys, Key(cur'))
    BY <1>5 DEF Mutate
  <2>2. Key(cur') \in {Key(g) : g \in Grids}
    BY <1>1
  <2>3. /\ Len(keys) = Len(measured) /\ Len(measured) \in Nat
        /\ DOMAIN measured = 1..Len(measured)
        /\ DOMAIN keys = 1..Len(measured)
        /\ Len(keys') = Len(measured) + 1
        /\ DOMAIN keys' = 1..(Len(measured) + 1)
        /\ keys'[Len(measured) + 1] = Key(cur')
        /\ \A i \in 1..Len(measured) : keys'[i] = keys[i]
    BY <2>1, <2>2 DEF TypeOK, KeysOfMeasured
  <2>4. TypeOK'
    BY <1>1, <1>2, <2>1, <2>2 DEF TypeOK
  <2>5. KeysOfMeasured'
    BY <1>2, <2>1, <2>3 DEF KeysOfMeasured
  <2>6. KeysDiffer'
    <3>1. algo = "nr" => \A i \in 1..Len(measured) : keys[i] # Key(cur')
      BY <1>5, <2>3 DEF Repeats
    <3>. QED
      BY <1>2, <2>3, <3>1 DEF KeysDiffer
  <2>. QED
    BY <1>3, <2>4, <2>5, <2>6
<1>. QED
  BY <1>4, <1>5

\* A value that is not moved to is no better than where the search stands, so
\* no better than its best.
LEMMA MeasureInv ==
    ASSUME SearchAssumption, GridAssumption, SearchInv, NEW value \in Values, Measure(value)
    PROVE  SearchInv'
<1>. USE DEF SearchInv
<1>. DEFINE p == Point(cur, value)
<1>1. value \in Int /\ p \in Points /\ p.value = value /\ p.grid = cur
  BY DEF SearchAssumption, GridAssumption, TypeOK, Point, Points
<1>2. /\ kept \in Points /\ kept.value \in Int
      /\ best \in Points /\ best.value \in Int
      /\ kept.value <= best.value
  BY DEF TypeOK, Points, KeptBelowBest
<1>3. /\ pc = "measure" /\ pc' \in {"mutate", "done"}
      /\ measured' = Append(measured, p)
      /\ result' = Append(result, best')
      /\ UNCHANGED <<algo, cur, keys>>
  BY DEF Measure
<1>4. /\ kept' \in {kept, p} /\ best' \in {best, p}
      /\ kept'.value <= best'.value
      /\ best.value <= best'.value /\ value <= best'.value
  <2>1. CASE kept' = p /\ best' = IF Better(value) THEN p ELSE best
    BY <1>1, <1>2, <2>1 DEF Better
  <2>2. CASE MayStay(value) /\ UNCHANGED <<kept, best>>
    BY <1>1, <1>2, <2>2 DEF MayStay
  <2>. QED
    BY <2>1, <2>2 DEF Measure
<1>5. /\ Len(measured) \in Nat /\ DOMAIN measured = 1..Len(measured)
      /\ Len(measured') = Len(measured) + 1
      /\ DOMAIN measured' = 1..(Len(measured) + 1)
      /\ measured'[Len(measured) + 1] = p
      /\ \A i \in 1..Len(measured) : measured'[i] = measured[i]
      /\ \A i \in 1..Len(measured) : measured[i].value \in Int
  <2>1. measured \in Seq(Points)
    BY DEF TypeOK
  <2>. HIDE DEF p
  <2>2. \A i \in DOMAIN measured : measured[i] \in Points
    BY <2>1
  <2>3. \A q \in Points : q.value \in Int
    BY DEF Points
  <2>4. \A i \in DOMAIN measured : measured[i].value \in Int
    BY <2>2, <2>3
  <2>. QED
    BY <1>1, <1>3, <2>1, <2>4
<1>6. TypeOK'
  <2>. HIDE DEF p
  <2>1. measured' \in Seq(Points) /\ measured' # <<>>
    BY <1>1, <1>3, <1>5 DEF TypeOK
  <2>. QED
    BY <1>1, <1>2, <1>3, <1>4, <2>1 DEF TypeOK
<1>7. BestOfAll'
  <2>1. \E i \in DOMAIN measured' : measured'[i] = best'
    BY <1>4, <1>5 DEF BestOfAll
  <2>2. \A i \in DOMAIN measured' : measured'[i].value <= best'.value
    BY <1>1, <1>2, <1>4, <1>5 DEF BestOfAll
  <2>. QED
    BY <2>1, <2>2 DEF BestOfAll
<1>8. KeptBelowBest'
  BY <1>4 DEF KeptBelowBest
<1>9. KeysOfMeasured' /\ KeysDiffer'
  BY <1>1, <1>3, <1>5 DEF KeysOfMeasured, KeysDiffer
<1>10. HistoryBelow'
  <2>. DEFINE n == Len(measured)
  <2>1. /\ n \in Nat /\ Len(result) = n /\ DOMAIN result = 1..n /\ result[n] = best
        /\ result \in Seq(Points)
    BY <1>5 DEF HistoryBelow
  <2>2. best' \in Points /\ best'.value \in Int
    BY <1>1, <1>2, <1>4
  <2>3. /\ result' \in Seq(Points) /\ Len(result') = n + 1
        /\ DOMAIN result' = 1..(n + 1) /\ result'[n + 1] = best'
        /\ \A i \in 1..n : result'[i] = result[i]
    BY <1>3, <2>1, <2>2
  <2>. HIDE DEF p
  <2>4. ASSUME NEW i \in 1..n
        PROVE  /\ \A k \in 1..i : measured'[k].value <= result'[i].value
               /\ \E k \in 1..i : measured'[k].value = result'[i].value
    <3>1. 1..i \subseteq 1..n
      BY <2>1
    <3>. QED
      BY <1>5, <2>1, <2>3, <3>1 DEF HistoryBelow
  <2>5. \A k \in 1..(n + 1) : measured'[k].value <= best'.value
    BY <1>7, <1>5 DEF BestOfAll
  <2>6. \E k \in 1..(n + 1) : measured'[k].value = best'.value
    BY <1>7, <1>5 DEF BestOfAll
  <2>7. \A i \in 1..(n + 1) : i \in 1..n \/ i = n + 1
    BY <2>1
  <2>. QED
    BY <1>5, <2>3, <2>4, <2>5, <2>6, <2>7 DEF HistoryBelow
<1>. QED
  BY <1>6, <1>7, <1>8, <1>9, <1>10

LEMMA StepInv == SearchAssumption /\ GridAssumption /\ SearchInv /\ [Next]_vars => SearchInv'
<1>. SUFFICES ASSUME SearchAssumption, GridAssumption, SearchInv, [Next]_vars PROVE SearchInv'
  OBVIOUS
<1>1. CASE \E g \in Grids : Mutate(g)
  BY <1>1, MutateInv
<1>2. CASE \E v \in Values : Measure(v)
  BY <1>2, MeasureInv
<1>3. CASE UNCHANGED vars
  BY <1>3 DEF vars, SearchInv, TypeOK, BestOfAll, KeptBelowBest,
              KeysOfMeasured, KeysDiffer, HistoryBelow
<1>. QED
  BY <1>1, <1>2, <1>3 DEF Next

\* The inductive invariant, for every grid and every objective.
THEOREM SearchInvariant == Spec => []SearchInv
<1>1. Init => SearchInv
  BY InitInv, SearchAssumption, GridAssumption
<1>2. SearchInv /\ [Next]_vars => SearchInv'
  BY StepInv, SearchAssumption, GridAssumption
<1>. QED
  BY <1>1, <1>2, PTL DEF Spec

\* A search returns the best of what it has measured, with a configuration
\* that gave it: the comparisons of the three loops of optimization.c.
THEOREM SearchReturnsBest == Spec => []BestOfAll
<1>1. SearchInv => BestOfAll
  BY DEF SearchInv
<1>. QED
  BY <1>1, SearchInvariant, PTL

\* randomSearchNR does not build and run a configuration it has measured: its
\* hashes differ, and equal configurations would have equal ones.
THEOREM SearchNeverRepeats == Spec => []NeverTwice
<1>1. SearchInv => NeverTwice
  <2>. SUFFICES ASSUME SearchInv, algo = "nr",
                       NEW i \in DOMAIN measured, NEW k \in DOMAIN measured,
                       measured[i].grid = measured[k].grid
                PROVE  i = k
    BY DEF NeverTwice
  <2>1. keys[i] = keys[k]
    BY DEF SearchInv, KeysOfMeasured
  <2>2. i \in DOMAIN keys /\ k \in DOMAIN keys
    BY DEF SearchInv, TypeOK, KeysOfMeasured
  <2>. QED
    BY <2>1, <2>2 DEF SearchInv, KeysDiffer
<1>. QED
  BY <1>1, SearchInvariant, PTL

\* Each entry of the history that optimizeConfig saves is the best value measured
\* up to that iteration, in all three searches.
THEOREM HistoryIsOfBest == Spec => []HistoryOfBest
<1>1. SearchInv => HistoryOfBest
  <2>. SUFFICES ASSUME SearchInv, NEW i \in DOMAIN result
                PROVE  result[i].value = Max({measured[k].value : k \in 1..i})
    BY DEF HistoryOfBest
  <2>. DEFINE S == {measured[k].value : k \in 1..i}
  <2>1. /\ \A k \in 1..i : measured[k].value <= result[i].value
        /\ \E k \in 1..i : measured[k].value = result[i].value
    BY DEF SearchInv, HistoryBelow
  <2>2. result[i].value \in Int
    <3>1. result[i] \in Points
      BY DEF SearchInv, HistoryBelow
    <3>. QED
      BY <3>1 DEF Points
  <2>3. \A k \in 1..i : measured[k].value \in Int
    <3>1. 1..i \subseteq DOMAIN measured
      BY DEF SearchInv, HistoryBelow, TypeOK
    <3>2. \A k \in DOMAIN measured : measured[k] \in Points
      BY DEF SearchInv, TypeOK
    <3>. QED
      BY <3>1, <3>2 DEF Points
  <2>4. result[i].value \in S /\ \A y \in S : y \in Int /\ y <= result[i].value
    BY <2>1, <2>3
  <2>. HIDE DEF S
  <2>5. \A x \in S : (\A y \in S : x >= y) => x = result[i].value
    BY <2>2, <2>4
  <2>6. Max(S) \in S /\ \A y \in S : Max(S) >= y
    BY <2>2, <2>4 DEF Max
  <2>. QED
    BY <2>5, <2>6 DEF S
<1>. QED
  BY <1>1, SearchInvariant, PTL
==============================================================================
