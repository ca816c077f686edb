--------------------------------- MODULE Search ---------------------------------
(***************************************************************************)
(* The searches of optimization.c over the grid of optimizable proprieties: *)
(* randomSearch ("rs"), randomSearchNR ("nr", never the same configuration  *)
(* twice) and simulatedAnnealing ("sa").  The objective is what the board   *)
(* measures for a configuration, so it may differ from one time to the next.*)
(***************************************************************************)
EXTENDS ParameterGrid

CONSTANTS
    Algos,       \* which of "rs", "nr" and "sa" the user may choose
    Values,      \* values of the objective
    Iterations   \* what the user asks for; optimizeConfig refuses 0

ASSUME SearchAssumption ==
    /\ Algos \subseteq {"rs", "nr", "sa"}
    /\ Values \subseteq Int /\ Iterations \in Nat \ {0}

VARIABLES
    algo,      \* algorithm chosen in optimizationTUI
    pc,        \* "mutate" or "measure" an iteration, "done" with all
    cur,       \* cur_params; temp_param while simulatedAnnealing measures
    kept,      \* simulatedAnnealing: cur_params and cur
    best,      \* best_params and best
    keys,      \* randomSearchNR: what was hashed, by iteration
    result,    \* garray_opt_result
    measured   \* history: each configuration measured, and its objective

vars == <<algo, pc, cur, kept, best, keys, result, measured>>

Point(g, v) == [grid |-> g, value |-> v]

------------------------------------------------------------------------------
\* Mutant: the number of configurations does not limit the iterations.
Limiter_None == Iterations

\* iterations_limiter
Limiter ==
    IF algo = "nr" /\ NumMaxStates < Iterations THEN NumMaxStates ELSE Iterations

------------------------------------------------------------------------------
\* The configuration of the user is measured before the loop.
Init ==
    \E g \in Grids, v \in Values :
        /\ algo \in Algos
        /\ cur = g
        /\ kept = Point(g, v) /\ best = Point(g, v)
        /\ keys = <<Key(g)>>
        /\ result = <<Point(g, v)>> /\ measured = <<Point(g, v)>>
        /\ pc = IF Limiter > 1 THEN "mutate" ELSE "done"

\* Mutant: the noise wraps one too late.
Noise_OffByOne(p, g, r) == (g[p] + r + (3 * MaxOf[p]) \div 2) % (MaxOf[p] + 2)

\* simulatedAnnealing adds a binomial noise, centred on twice the range, and wraps.
Noise(p, g, r) == (g[p] + r + (3 * MaxOf[p]) \div 2) % (MaxOf[p] + 1)

\* The configuration that a draw of random numbers gives.
Mutated(draw) ==
    IF algo = "sa" THEN [p \in 1..Params |-> Noise(p, kept.grid, draw[p])]
                   ELSE draw

\* Mutant: the configuration measured first is not remembered.
Repeats_SkipsFirst(g) ==
    algo = "nr" /\ \E i \in 2..Len(keys) : keys[i] = Key(g)

\* randomSearchNR draws again when the hash is one it has.
Repeats(g) == algo = "nr" /\ \E i \in DOMAIN keys : keys[i] = Key(g)

Mutate(draw) ==
    /\ pc = "mutate"
    /\ cur' = Mutated(draw)
    /\ IF Repeats(cur')
       THEN UNCHANGED <<pc, keys>>
       ELSE pc' = "measure" /\ keys' = Append(keys, Key(cur'))
    /\ UNCHANGED <<algo, kept, best, result, measured>>

\* simulatedAnnealing moves if the value is better, or if dec1 > 1 - value/cur
\* with dec1 random in (0, 1]; IEEE arithmetic decides at cur = 0.
MayMove(value) ==
    \/ algo # "sa" \/ value > kept.value
    \/ kept.value < 0 \/ (kept.value > 0 /\ value > 0)
MayStay(value) ==
    /\ algo = "sa"
    /\ value <= kept.value
    /\ kept.value = 0 \/ (kept.value > 0 /\ value < kept.value)

\* Mutant: the last configuration that was accepted is taken for the best.
Better_Last(value) == TRUE

Better(value) == value > best.value

Continues(n) == n < Limiter

Measure(value) ==
    /\ pc = "measure"
    /\ measured' = Append(measured, Point(cur, value))
    /\ \/ /\ MayMove(value)
          /\ kept' = Point(cur, value)
          /\ best' = IF Better(value) THEN Point(cur, value) ELSE best
       \/ MayStay(value) /\ UNCHANGED <<kept, best>>
    /\ result' = Append(result, best')
    /\ pc' = IF Continues(Len(result')) THEN "mutate" ELSE "done"
    /\ UNCHANGED <<algo, cur, keys>>

Next == (\E g \in Grids : Mutate(g)) \/ (\E v \in Values : Measure(v))

Spec == Init /\ [][Next]_vars

------------------------------------------------------------------------------
Points == [grid : Grids, value : Int]

\* Types; the wrapped noise of simulatedAnnealing is a legal index into the
\* range of the propriety.
TypeOK ==
    /\ algo \in {"rs", "nr", "sa"}
    /\ pc \in {"mutate", "measure", "done"}
    /\ cur \in Grids /\ kept \in Points /\ best \in Points
    /\ measured \in Seq(Points) /\ measured # <<>>
    /\ keys \in Seq({Key(g) : g \in Grids})

\* What a search returns is the best of all it has measured, together with a
\* configuration that gave it; a simulatedAnnealing that has moved away from
\* its best has not forgotten it.
BestOfAll ==
    /\ \E i \in DOMAIN measured : measured[i] = best
    /\ \A i \in DOMAIN measured : measured[i].value <= best.value

\* The saved history is the best so far, for each iteration.
HistoryOfBest ==
    \A i \in DOMAIN result :
        result[i].value = Max({measured[k].value : k \in 1..i})

\* randomSearchNR never spends a build and a run on a configuration again.
NeverTwice ==
    algo = "nr" =>
        \A i, k \in DOMAIN measured : measured[i].grid = measured[k].grid => i = k

\* The strengthening that makes BestOfAll, HistoryOfBest and NeverTwice inductive:
\* simulated annealing never stands on something better than its best, the hashes
\* are those of the configurations measured, all different, and the history is as
\* long as the search and ends in its best.
KeptBelowBest == kept.value <= best.value
KeysOfMeasured ==
    /\ Len(keys) = IF pc = "measure" THEN Len(measured) + 1 ELSE Len(measured)
    /\ \A i \in DOMAIN measured : keys[i] = Key(measured[i].grid)
    /\ pc = "measure" => keys[Len(measured) + 1] = Key(cur)
KeysDiffer ==
    algo = "nr" => \A i, k \in DOMAIN keys : keys[i] = keys[k] => i = k
HistoryBelow ==
    /\ Len(result) = Len(measured) /\ result \in Seq(Points)
    /\ result[Len(result)] = best
    /\ \A i \in DOMAIN result :
          /\ \A k \in 1..i : measured[k].value <= result[i].value
          /\ \E k \in 1..i : measured[k].value = result[i].value
SearchInv ==
    /\ TypeOK /\ BestOfAll /\ KeptBelowBest
    /\ KeysOfMeasured /\ KeysDiffer /\ HistoryBelow

\* randomSearchNR draws until it gets a configuration it has not hashed.  There is one
\* left as long as it draws: the limiter is right, and the loop of optimization.c:745 can
\* end, unless two configurations are written alike (1 10 and 11 0), which the limiter
\* counts as two.
DrawsLeft ==
    pc = "mutate" =>
        \/ \E g \in Grids : ~Repeats(g)
        \/ \E g, h \in Grids : g # h /\ Key(g) = Key(h)

\* optimization.c:698: "every iteration we get for sure a new configuration",
\* "the maximum different configurations one can have" being the product of the
\* ranges: a draw that is refused was measured before.
RefusedWasMeasured ==
    [][pc = "mutate" /\ pc' = "mutate" =>
          \E i \in DOMAIN measured : measured[i].grid = cur']_vars
==============================================================================
