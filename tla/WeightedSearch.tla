---------------------------- MODULE WeightedSearch ----------------------------
(***************************************************************************)
(* randomSearchNRWeighted of optimization.c with its objective,             *)
(* objectiveMinimizeMemMonitoring, over the `optimize` commands of a        *)
(* session.  A configuration is judged by two metrics: the degradation its  *)
(* attackers cause (1) and the overhead of memory monitoring (2).  Each is  *)
(* divided by its running mean, which the objective keeps in static         *)
(* variables from one evaluation, and one command, to the next.             *)
(*                                                                         *)
(* Metrics are integers, in tenths; a quotient is a reduced fraction        *)
(* <<n, d>>, where the code computes in floating point.                     *)
(***************************************************************************)
EXTENDS ParameterGrid

CONSTANTS
    Readings,        \* what the board may yield for the two metrics
    Low, High,       \* MIN_DEG, MIN_OVERHEAD; MAX_DEG, MAX_OVERHEAD
    Weight,          \* WEIGHT1, WEIGHT2
    MaxEvaluations   \* bound: evaluations in a session

Metrics == 1..2

ASSUME WeightedAssumption ==
    /\ Readings \subseteq [Metrics -> Nat]
    /\ Low \in [Metrics -> Nat \ {0}] /\ High \in [Metrics -> Nat \ {0}]
    /\ Weight \in [Metrics -> Nat \ {0}]
    /\ MaxEvaluations \in Nat

VARIABLES
    pc,          \* "idle", or "mutate", "evaluate", "end" of a search
    limit,       \* iterations_limiter
    cur,         \* cur_params
    keys,        \* hashes, by iteration
    num, sum,    \* static num1, num2, and avg1 * num1, avg2 * num2
    iso,         \* configuration whose victim garray_result_iso is of
    first,       \* first_run
    deg, avg,    \* deg1, deg2 and avg1, avg2 of the search
    abs,         \* abs_deg1, abs_deg2
    best,        \* best_params
    result,      \* garray_opt_result
    accepted,    \* history: the evaluations of the session that gave a result
    searches,    \* history: number of `optimize` commands
    spent        \* history: evaluations they announced

statics == <<num, sum>>
reference == <<first, deg, avg, abs, best>>
session == <<searches, spent>>
vars == <<pc, limit, cur, keys, statics, iso, reference, result, accepted,
          session>>

NoGrid == <<>>
NoMetrics == [k \in Metrics |-> 0]

------------------------------------------------------------------------------
(* Fractions.                                                               *)

Gcd[p \in Nat \X Nat] == IF p[2] = 0 THEN p[1] ELSE Gcd[<<p[2], p[1] % p[2]>>]

Fraction(n, d) == LET g == Gcd[<<n, d>>] IN <<n \div g, d \div g>>
Times(p, q) == Fraction(p[1] * q[1], p[2] * q[2])
Over(p, q) == Fraction(p[1] * q[2], p[2] * q[1])
Plus(p, q) == Fraction(p[1] * q[2] + q[1] * p[2], p[2] * q[2])
Less(p, q) == p[1] * q[2] < q[1] * p[2]

\* What is minimized: the weighted sum of the two metrics, -best in the code.
Weighted(d) == Plus(Times(<<Weight[1], 1>>, d[1]), Times(<<Weight[2], 1>>, d[2]))

------------------------------------------------------------------------------
Init ==
    /\ pc = "idle" /\ limit = 0 /\ cur \in Grids /\ keys = <<>>
    /\ num = NoMetrics /\ sum = NoMetrics
    /\ iso = NoGrid
    /\ first = TRUE /\ abs = NoMetrics /\ best = cur
    /\ deg = [k \in Metrics |-> <<0, 1>>] /\ avg = [k \in Metrics |-> <<0, 1>>]
    /\ result = <<>> /\ accepted = <<>> /\ searches = 0 /\ spent = 0

\* optimizeConfig; the user may have loaded another configuration before.
Begin(g, iterations) ==
    /\ pc = "idle"
    /\ limit' = IF iterations < NumMaxStates THEN iterations ELSE NumMaxStates
    /\ pc' = "mutate" /\ cur' = g /\ best' = g
    /\ keys' = <<>> /\ result' = <<>>
    /\ first' = TRUE /\ abs' = NoMetrics
    /\ deg' = [k \in Metrics |-> <<0, 1>>] /\ avg' = [k \in Metrics |-> <<0, 1>>]
    /\ spent' = spent + limit' /\ spent' <= MaxEvaluations
    /\ searches' = searches + 1
    /\ UNCHANGED <<statics, iso, accepted>>

Repeats(g) == \E i \in DOMAIN keys : keys[i] = Key(g)

\* The first configuration is the user's; the next ones are drawn.
Mutate(g) ==
    /\ pc = "mutate"
    /\ result = <<>> => g = cur
    /\ cur' = g
    /\ IF Repeats(g)
       THEN UNCHANGED <<pc, keys>>
       ELSE pc' = "evaluate" /\ keys' = Append(keys, Key(g))
    /\ UNCHANGED <<limit, statics, iso, reference, result, accepted, session>>

------------------------------------------------------------------------------
(* objectiveMinimizeMemMonitoring, with calculateDegradationNormalized.     *)

\* A metric out of its range, or whose values are spread too far, is rejected.
Accepts(k, x, spread) == x \in Low[k]..High[k] /\ ~spread

\* SKIP: the next entry of the history is the best there is.
Entry == [value |-> Weighted(deg'), abs |-> abs', grid |-> best']

Continues(n) == n < limit

Record ==
    /\ result' = Append(result, Entry)
    /\ pc' = IF Continues(Len(result')) THEN "mutate" ELSE "end"
    /\ UNCHANGED <<limit, cur, keys, session>>

RejectFirst(x, spread) ==
    /\ pc = "evaluate"
    /\ ~Accepts(1, x[1], spread)
    /\ UNCHANGED <<statics, iso, reference, accepted>>
    /\ Record

\* The victim without monitoring is measured once in a search.
Isolated == IF iso = NoGrid THEN cur ELSE iso

\* Mutant: the first mean is committed before the second metric is known.
RejectSecond_Commits(x, spread) ==
    /\ pc = "evaluate"
    /\ Accepts(1, x[1], FALSE) /\ ~Accepts(2, x[2], spread)
    /\ num' = [num EXCEPT ![1] = @ + 1] /\ sum' = [sum EXCEPT ![1] = @ + x[1]]
    /\ iso' = Isolated
    /\ UNCHANGED <<reference, accepted>>
    /\ Record

RejectSecond(x, spread) ==
    /\ pc = "evaluate"
    /\ Accepts(1, x[1], FALSE) /\ ~Accepts(2, x[2], spread)
    /\ iso' = Isolated
    /\ UNCHANGED <<statics, reference, accepted>>
    /\ Record

\* Mutant: the first valid result does not bring its configuration.
Chosen_KeepsFirst(better) == IF better THEN cur ELSE best

\* best_params is replaced by a better configuration, and by the first valid
\* one, which need not be the one the search began with.
Chosen(better) == IF first \/ better THEN cur ELSE best

\* Mutant: the old best keeps the averages it was measured under.
Rescaled_Not(k, mean) == deg[k]

\* The best is carried over to the new averages.
Rescaled(k, mean) == Times(deg[k], Over(avg[k], mean[k]))

Accept(x) ==
    LET mean == [k \in Metrics |-> Fraction(sum'[k], num'[k])]
        new  == [k \in Metrics |-> Over(<<x[k], 1>>, mean[k])]
        old  == [k \in Metrics |-> Rescaled(k, mean)]
        better == ~first /\ Less(Weighted(new), Weighted(old))
    IN  /\ pc = "evaluate"
        /\ \A k \in Metrics : Accepts(k, x[k], FALSE)
        /\ num' = [k \in Metrics |-> num[k] + 1]
        /\ sum' = [k \in Metrics |-> sum[k] + x[k]]
        /\ iso' = Isolated
        /\ accepted' = Append(accepted, [search |-> searches, grid |-> cur, abs |-> x])
        /\ first' = FALSE /\ avg' = mean
        /\ best' = Chosen(better)
        /\ deg' = IF first \/ better THEN new ELSE old
        /\ abs' = IF first \/ better THEN x ELSE abs
        /\ Record

\* Mutant: the isolated data outlive the search.
End_KeepsIsolated ==
    /\ pc = "end"
    /\ pc' = "idle"
    /\ UNCHANGED <<limit, cur, keys, statics, iso, reference, result, accepted,
                   session>>

\* optimizeConfig frees the isolated data.
End ==
    /\ pc = "end"
    /\ pc' = "idle" /\ iso' = NoGrid
    /\ UNCHANGED <<limit, cur, keys, statics, reference, result, accepted,
                   session>>

------------------------------------------------------------------------------
Evaluate ==
    \E x \in Readings, spread \in BOOLEAN :
        \/ RejectFirst(x, spread)
        \/ RejectSecond(x, spread)
        \/ Accept(x)

Next ==
    \/ \E g \in Grids, n \in 1..MaxEvaluations : Begin(g, n)
    \/ \E g \in Grids : Mutate(g)
    \/ Evaluate
    \/ End

Spec == Init /\ [][Next]_vars

------------------------------------------------------------------------------
Here == {i \in DOMAIN accepted : accepted[i].search = searches}

Ratio == Nat \X (Nat \ {0})

\* Types; garray_opt_result and the hashes are filled within what was allocated.
TypeOK ==
    /\ pc \in {"idle", "mutate", "evaluate", "end"}
    /\ limit \in Nat /\ searches \in Nat
    /\ cur \in Grids /\ best \in Grids /\ iso \in Grids \cup {NoGrid}
    /\ num \in [Metrics -> Nat] /\ sum \in [Metrics -> Nat]
    /\ first \in BOOLEAN /\ abs \in [Metrics -> Nat]
    /\ deg \in [Metrics -> Ratio] /\ avg \in [Metrics -> Ratio]
    /\ keys \in Seq({Key(g) : g \in Grids})
    /\ result \in Seq([value : Ratio, abs : [Metrics -> Nat], grid : Grids])
    /\ Len(result) <= limit /\ Len(keys) <= limit
    /\ accepted \in Seq([search : Nat, grid : Grids, abs : [Metrics -> Nat]])

\* The rescaling by old and new averages divides by none that is zero, and the
\* averages are those of metrics within the limits: no rejected evaluation, of
\* this search or an earlier one, has left a trace in either of them.
AveragesBounded ==
    \A k \in Metrics :
        /\ num[k] = Len(accepted)
        /\ Low[k] * num[k] <= sum[k] /\ sum[k] <= High[k] * num[k]

\* However often the best was rescaled, it is what was measured for it, under
\* the averages of now.
RescaledExactly ==
    ~first => \A k \in Metrics :
        /\ avg[k] = Fraction(sum[k], num[k])
        /\ Times(deg[k], avg[k]) = <<abs[k], 1>>

\* A search that had a valid result returns a configuration of this search,
\* with both metrics of one and the same evaluation of it.
BestWasMeasured ==
    ~first => \E i \in Here : accepted[i].grid = best /\ accepted[i].abs = abs

\* The overhead is measured against a victim of this search.
IsolatedOfSearch ==
    /\ pc = "idle" => iso = NoGrid
    /\ iso # NoGrid => \E i \in DOMAIN keys : keys[i] = Key(iso)

\* The strengthening that makes them inductive: while there is room, each iteration
\* has one hash and one entry, the last hash being of the configuration that is
\* evaluated, and the best, multiplied by its averages, is what was measured.
OneHashEach ==
    /\ pc = "mutate" => Len(keys) = Len(result) /\ Len(result) < limit
    /\ pc = "evaluate" => Len(keys) = Len(result) + 1
    /\ pc = "evaluate" => keys[Len(keys)] = Key(cur)
BestOverAverages ==
    ~first => \A k \in Metrics :
        /\ num[k] > 0 /\ avg[k] = Fraction(sum[k], num[k]) /\ avg[k][1] > 0
        /\ deg[k][1] * avg[k][1] = abs[k] * (deg[k][2] * avg[k][2])
WeightedInv ==
    /\ TypeOK /\ AveragesBounded /\ BestWasMeasured /\ IsolatedOfSearch
    /\ OneHashEach /\ BestOverAverages

==============================================================================
