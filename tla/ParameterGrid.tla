----------------------------- MODULE ParameterGrid -----------------------------
(***************************************************************************)
(* The grid of optimizable proprieties that the searches of optimization.c  *)
(* draw configurations from, and the hashes by which they know one again.   *)
(***************************************************************************)
EXTENDS Integers, SequencesExt

CONSTANTS
    Params,      \* number of optimizable proprieties
    MaxOf        \* max of each PARAM_ELEM

ASSUME GridAssumption == Params \in Nat \ {0} /\ MaxOf \in [1..Params -> Nat]

Grids ==
    {g \in [1..Params -> UNION {0..MaxOf[p] : p \in 1..Params}] :
        \A p \in 1..Params : g[p] \in 0..MaxOf[p]}

\* The numbers of a configuration, written one after the other, are hashed to
\* recognize it (SHA-256 is taken to be injective).
Digits[n \in Nat] ==
    IF n < 10 THEN <<n>> ELSE Append(Digits[n \div 10], n % 10)

Key(g) == FlattenSeq([p \in 1..Params |-> Digits[g[p]]])

\* num_max_states
NumMaxStates == FoldLeft(LAMBDA n, m : n * (m + 1), 1, MaxOf)
==============================================================================
