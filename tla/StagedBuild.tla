----------------------------- MODULE StagedBuild -----------------------------
(***************************************************************************)
(* What the build system promises (README.md, "Build Configuration"): the   *)
(* outer list of build.json is compiled sequentially, each inner list in    *)
(* parallel.  A task is a pair <<stage, position>>.                         *)
(***************************************************************************)
EXTENDS Integers

CONSTANT Task   \* the tasks of every stage
VARIABLES started, running
vars == <<started, running>>

Init == started = {} /\ running = {}

\* A task may be launched, next to other tasks of its stage, once every task
\* of the earlier stages has ended; no later stage has begun.
Launch(t) ==
    /\ t \in Task \ started
    /\ \A u \in running : u[1] = t[1]
    /\ \A u \in started : u[1] <= t[1]
    /\ started' = started \cup {t}
    /\ running' = running \cup {t}

Finish(t) ==
    /\ t \in running
    /\ running' = running \ {t}
    /\ UNCHANGED started

\* The next build begins only when nothing of the last one is running.
Renew ==
    /\ running = {}
    /\ started' = {}
    /\ UNCHANGED running

Next == Renew \/ \E t \in Task : Launch(t) \/ Finish(t)

Spec == Init /\ [][Next]_vars
==============================================================================
