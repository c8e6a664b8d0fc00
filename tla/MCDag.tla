-------------------------------- MODULE MCDag --------------------------------
(***************************************************************************)
(* DAGExecutor on three deployments, one of which each behaviour runs: a    *)
(* pool (the constants of DAGExecutor: one source, two workers, restarts    *)
(* and a crash), fan-in (two sources, one sink, routed sequentially) and    *)
(* fan-out (an unbounded source and two sinks).  Fan-out promises less      *)
(* about its checkpoints, which are kept apart in fanOutCp.                 *)
(***************************************************************************)
EXTENDS DAGExecutor

VARIABLES deployment, fanOutCp

\* Every record of the pool's source reaches every sink.
ToAll(S, K) == [s \in S |-> [n \in Pos |-> K]]
PoolRoutes == ToAll(Sources, Sinks)
PoolBroken == {<<"a", 2>>}

FanIn == INSTANCE DAGExecutor WITH
    Sources <- {"a", "b"}, Routes <- ToAll({"a", "b"}, Sinks), Parallel <- FALSE,
    BatchSize <- 2, PoolSize <- 0, MaxRuns <- 1, MaxCrashes <- 0

FanOut == INSTANCE DAGExecutor WITH
    Sinks <- {"k", "l"}, Unbounded <- {"a"},
    Routes <- [s \in {"a"} |-> [n \in Pos |-> IF n = 1 THEN {"k", "l"} ELSE {"k"}]],
    Parallel <- FALSE, BatchSize <- 2, PoolSize <- 0, MaxRuns <- 1, MaxFaults <- 2, MaxCrashes <- 0,
    cp <- fanOutCp

IsPool == deployment = "pool"
IsFanIn == deployment = "fan-in"
IsFanOut == deployment = "fan-out"

mcVars == <<deployment, fanOutCp, vars>>

NoCheckpoint == [s \in Sources |-> 0]

Init ==
    \/ IsPool /\ DagInit /\ fanOutCp = NoCheckpoint
    \/ IsFanIn /\ FanIn!DagInit /\ fanOutCp = NoCheckpoint
    \/ IsFanOut /\ FanOut!DagInit /\ cp = NoCheckpoint

OfFanOut(A) == IsFanOut /\ A /\ UNCHANGED <<deployment, cp>>

Next ==
    \/ IsPool /\ DagNext /\ UNCHANGED <<deployment, fanOutCp>>
    \/ IsFanIn /\ FanIn!DagNext /\ UNCHANGED <<deployment, fanOutCp>>
    \/ OfFanOut(FanOut!DagNext)

\* DagFairness of the fan-out deployment, the one whose runs are shown to end.
Fairness ==
    /\ WF_mcVars(OfFanOut(FanOut!RunStep))
    /\ WF_mcVars(OfFanOut(FanOut!WriterStep))
    /\ WF_mcVars(OfFanOut(FanOut!OpenSource("a") \/ FanOut!ReadEnds("a")))

Spec == Init /\ [][Next]_mcVars /\ Fairness

\* The types, and what DAGExecutor promises, on the deployments with two sources
\* and with two sinks: at-least-once of every source that shares a sink, and no
\* goroutine left of an earlier generation.
FansAreSafe ==
    /\ IsFanIn => FanIn!DagTypeOK /\ FanIn!CoveredIsSettled /\ FanIn!NoGenerationOverlap
    /\ IsFanOut => FanOut!DagTypeOK /\ FanOut!NoGenerationOverlap

\* A cancelled run of the fan-out ends and its slot is free again, also while the
\* reader is blocked on the full channel.
FanOutRunEnds == (IsFanOut /\ runActive /\ ctxDone) ~> ~wrapActive
=============================================================================
