----------------------------- MODULE MCControl -----------------------------
(***************************************************************************)
(* The server's pipeline registry and the scheduler, one of which each      *)
(* behaviour runs.  The scheduler keeps its initial state in the behaviours *)
(* of the registry; the variables of the registry are None in those of the  *)
(* scheduler.                                                               *)
(***************************************************************************)
EXTENDS Scheduler

VARIABLES
    focus,
    pconf, rows, versions, cp, mem, names, refs, broken, entries, run, req, boot, todo, nextId, was, going, work,
    pfaults, pcrashes

cpVars == <<pconf, rows, versions, cp, mem, names, refs, broken, entries, run, req, boot, todo, nextId, was, going, work,
            pfaults, pcrashes>>
vars == <<focus, schedVars, cpVars>>

\* The second pipeline depends on the first or has a cron schedule.
TypesOfTwo == <<{"streaming", "periodic"}, {"cron", "dependency"}>>
VersionsOfTwo == <<{1, 2}, {1}>>

Pipe(n, d, t, b, s) == [name |-> n, dag |-> d, type |-> t, table |-> b, sched |-> s]
Scenario(serial, strict, slots, work_, faults, crashes) ==
    [serial |-> serial, strict |-> strict, slots |-> slots, work |-> work_, faults |-> faults, crashes |-> crashes]

\* Two names, linear and DAG, with and without a schedule, two source types.
Submitted == {Pipe("a", FALSE, "t", 1, "none"), Pipe("a", FALSE, "u", 2, "every"), Pipe("b", TRUE, "t", 1, "none")}

Plane == INSTANCE ControlPlane WITH
    Ids <- {1, 2}, Requests <- {1, 2}, Specs <- Submitted, FileSpec <- Pipe("b", FALSE, "t", 1, "every"),
    Scenarios <- {Scenario(TRUE, FALSE, 2, 2, 0, 0), Scenario(TRUE, FALSE, 1, 2, 1, 1),
                  Scenario(TRUE, TRUE, 1, 1, 2, 2), Scenario(FALSE, FALSE, 2, 2, 0, 0)}

None == "none"
IsPlane == focus = "registry"

NoPlane ==
    /\ pconf = None /\ rows = None /\ versions = None /\ cp = None /\ mem = None /\ names = None /\ refs = None
    /\ broken = None /\ entries = None /\ run = None /\ req = None /\ boot = None /\ todo = None
    /\ nextId = None /\ was = None /\ going = None /\ work = None /\ pfaults = None /\ pcrashes = None

Init ==
    /\ SchedInit
    /\ \/ focus = "scheduler" /\ NoPlane
       \/ focus = "registry" /\ Plane!CPInit

Next ==
    \/ focus = "scheduler" /\ SchedNext /\ UNCHANGED <<focus, cpVars>>
    \/ IsPlane /\ Plane!CPNext /\ UNCHANGED <<focus, schedVars>>

Spec == Init /\ [][Next]_vars /\ SchedFairness

-----------------------------------------------------------------------------

\* What runs is what is stored.  The index from names to ids is exact; the history
\* of versions ends with the row; a pipeline deleted at rest leaves no checkpoint.
\* With the requests on a pipeline one after the other, maps and board show the rows whenever nothing
\* is under way, no runner goes on that the maps do not show, and no schedule
\* request meets a missing entry (registerPipelineLocked, commitRuntimeSchedule,
\* savePipelineWithVersion, restoreFromDB).
RuntimeFollowsStore ==
    IsPlane =>
        /\ Plane!HistoryEndsWithCurrent
        /\ Plane!NameIndexExact
        /\ Plane!MemoryMatchesStore
        /\ Plane!ScheduleFollowsSpec
        /\ Plane!NoLostRunner
        /\ Plane!NeverWedged

\* What a change never does: a failing save leaves runners and board as they were
\* (the schedule handlers excepted, see FailedSaveLeavesRuntime), a PUT of another
\* source type leaves no checkpoint of the old source, and a pipeline that could
\* not be restored comes back with the status it had.
ChangesAreUndoneOrWhole ==
    [][IsPlane =>
        /\ Plane!FailedUpdateLeavesRuntime
        /\ Plane!PutResetsForeignType
        /\ Plane!RestoreKeepsStatus]_cpVars
=============================================================================
