----------------------------- MODULE Scheduler -----------------------------
(***************************************************************************)
(* orchestrator/scheduler.go: the schedules and runners maps under one      *)
(* mutex, the cron library's entries, one goroutine per periodic ticker,    *)
(* prepared replacements (Prepare, Commit, Rollback), and the walk over the *)
(* dependents of a pipeline that has finished, which gives the mutex up     *)
(* while it triggers each of them.                                          *)
(***************************************************************************)
EXTENDS Naturals, FiniteSets

CONSTANTS
    Ids,          \* pipelines
    Types,        \* pipeline -> the schedule types it is given
    Versions,     \* pipeline -> its runners, one after the other, told apart by a number
    Handles,      \* requests that hold an ExecutorReplacement
    MaxCalls,     \* calls of triggerPipeline under way
    MaxChanges    \* changes of the maps

VARIABLES
    schedules,    \* s.schedules: id -> configuration and its ticker or cron entry
    runners,      \* s.runners: id -> runner
    tickers,      \* goroutines of periodic schedules
    cronLib,      \* entries of the cron library
    repl,         \* handle -> ExecutorReplacement
    pending,      \* calls of triggerPipeline under way
    walks,        \* id -> the NotifyDependents call its last run caused
    busy,         \* runners that are running
    stopped,      \* StopAll has run
    changes       \* changes so far

schedVars == <<schedules, runners, tickers, cronLib, repl, pending, walks, busy, stopped, changes>>

Runners == UNION {{id} \X Versions[id] : id \in Ids}
NoRunner == <<0, 0>>

\* The nil pointer is no runner; the types are those registerDeferredLocked knows.
ASSUME SchedAssumption ==
    /\ NoRunner \notin Runners
    /\ \A id \in Ids : Types[id] \subseteq {"streaming", "cron", "periodic", "dependency"}

NoSchedule == [type |-> "none", deps |-> {}, slot |-> 0]
NoRepl == [st |-> "none"]
NoWalk == [on |-> FALSE, must |-> {}, seen |-> {}]

\* Configurations: nil and streaming ones are not deferred.
Configs(id) ==
    {[type |-> t, deps |-> IF t = "dependency" THEN Ids \ {id} ELSE {}] : t \in Types[id]}

isDeferred(cfg) == cfg.type # "streaming"

SchedInit ==
    /\ schedules = [id \in Ids |-> NoSchedule]
    /\ runners = [id \in Ids |-> NoRunner]
    /\ tickers = {} /\ cronLib = {} /\ pending = {} /\ busy = {}
    /\ repl = [h \in Handles |-> NoRepl]
    /\ walks = [id \in Ids |-> NoWalk]
    /\ stopped = FALSE
    /\ changes = 0

\* The maps and what fires from them, as one value the locked helpers map.
Table == [schedules |-> schedules, runners |-> runners, tickers |-> tickers, cronLib |-> cronLib]

Install(t) ==
    /\ changes < MaxChanges /\ changes' = changes + 1
    /\ schedules' = t.schedules
    /\ runners' = t.runners
    /\ tickers' = t.tickers
    /\ cronLib' = t.cronLib

snapshotExecutorLocked(id) == [runner |-> runners[id], schedule |-> schedules[id]]

\* The ticker is not told to stop.
removeLeavingTicker(t, id) ==
    [schedules |-> [t.schedules EXCEPT ![id] = NoSchedule],
     runners |-> [t.runners EXCEPT ![id] = NoRunner],
     tickers |-> t.tickers,
     cronLib |-> {c \in t.cronLib : c.slot # t.schedules[id].slot}]

\* removeExecutorLocked
removeExecutorLocked(t, id) ==
    [schedules |-> [t.schedules EXCEPT ![id] = NoSchedule],
     runners |-> [t.runners EXCEPT ![id] = NoRunner],
     tickers |-> {IF x.slot = t.schedules[id].slot THEN [x EXCEPT !.closed = TRUE] ELSE x : x \in t.tickers},
     cronLib |-> {c \in t.cronLib : c.slot # t.schedules[id].slot}]

\* registerDeferredLocked: the trigger captures the runner it is given.
registerDeferredLocked(t, id, runner, cfg) ==
    LET slot == IF cfg.type = "dependency" THEN 0 ELSE changes + 1
        x == [slot |-> slot, id |-> id, runner |-> runner]
    IN  [schedules |-> [t.schedules EXCEPT ![id] = [type |-> cfg.type, deps |-> cfg.deps, slot |-> slot]],
         runners |-> [t.runners EXCEPT ![id] = runner],
         tickers |-> t.tickers \cup (IF cfg.type = "periodic"
                                        THEN {[slot |-> slot, id |-> id, runner |-> runner, closed |-> FALSE]} ELSE {}),
         cronLib |-> t.cronLib \cup (IF cfg.type = "cron" THEN {x} ELSE {})]

\* The new executor is put up over the current one.
restoreOverCurrent(t, id, old) ==
    IF old.schedule = NoSchedule THEN [removeExecutorLocked(t, id) EXCEPT !.runners[id] = old.runner]
    ELSE registerDeferredLocked(t, id, old.runner, old.schedule)

\* restoreExecutorLocked
restoreExecutorLocked(t, id, old) ==
    LET bare == removeExecutorLocked(t, id)
    IN  IF old.schedule = NoSchedule THEN [bare EXCEPT !.runners[id] = old.runner]
        ELSE registerDeferredLocked(bare, id, old.runner, old.schedule)

\* A dependent whose schedule is replaced during a walk may be met or missed.
Forget(ids) == walks' = [d \in Ids |-> [walks[d] EXCEPT !.must = @ \ ids]]

\* ------------------------------- operations -------------------------------
\* Server.Shutdown calls StopAll first and stops the HTTP server last, and the
\* scheduler refuses nothing after it: every operation goes on to be possible.

PrepareExecutor(h, id, v, cfg) ==
    /\ repl[h] = NoRepl
    /\ repl' = [repl EXCEPT ![h] = [st |-> "prepared", id |-> id, runner |-> <<id, v>>, cfg |-> cfg]]
    /\ UNCHANGED <<schedules, runners, tickers, cronLib, pending, walks, busy, stopped, changes>>

Commit(h) ==
    LET r == repl[h]
        bare == removeExecutorLocked(Table, r.id)
    IN  /\ r.st = "prepared"
        /\ Install(IF isDeferred(r.cfg) THEN registerDeferredLocked(bare, r.id, r.runner, r.cfg) ELSE bare)
        /\ repl' = [repl EXCEPT ![h] = [st |-> "committed", id |-> r.id, old |-> snapshotExecutorLocked(r.id)]]
        /\ Forget({r.id})
        /\ UNCHANGED <<pending, busy, stopped>>

Rollback(h) ==
    LET r == repl[h]
    IN  /\ r.st # "none"
        /\ IF r.st = "prepared"
              THEN UNCHANGED <<schedules, runners, tickers, cronLib, walks, changes>>
              ELSE /\ Install(restoreExecutorLocked(Table, r.id, r.old))
                   /\ Forget({r.id})
        /\ repl' = [repl EXCEPT ![h] = NoRepl]
        /\ UNCHANGED <<pending, busy, stopped>>

\* The handler answers; the replacement is not used again.
Release(h) ==
    /\ repl[h].st = "committed"
    /\ repl' = [repl EXCEPT ![h] = NoRepl]
    /\ UNCHANGED <<schedules, runners, tickers, cronLib, pending, walks, busy, stopped, changes>>

\* RegisterExecutor, called once per pipeline while the server starts.
RegisterExecutor(id, v, cfg) ==
    /\ isDeferred(cfg)
    /\ schedules[id] = NoSchedule /\ runners[id] = NoRunner
    /\ Install(registerDeferredLocked(Table, id, <<id, v>>, cfg))
    /\ UNCHANGED <<repl, pending, walks, busy, stopped>>

Unregister(id) ==
    /\ schedules[id] # NoSchedule
    /\ Install(removeExecutorLocked(Table, id))
    /\ busy' = busy \ {runners[id]}
    /\ Forget({id})
    /\ UNCHANGED <<repl, pending, stopped>>

\* The tickers are dropped from the maps and not told to stop.
stopAllLeavingTickers ==
    /\ ~stopped /\ stopped' = TRUE
    /\ schedules' = [id \in Ids |-> NoSchedule]
    /\ runners' = [id \in Ids |-> NoRunner]
    /\ cronLib' = {}
    /\ busy' = busy \ {runners[id] : id \in Ids}
    /\ Forget(Ids)
    /\ UNCHANGED <<tickers, repl, pending, changes>>

StopAll ==
    /\ ~stopped /\ stopped' = TRUE
    /\ schedules' = [id \in Ids |-> NoSchedule]
    /\ runners' = [id \in Ids |-> NoRunner]
    /\ tickers' = {[x EXCEPT !.closed = TRUE] : x \in tickers}
    /\ cronLib' = {}
    /\ busy' = busy \ {runners[id] : id \in Ids}
    /\ Forget(Ids)
    /\ UNCHANGED <<repl, pending, changes>>

\* ------------------------------- triggers ---------------------------------

\* triggerPipeline is called; by says from where.
Call(id, runner, by) ==
    /\ Cardinality(pending) < MaxCalls
    /\ pending' = pending \cup {[id |-> id, runner |-> runner, by |-> by]}

InCall(by) == \E p \in pending : p.by = by

\* The select of a ticker's goroutine: with a tick and a closed stopCh both
\* ready it may still take the tick.
Tick(x) ==
    /\ ~InCall(<<"ticker", x.slot>>)
    /\ Call(x.id, x.runner, <<"ticker", x.slot>>)
    /\ UNCHANGED <<schedules, runners, tickers, cronLib, repl, walks, busy, stopped, changes>>

TickerStops(x) ==
    /\ x.closed /\ ~InCall(<<"ticker", x.slot>>)
    /\ tickers' = tickers \ {x}
    /\ UNCHANGED <<schedules, runners, cronLib, repl, pending, walks, busy, stopped, changes>>

\* A cron entry that the library has started runs in a goroutine of its own.
CronFires(x) ==
    /\ ~InCall(<<"cron", x.slot>>)
    /\ Call(x.id, x.runner, <<"cron", x.slot>>)
    /\ UNCHANGED <<schedules, runners, tickers, cronLib, repl, walks, busy, stopped, changes>>

\* triggerPipeline: no runner, a running one, or a start that is refused or
\* fails leaves things as they are.
triggerPipeline(p) ==
    /\ pending' = pending \ {p}
    /\ \/ p.runner # NoRunner /\ p.runner \notin busy /\ busy' = busy \cup {p.runner}
       \/ UNCHANGED busy
    /\ UNCHANGED <<schedules, runners, tickers, cronLib, repl, walks, stopped, changes>>

dependsOn(id, d) == schedules[id].type = "dependency" /\ d \in schedules[id].deps

\* A run of d ends; its observer calls NotifyDependents.
Complete(r) ==
    /\ r \in busy /\ ~walks[r[1]].on
    /\ busy' = busy \ {r}
    /\ walks' = [walks EXCEPT ![r[1]] = [on |-> TRUE, must |-> {id \in Ids : dependsOn(id, r[1])}, seen |-> {}]]
    /\ UNCHANGED <<schedules, runners, tickers, cronLib, repl, pending, stopped, changes>>

\* One round of the loop: the mutex is given up for the trigger.
NotifyOne(d, id) ==
    /\ walks[d].on /\ ~InCall(<<"walk", d>>)
    /\ dependsOn(id, d) /\ id \notin walks[d].seen
    /\ Call(id, runners[id], <<"walk", d>>)
    /\ walks' = [walks EXCEPT ![d].seen = @ \cup {id}]
    /\ UNCHANGED <<schedules, runners, tickers, cronLib, repl, busy, stopped, changes>>

\* The loop ends once every schedule that was there throughout has been met.
NotifyEnds(d) == walks[d].on /\ walks[d].must \subseteq walks[d].seen

NotifyReturns(d) ==
    /\ NotifyEnds(d) /\ ~InCall(<<"walk", d>>)
    /\ walks' = [walks EXCEPT ![d] = NoWalk]
    /\ UNCHANGED <<schedules, runners, tickers, cronLib, repl, pending, busy, stopped, changes>>

Control ==
    \/ \E h \in Handles, id \in Ids :
           \E v \in Versions[id], cfg \in Configs(id) : PrepareExecutor(h, id, v, cfg)
    \/ \E h \in Handles : Commit(h) \/ Rollback(h) \/ Release(h)
    \/ \E id \in Ids : \E v \in Versions[id], cfg \in Configs(id) : RegisterExecutor(id, v, cfg)
    \/ \E id \in Ids : Unregister(id)
    \/ StopAll

Triggers ==
    \/ \E x \in tickers : Tick(x) \/ TickerStops(x)
    \/ \E x \in cronLib : CronFires(x)
    \/ \E p \in pending : triggerPipeline(p)
    \/ \E r \in busy : Complete(r)
    \/ \E d, id \in Ids : NotifyOne(d, id)
    \/ \E d \in Ids : NotifyReturns(d)

SchedNext == Control \/ Triggers

SchedSpec == SchedInit /\ [][SchedNext]_schedVars

\* A call of triggerPipeline returns; a goroutine whose stopCh is closed and
\* which comes back to its select again and again takes it in the end, because
\* select chooses at random among what is ready.
SchedFairness ==
    /\ WF_schedVars(\E p \in pending : triggerPipeline(p))
    /\ SF_schedVars(\E x \in tickers : TickerStops(x))

\* ------------------------------- properties -------------------------------

\* The executor of a pipeline is triggered from exactly one place: a cron or
\* periodic schedule has one open ticker or cron entry, holding the runner
\* that is registered, and no ticker or cron entry lives without its schedule.
OneTriggerPerSchedule ==
    LET open == {x \in tickers : ~x.closed} \cup cronLib
    IN  /\ \A x \in open : schedules[x.id].slot = x.slot /\ runners[x.id] = x.runner
        /\ \A id \in Ids :
              schedules[id].type \in {"cron", "periodic"} =>
                  \E x \in open : {y \in open : y.id = id} = {x}

\* What the control plane relies on (ScheduleBoard).
Board == INSTANCE ScheduleBoard WITH
    NoEntry <- NoRunner,
    entries <- runners,
    leaving <- {<<x.id, x.runner>> : x \in {t \in tickers : t.closed}},
    trig <- {<<p.id, p.runner>> : p \in pending}

\* The scheduler implements the board: each of its steps is a step of ScheduleBoard
\* or leaves the board alone (Commit, Rollback, RegisterExecutor, Unregister and
\* StopAll post; tickers, cron entries and NotifyDependents fire).
ImplementsBoard == Board!BoardSpec

\* The goroutine of a ticker whose schedule was replaced, rolled back, unregistered
\* or stopped with the rest ends, whatever is registered afterwards (the select of
\* registerDeferredLocked, removeExecutorLocked, StopAll).
RemovedTickersEnd ==
    \A slot \in 1..MaxChanges :
        LET alive == \E x \in tickers : x.slot = slot
        IN  (alive /\ \A id \in Ids : schedules[id].slot # slot) ~> ~alive
=============================================================================
