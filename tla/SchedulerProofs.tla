-------------------------- MODULE SchedulerProofs --------------------------
(***************************************************************************)
(* Proofs about the scheduler: that the maps, the tickers and the cron      *)
(* entries always fit together, that every schedule is triggered from one   *)
(* place, and that the scheduler implements the board of ScheduleBoard.     *)
(* The argument is about the tables that the locked helpers map: removing   *)
(* an executor keeps a table whole, and so does registering one for a       *)
(* pipeline that has none.                                                  *)
(***************************************************************************)
EXTENDS Scheduler, TLAPS

TickerSet == [slot : Nat, id : Ids, runner : Runners, closed : BOOLEAN]
CronSet == [slot : Nat, id : Ids, runner : Runners]
ScheduleSet == [type : {"none", "cron", "periodic", "dependency"}, deps : SUBSET Ids, slot : Nat]
TableSet ==
    [schedules : [Ids -> ScheduleSet], runners : [Ids -> Runners \cup {NoRunner}],
     tickers : SUBSET TickerSet, cronLib : SUBSET CronSet]

\* The ticker and the cron entry that a pipeline's schedule must have.
TickerOf(t, id) == [slot |-> t.schedules[id].slot, id |-> id, runner |-> t.runners[id], closed |-> FALSE]
CronOf(t, id) == [slot |-> t.schedules[id].slot, id |-> id, runner |-> t.runners[id]]

\* Slots number the tickers and cron entries that the table has seen, up to c.
Numbered(t, c) ==
    /\ \A id \in Ids :
          /\ t.schedules[id].slot <= c
          /\ t.schedules[id].slot = 0 <=> t.schedules[id].type \in {"none", "dependency"}
    /\ \A x \in t.tickers : 0 < x.slot /\ x.slot <= c
    /\ \A x \in t.cronLib : 0 < x.slot /\ x.slot <= c
    /\ \A i, j \in Ids : t.schedules[i].slot = t.schedules[j].slot /\ t.schedules[i].slot # 0 => i = j

\* A pipeline has a runner when it has a schedule.
Paired(t) ==
    \A id \in Ids :
        /\ t.schedules[id].type = "none" <=> t.schedules[id] = NoSchedule
        /\ t.schedules[id] = NoSchedule <=> t.runners[id] = NoRunner

\* What can fire is what the schedules say, and the other way round.
Fitting(t) ==
    /\ \A x \in t.tickers : ~x.closed => t.schedules[x.id].type = "periodic" /\ x = TickerOf(t, x.id)
    /\ \A x \in t.cronLib : t.schedules[x.id].type = "cron" /\ x = CronOf(t, x.id)
    /\ \A id \in Ids :
          /\ t.schedules[id].type = "periodic" => TickerOf(t, id) \in t.tickers
          /\ t.schedules[id].type = "cron" => CronOf(t, id) \in t.cronLib

Whole(t, c) == t \in TableSet /\ c \in Nat /\ Numbered(t, c) /\ Paired(t) /\ Fitting(t)

\* A replacement holds an executor that can be put up.
ConfigSet(types) == [type : types, deps : SUBSET Ids]
ExecutorSet ==
    {[runner |-> NoRunner, schedule |-> NoSchedule]}
        \cup [runner : Runners, schedule : {s \in ScheduleSet : s.type # "none"}]
Prepared ==
    [st : {"prepared"}, id : Ids, runner : Runners,
     cfg : ConfigSet({"streaming", "cron", "periodic", "dependency"})]
Committed == [st : {"committed"}, id : Ids, old : ExecutorSet]

SchedInv == Whole(Table, changes) /\ repl \in [Handles -> {NoRepl} \cup Prepared \cup Committed]

\* ------------------------------- the tables --------------------------------

LEMMA TableFields ==
    ASSUME NEW t \in TableSet
    PROVE  /\ t.schedules \in [Ids -> ScheduleSet] /\ t.runners \in [Ids -> Runners \cup {NoRunner}]
           /\ t.tickers \subseteq TickerSet /\ t.cronLib \subseteq CronSet
  BY DEF TableSet

LEMMA NoScheduleFields ==
    /\ NoSchedule \in ScheduleSet /\ NoSchedule.type = "none" /\ NoSchedule.slot = 0 /\ NoSchedule.deps = {}
  BY DEF NoSchedule, ScheduleSet

(* A ticker told to stop keeps everything but its flag. *)
LEMMA ClosedTicker ==
    ASSUME NEW x \in TickerSet
    PROVE  /\ [x EXCEPT !.closed = TRUE] \in TickerSet
           /\ [x EXCEPT !.closed = TRUE].closed
           /\ [x EXCEPT !.closed = TRUE].slot = x.slot
           /\ [x EXCEPT !.closed = TRUE].id = x.id
           /\ [x EXCEPT !.closed = TRUE].runner = x.runner
           /\ x.closed => [x EXCEPT !.closed = TRUE] = x
  BY Zenon DEF TickerSet

(* What removeExecutorLocked leaves of the tickers: those of the slot are closed, the
   others are as they were. *)
LEMMA RemovedTickers ==
    ASSUME NEW t, NEW id, t.tickers \subseteq TickerSet
    PROVE  /\ removeExecutorLocked(t, id).tickers \subseteq TickerSet
           /\ \A y \in removeExecutorLocked(t, id).tickers :
                 \E x \in t.tickers :
                    /\ y.slot = x.slot /\ y.id = x.id /\ y.runner = x.runner
                    /\ x.slot = t.schedules[id].slot => y.closed
                    /\ x.slot # t.schedules[id].slot => y = x
           /\ \A x \in t.tickers : x.slot # t.schedules[id].slot \/ x.closed => x \in removeExecutorLocked(t, id).tickers
  <1> DEFINE shut(x) == [x EXCEPT !.closed = TRUE]
             left(x) == IF x.slot = t.schedules[id].slot THEN shut(x) ELSE x
  <1>1. removeExecutorLocked(t, id).tickers = {left(x) : x \in t.tickers}
    BY DEF removeExecutorLocked
  <1>2. \A x \in t.tickers :
           /\ shut(x) \in TickerSet /\ shut(x).closed /\ shut(x).slot = x.slot /\ shut(x).id = x.id
           /\ shut(x).runner = x.runner
           /\ x.closed => shut(x) = x
    BY ClosedTicker, Zenon
  <1> HIDE DEF shut
  <1>3. \A x \in t.tickers :
           /\ left(x) \in TickerSet /\ left(x).slot = x.slot /\ left(x).id = x.id /\ left(x).runner = x.runner
           /\ x.slot = t.schedules[id].slot => left(x).closed
           /\ x.slot # t.schedules[id].slot => left(x) = x
           /\ x.slot # t.schedules[id].slot \/ x.closed => left(x) = x
    BY <1>2
  <1> HIDE DEF left
  <1> QED
    BY <1>1, <1>3, SMT, Z3

(* The table after removeExecutorLocked is whole again. *)
LEMMA RemoveKeeps ==
    ASSUME NEW t, NEW c, NEW id \in Ids, Whole(t, c)
    PROVE  /\ Whole(removeExecutorLocked(t, id), c)
           /\ removeExecutorLocked(t, id).schedules[id] = NoSchedule
  <1> DEFINE u == removeExecutorLocked(t, id)
  <1>1. t \in TableSet /\ c \in Nat /\ Numbered(t, c) /\ Paired(t) /\ Fitting(t)
    BY DEF Whole
  <1>2. /\ t.schedules \in [Ids -> ScheduleSet] /\ t.runners \in [Ids -> Runners \cup {NoRunner}]
        /\ t.tickers \subseteq TickerSet /\ t.cronLib \subseteq CronSet
    BY <1>1, TableFields
  <1>3. /\ u.schedules = [t.schedules EXCEPT ![id] = NoSchedule]
        /\ u.runners = [t.runners EXCEPT ![id] = NoRunner]
        /\ u.cronLib = {x \in t.cronLib : x.slot # t.schedules[id].slot}
    BY DEF removeExecutorLocked
  <1>4. /\ u.tickers \subseteq TickerSet
        /\ \A y \in u.tickers :
              \E x \in t.tickers :
                 /\ y.slot = x.slot /\ y.id = x.id /\ y.runner = x.runner
                 /\ x.slot = t.schedules[id].slot => y.closed
                 /\ x.slot # t.schedules[id].slot => y = x
        /\ \A x \in t.tickers : x.slot # t.schedules[id].slot \/ x.closed => x \in u.tickers
    BY <1>2, RemovedTickers
  <1>5. u \in TableSet
    <2>1. u = [schedules |-> u.schedules, runners |-> u.runners, tickers |-> u.tickers, cronLib |-> u.cronLib]
      BY DEF removeExecutorLocked
    <2> HIDE DEF u
    <2>2. u.schedules \in [Ids -> ScheduleSet] /\ u.runners \in [Ids -> Runners \cup {NoRunner}]
      BY <1>2, <1>3, NoScheduleFields
    <2>3. u.tickers \in SUBSET TickerSet /\ u.cronLib \in SUBSET CronSet
      BY <1>2, <1>3, <1>4
    <2> QED
      BY <2>1, <2>2, <2>3 DEF TableSet
  <1> HIDE DEF u
  <1>6. \A i \in Ids : /\ u.schedules[i] = (IF i = id THEN NoSchedule ELSE t.schedules[i])
                       /\ u.runners[i] = (IF i = id THEN NoRunner ELSE t.runners[i])
    BY <1>2, <1>3
  <1>7. Numbered(u, c)
    <2>1. \A i \in Ids :
             /\ u.schedules[i].slot <= c
             /\ u.schedules[i].slot = 0 <=> u.schedules[i].type \in {"none", "dependency"}
      BY <1>1, <1>6, NoScheduleFields, SMT, Z3 DEF Numbered
    <2>2. \A x \in u.tickers : 0 < x.slot /\ x.slot <= c
      BY <1>1, <1>4 DEF Numbered
    <2>3. \A x \in u.cronLib : 0 < x.slot /\ x.slot <= c
      BY <1>1, <1>3 DEF Numbered
    <2>4. \A i, j \in Ids : u.schedules[i].slot = u.schedules[j].slot /\ u.schedules[i].slot # 0 => i = j
      BY <1>1, <1>6, NoScheduleFields, SMT, Z3 DEF Numbered
    <2> QED
      BY <2>1, <2>2, <2>3, <2>4 DEF Numbered
  <1>8. Paired(u)
    BY <1>1, <1>6, NoScheduleFields DEF Paired
  (* Only the pipeline itself has a ticker or an entry of its slot. *)
  <1>9. \A x \in t.tickers \cup t.cronLib : x.id = id /\ (x \in t.tickers => ~x.closed) => x.slot = t.schedules[id].slot
    BY <1>1, SMT, Z3 DEF Fitting, TickerOf, CronOf
  <1>10. \A i \in Ids \ {id} : t.schedules[i].type \in {"periodic", "cron"} => t.schedules[i].slot # t.schedules[id].slot
    BY <1>1 DEF Numbered
  <1>11. ASSUME NEW i \in Ids \ {id} PROVE TickerOf(u, i) = TickerOf(t, i) /\ CronOf(u, i) = CronOf(t, i)
    BY <1>6, <1>11, Zenon DEF TickerOf, CronOf
  <1>12. Fitting(u)
    <2>1. ASSUME NEW y \in u.tickers, ~y.closed PROVE u.schedules[y.id].type = "periodic" /\ y = TickerOf(u, y.id)
      <3>1. y \in t.tickers /\ y.slot # t.schedules[id].slot
        BY <1>4, <2>1
      <3>2. t.schedules[y.id].type = "periodic" /\ y = TickerOf(t, y.id)
        BY <1>1, <2>1, <3>1 DEF Fitting
      <3>3. y.id \in Ids \ {id}
        BY <1>2, <1>9, <2>1, <3>1 DEF TickerSet
      <3> QED
        BY <1>6, <1>11, <3>2, <3>3
    <2>2. ASSUME NEW y \in u.cronLib PROVE u.schedules[y.id].type = "cron" /\ y = CronOf(u, y.id)
      <3>1. y \in t.cronLib /\ y.slot # t.schedules[id].slot
        BY <1>3, <2>2
      <3>2. t.schedules[y.id].type = "cron" /\ y = CronOf(t, y.id)
        BY <1>1, <3>1 DEF Fitting
      <3>3. y.id \in Ids \ {id}
        <4>1. y.id \in Ids
          BY <1>2, <3>1 DEF CronSet
        <4>2. y.slot = t.schedules[y.id].slot
          BY <3>2, SMT, Z3 DEF CronOf
        <4> QED
          BY <3>1, <4>1, <4>2
      <3> QED
        BY <1>6, <1>11, <3>2, <3>3
    <2>3. ASSUME NEW i \in Ids, u.schedules[i].type = "periodic" PROVE TickerOf(u, i) \in u.tickers
      <3>1. i # id /\ t.schedules[i].type = "periodic"
        BY <1>6, <2>3, NoScheduleFields
      <3>2. TickerOf(t, i) \in t.tickers /\ TickerOf(t, i).slot = t.schedules[i].slot
        BY <1>1, <3>1 DEF Fitting, TickerOf
      <3> QED
        BY <1>4, <1>10, <1>11, <3>1, <3>2
    <2>4. ASSUME NEW i \in Ids, u.schedules[i].type = "cron" PROVE CronOf(u, i) \in u.cronLib
      <3>1. i # id /\ t.schedules[i].type = "cron"
        BY <1>6, <2>4, NoScheduleFields
      <3>2. CronOf(t, i) \in t.cronLib /\ CronOf(t, i).slot = t.schedules[i].slot
        BY <1>1, <3>1 DEF Fitting, CronOf
      <3> QED
        BY <1>3, <1>10, <1>11, <3>1, <3>2
    <2> QED
      BY <2>1, <2>2, <2>3, <2>4 DEF Fitting
  <1>13. Whole(u, c) /\ u.schedules[id] = NoSchedule
    BY <1>1, <1>5, <1>6, <1>7, <1>8, <1>12 DEF Whole
  <1> QED
    BY <1>13 DEF u

(* The table after registerDeferredLocked, for a pipeline that had no executor, is
   whole, and counts one change more. *)
LEMMA RegisterKeeps ==
    ASSUME NEW t, NEW id \in Ids, NEW runner \in Runners, NEW cfg, Whole(t, changes), t.schedules[id] = NoSchedule,
           cfg.type \in {"cron", "periodic", "dependency"}, cfg.deps \in SUBSET Ids
    PROVE  Whole(registerDeferredLocked(t, id, runner, cfg), changes + 1)
  <1> DEFINE u == registerDeferredLocked(t, id, runner, cfg)
             slot == IF cfg.type = "dependency" THEN 0 ELSE changes + 1
             sched == [type |-> cfg.type, deps |-> cfg.deps, slot |-> slot]
             ticker == [slot |-> slot, id |-> id, runner |-> runner, closed |-> FALSE]
             entry == [slot |-> slot, id |-> id, runner |-> runner]
  <1>1. t \in TableSet /\ changes \in Nat /\ Numbered(t, changes) /\ Paired(t) /\ Fitting(t)
    BY DEF Whole
  <1>2. /\ t.schedules \in [Ids -> ScheduleSet] /\ t.runners \in [Ids -> Runners \cup {NoRunner}]
        /\ t.tickers \subseteq TickerSet /\ t.cronLib \subseteq CronSet
    BY <1>1, TableFields, Zenon
  <1>3. /\ u = [schedules |-> u.schedules, runners |-> u.runners, tickers |-> u.tickers, cronLib |-> u.cronLib]
        /\ u.schedules = [t.schedules EXCEPT ![id] = sched]
        /\ u.runners = [t.runners EXCEPT ![id] = runner]
        /\ u.tickers = t.tickers \cup (IF cfg.type = "periodic" THEN {ticker} ELSE {})
        /\ u.cronLib = t.cronLib \cup (IF cfg.type = "cron" THEN {entry} ELSE {})
    BY DEF registerDeferredLocked
  <1> HIDE DEF u
  <1>4. slot \in Nat /\ (slot = 0 <=> cfg.type = "dependency") /\ slot <= changes + 1 /\ (slot # 0 => slot = changes + 1)
    BY <1>1, SMT, Z3
  <1> HIDE DEF slot
  <1>5. /\ sched \in ScheduleSet /\ sched.type = cfg.type /\ sched.slot = slot /\ sched # NoSchedule
        /\ ticker \in TickerSet /\ ticker.slot = slot /\ ticker.id = id /\ ticker.runner = runner /\ ~ticker.closed
        /\ entry \in CronSet /\ entry.slot = slot /\ entry.id = id /\ entry.runner = runner
    BY <1>4 DEF ScheduleSet, TickerSet, CronSet, NoSchedule
  <1>6. u \in TableSet
    <2>1. u.schedules \in [Ids -> ScheduleSet] /\ u.runners \in [Ids -> Runners \cup {NoRunner}]
      BY <1>2, <1>3, <1>5, SMT, Z3
    <2>2. u.tickers \in SUBSET TickerSet /\ u.cronLib \in SUBSET CronSet
      BY <1>2, <1>3, <1>5, Zenon
    <2> QED
      BY <1>3, <2>1, <2>2 DEF TableSet
  <1>7. \A i \in Ids : /\ u.schedules[i] = (IF i = id THEN sched ELSE t.schedules[i])
                       /\ u.runners[i] = (IF i = id THEN runner ELSE t.runners[i])
    BY <1>2, <1>3
  <1>8. \A i \in Ids : i # id => TickerOf(u, i) = TickerOf(t, i) /\ CronOf(u, i) = CronOf(t, i)
    BY <1>7, Zenon DEF TickerOf, CronOf
  <1>9. TickerOf(u, id) = ticker /\ CronOf(u, id) = entry
    BY <1>5, <1>7, Zenon DEF TickerOf, CronOf
  <1>10. /\ \A x \in u.tickers : x \in t.tickers \/ (x = ticker /\ cfg.type = "periodic")
         /\ \A x \in u.cronLib : x \in t.cronLib \/ (x = entry /\ cfg.type = "cron")
         /\ t.tickers \subseteq u.tickers /\ t.cronLib \subseteq u.cronLib
         /\ cfg.type = "periodic" => ticker \in u.tickers
         /\ cfg.type = "cron" => entry \in u.cronLib
    BY <1>3
  <1> HIDE DEF sched, ticker, entry
  <1>11. Numbered(u, changes + 1)
    <2>1. \A i \in Ids : t.schedules[i].slot \in Nat
      BY <1>2 DEF ScheduleSet
    <2>2. /\ \A x \in t.tickers : x.slot \in Nat
          /\ \A x \in t.cronLib : x.slot \in Nat
      BY <1>2 DEF TickerSet, CronSet
    <2>3. \A i \in Ids :
             /\ u.schedules[i].slot <= changes + 1
             /\ u.schedules[i].slot = 0 <=> u.schedules[i].type \in {"none", "dependency"}
      BY <1>1, <1>4, <1>5, <1>7, <2>1, SMT, Z3 DEF Numbered
    <2>4. \A x \in u.tickers : 0 < x.slot /\ x.slot <= changes + 1
      BY <1>1, <1>4, <1>5, <1>10, <2>2, SMT, Z3 DEF Numbered
    <2>5. \A x \in u.cronLib : 0 < x.slot /\ x.slot <= changes + 1
      BY <1>1, <1>4, <1>5, <1>10, <2>2, SMT, Z3 DEF Numbered
    <2>6. \A i, j \in Ids : u.schedules[i].slot = u.schedules[j].slot /\ u.schedules[i].slot # 0 => i = j
      BY <1>1, <1>4, <1>5, <1>7, <2>1, SMT, Z3 DEF Numbered
    <2> QED
      BY <2>3, <2>4, <2>5, <2>6 DEF Numbered
  <1>12. Paired(u)
    <2>1. runner # NoRunner /\ sched.type # "none"
      BY <1>5, SchedAssumption
    <2> QED
      BY <1>1, <1>5, <1>7, <2>1 DEF Paired
  (* Nothing fires for a pipeline without a schedule. *)
  <1>13. /\ \A x \in t.tickers : ~x.closed => x.id # id
         /\ \A x \in t.cronLib : x.id # id
    BY <1>1, NoScheduleFields DEF Fitting
  <1>14. Fitting(u)
    <2>1. ASSUME NEW x \in u.tickers, ~x.closed PROVE u.schedules[x.id].type = "periodic" /\ x = TickerOf(u, x.id)
      <3>1. CASE x \in t.tickers
        <4>1. x.id \in Ids /\ x.id # id
          BY <1>2, <1>13, <2>1, <3>1 DEF TickerSet
        <4>2. t.schedules[x.id].type = "periodic" /\ x = TickerOf(t, x.id)
          BY <1>1, <2>1, <3>1 DEF Fitting
        <4> QED
          BY <1>7, <1>8, <4>1, <4>2
      <3>2. CASE x = ticker /\ cfg.type = "periodic"
        BY <1>5, <1>7, <1>9, <3>2
      <3> QED
        BY <1>10, <3>1, <3>2
    <2>2. ASSUME NEW x \in u.cronLib PROVE u.schedules[x.id].type = "cron" /\ x = CronOf(u, x.id)
      <3>1. CASE x \in t.cronLib
        <4>1. x.id \in Ids /\ x.id # id
          BY <1>2, <1>13, <2>2, <3>1 DEF CronSet
        <4>2. t.schedules[x.id].type = "cron" /\ x = CronOf(t, x.id)
          BY <1>1, <3>1 DEF Fitting
        <4> QED
          BY <1>7, <1>8, <4>1, <4>2
      <3>2. CASE x = entry /\ cfg.type = "cron"
        BY <1>5, <1>7, <1>9, <3>2, Zenon
      <3> QED
        BY <1>10, <3>1, <3>2
    <2>3. ASSUME NEW i \in Ids
          PROVE  /\ u.schedules[i].type = "periodic" => TickerOf(u, i) \in u.tickers
                 /\ u.schedules[i].type = "cron" => CronOf(u, i) \in u.cronLib
      BY <1>1, <1>5, <1>7, <1>8, <1>9, <1>10 DEF Fitting
    <2> QED
      BY <2>1, <2>2, <2>3 DEF Fitting
  <1> QED
    BY <1>1, <1>6, <1>11, <1>12, <1>14, SMT, Z3 DEF Whole, u

(* A change may be counted without one having been made. *)
LEMMA WholeStays ==
    ASSUME NEW t, NEW c, Whole(t, c)
    PROVE  Whole(t, c + 1)
  <1>1. t \in TableSet /\ c \in Nat /\ Numbered(t, c) /\ Paired(t) /\ Fitting(t)
    BY DEF Whole
  <1>2. /\ \A i \in Ids : t.schedules[i].slot \in Nat
        /\ \A x \in t.tickers : x.slot \in Nat
        /\ \A x \in t.cronLib : x.slot \in Nat
    BY <1>1 DEF TableSet, ScheduleSet, TickerSet, CronSet
  <1>3. Numbered(t, c + 1)
    BY <1>1, <1>2, SMT, Z3 DEF Numbered
  <1> QED
    BY <1>1, <1>3, SMT, Z3 DEF Whole

\* -------------------------------- the steps --------------------------------

(* What Install puts in place is what the table says. *)
LEMMA Installed ==
    ASSUME NEW t \in TableSet, Install(t), Whole(t, changes + 1)
    PROVE  Whole(Table, changes)'
  <1>1. Table' = t /\ changes' = changes + 1
    BY DEF Install, Table, TableSet
  <1> QED
    BY <1>1

LEMMA TableParts ==
    /\ Table.schedules = schedules /\ Table.runners = runners
    /\ Table.tickers = tickers /\ Table.cronLib = cronLib
  BY DEF Table

(* restoreExecutorLocked keeps the table whole: a snapshot without a schedule has no
   runner either. *)
LEMMA RestoreKeeps ==
    ASSUME NEW t, NEW id \in Ids, NEW old \in ExecutorSet, Whole(t, changes)
    PROVE  Whole(restoreExecutorLocked(t, id, old), changes + 1)
  <1> DEFINE bare == removeExecutorLocked(t, id)
  <1>1. Whole(bare, changes) /\ bare.schedules[id] = NoSchedule
    BY RemoveKeeps
  <1>2. bare.runners = [t.runners EXCEPT ![id] = NoRunner] /\ t.runners \in [Ids -> Runners \cup {NoRunner}]
    BY TableFields DEF removeExecutorLocked, Whole
  <1>3. bare = [schedules |-> bare.schedules, runners |-> bare.runners, tickers |-> bare.tickers, cronLib |-> bare.cronLib]
    BY DEF removeExecutorLocked
  <1>4. restoreExecutorLocked(t, id, old) =
           IF old.schedule = NoSchedule THEN [bare EXCEPT !.runners[id] = old.runner]
           ELSE registerDeferredLocked(bare, id, old.runner, old.schedule)
    BY DEF restoreExecutorLocked
  <1> HIDE DEF bare
  <1>5. CASE old.schedule = NoSchedule
    <2>1. old.runner = NoRunner
      BY <1>5, NoScheduleFields, SMT, Z3 DEF ExecutorSet
    <2>2. [bare.runners EXCEPT ![id] = NoRunner] = bare.runners
      BY <1>2
    <2>3. [bare EXCEPT !.runners[id] = NoRunner] =
             [schedules |-> bare.schedules, runners |-> [bare.runners EXCEPT ![id] = NoRunner],
              tickers |-> bare.tickers, cronLib |-> bare.cronLib]
      BY <1>3, SMT, Z3
    <2>4. restoreExecutorLocked(t, id, old) = bare
      BY <1>3, <1>4, <1>5, <2>1, <2>2, <2>3
    <2> QED
      BY <1>1, <2>4, WholeStays
  <1>6. CASE old.schedule # NoSchedule
    <2>1. /\ old.runner \in Runners /\ old.schedule.type \in {"cron", "periodic", "dependency"}
          /\ old.schedule.deps \in SUBSET Ids
      BY <1>6, SMT, Z3 DEF ExecutorSet, ScheduleSet
    <2>2. Whole(registerDeferredLocked(bare, id, old.runner, old.schedule), changes + 1)
      BY <1>1, <2>1, RegisterKeeps
    <2> QED
      BY <1>4, <1>6, <2>2
  <1> QED
    BY <1>5, <1>6

(* A snapshot of a whole table is an executor that can be put up again. *)
LEMMA SnapshotFits ==
    ASSUME NEW id \in Ids, SchedInv
    PROVE  snapshotExecutorLocked(id) \in ExecutorSet
  <1>1. /\ schedules \in [Ids -> ScheduleSet] /\ runners \in [Ids -> Runners \cup {NoRunner}]
        /\ schedules[id].type = "none" <=> schedules[id] = NoSchedule
        /\ schedules[id] = NoSchedule <=> runners[id] = NoRunner
    BY TableFields, TableParts DEF SchedInv, Whole, Paired
  <1> QED
    BY <1>1, SchedAssumption DEF snapshotExecutorLocked, ExecutorSet

LEMMA InitSchedInv == SchedInit => SchedInv
  <1> SUFFICES ASSUME SchedInit PROVE SchedInv
    OBVIOUS
  <1>1. /\ schedules = [id \in Ids |-> NoSchedule] /\ runners = [id \in Ids |-> NoRunner]
        /\ tickers = {} /\ cronLib = {} /\ changes = 0
    BY DEF SchedInit
  <1>2. Table \in TableSet
    BY <1>1, NoScheduleFields DEF Table, TableSet
  <1>3. Numbered(Table, changes) /\ Paired(Table) /\ Fitting(Table)
    BY <1>1, NoScheduleFields, TableParts, SMT, Z3 DEF Numbered, Paired, Fitting
  <1>4. repl \in [Handles -> {NoRepl} \cup Prepared \cup Committed]
    BY DEF SchedInit
  <1> QED
    BY <1>1, <1>2, <1>3, <1>4 DEF SchedInv, Whole

LEMMA ReplFields ==
    ASSUME NEW h \in Handles, SchedInv
    PROVE  /\ repl[h].st = "prepared" => repl[h] \in Prepared
           /\ repl[h].st = "committed" => repl[h] \in Committed
           /\ repl[h].st # "none" /\ repl[h].st # "prepared" => repl[h] \in Committed
  BY SMT, Z3 DEF SchedInv, Prepared, Committed, NoRepl

(* The configurations of the requests are those the table takes. *)
LEMMA ConfigFits ==
    ASSUME NEW id \in Ids, NEW cfg \in Configs(id)
    PROVE  cfg \in ConfigSet({"streaming", "cron", "periodic", "dependency"})
  BY SchedAssumption, SMT, Z3 DEF Configs, ConfigSet

LEMMA RunnerFits ==
    ASSUME NEW id \in Ids, NEW v \in Versions[id]
    PROVE  <<id, v>> \in Runners
  BY SMT, Z3 DEF Runners

(* What a step that changes the maps does to them. *)
LEMMA ChangeKeeps ==
    ASSUME SchedInv, NEW t, Install(t), Whole(t, changes + 1),
           repl' \in [Handles -> {NoRepl} \cup Prepared \cup Committed]
    PROVE  SchedInv'
  <1>1. Whole(Table, changes)'
    BY Installed DEF Whole
  <1> QED
    BY <1>1 DEF SchedInv

(* A step that leaves the maps alone. *)
LEMMA NoChangeKeeps ==
    ASSUME SchedInv, UNCHANGED <<schedules, runners, tickers, cronLib, changes>>,
           repl' \in [Handles -> {NoRepl} \cup Prepared \cup Committed]
    PROVE  SchedInv'
  <1>1. Table' = Table /\ changes' = changes
    BY DEF Table
  <1> QED
    BY <1>1 DEF SchedInv

(* After Commit, Rollback, RegisterExecutor, Unregister, what is installed is whole. *)
LEMMA CommitTable ==
    ASSUME SchedInv, NEW h \in Handles, Commit(h)
    PROVE  LET r == repl[h]
               bare == removeExecutorLocked(Table, r.id)
               new == IF isDeferred(r.cfg) THEN registerDeferredLocked(bare, r.id, r.runner, r.cfg) ELSE bare
           IN  Install(new) /\ Whole(new, changes + 1) /\ r \in Prepared
  <1> DEFINE r == repl[h]
             bare == removeExecutorLocked(Table, r.id)
             new == IF isDeferred(r.cfg) THEN registerDeferredLocked(bare, r.id, r.runner, r.cfg) ELSE bare
  <1>1. r.st = "prepared" /\ Install(new)
    BY DEF Commit
  <1>2. /\ r \in Prepared /\ r.id \in Ids /\ r.runner \in Runners /\ r.cfg.deps \in SUBSET Ids
        /\ r.cfg.type \in {"streaming", "cron", "periodic", "dependency"}
    BY <1>1, ReplFields, Zenon DEF Prepared, ConfigSet
  <1>3. Whole(bare, changes) /\ bare.schedules[r.id] = NoSchedule
    BY <1>2, RemoveKeeps, Zenon DEF SchedInv
  <1>4. CASE isDeferred(r.cfg)
    <2>1. r.cfg.type \in {"cron", "periodic", "dependency"}
      BY <1>2, <1>4 DEF isDeferred
    <2> HIDE DEF bare, r
    <2>2. Whole(registerDeferredLocked(bare, r.id, r.runner, r.cfg), changes + 1)
      BY <1>2, <1>3, <2>1, RegisterKeeps
    <2>3. Whole(new, changes + 1)
      BY <1>4, <2>2
    <2> QED
      BY <1>1, <1>2, <2>3 DEF r, bare
  <1>5. CASE ~isDeferred(r.cfg)
    <2> HIDE DEF bare, r
    <2>1. Whole(new, changes + 1)
      BY <1>3, <1>5, WholeStays, Zenon
    <2> QED
      BY <1>1, <1>2, <2>1 DEF r, bare
  <1> QED
    BY <1>4, <1>5

LEMMA SchedInvKept == SchedInv /\ [SchedNext]_schedVars => SchedInv'
  <1> SUFFICES ASSUME SchedInv, [SchedNext]_schedVars PROVE SchedInv'
    OBVIOUS
  <1> DEFINE Repls == {NoRepl} \cup Prepared \cup Committed
  <1>1. repl \in [Handles -> Repls] /\ Whole(Table, changes)
    BY DEF SchedInv
  <1>2. NoRepl \in Repls
    OBVIOUS
  <1>3. ASSUME NEW h \in Handles, NEW id \in Ids, NEW v \in Versions[id], NEW cfg \in Configs(id),
               PrepareExecutor(h, id, v, cfg)
        PROVE  SchedInv'
    <2>1. [st |-> "prepared", id |-> id, runner |-> <<id, v>>, cfg |-> cfg] \in Prepared
      BY ConfigFits, RunnerFits DEF Prepared
    <2>2. repl' \in [Handles -> Repls]
      BY <1>1, <1>3, <2>1 DEF PrepareExecutor
    <2> QED
      BY <1>3, <2>2, NoChangeKeeps DEF PrepareExecutor
  <1>4. ASSUME NEW h \in Handles, Commit(h) PROVE SchedInv'
    <2> DEFINE r == repl[h]
               bare == removeExecutorLocked(Table, r.id)
               new == IF isDeferred(r.cfg) THEN registerDeferredLocked(bare, r.id, r.runner, r.cfg) ELSE bare
    <2>1. Install(new) /\ Whole(new, changes + 1) /\ repl[h] \in Prepared
      BY <1>4, CommitTable, Zenon
    <2>2. [st |-> "committed", id |-> repl[h].id, old |-> snapshotExecutorLocked(repl[h].id)] \in Committed
      BY <2>1, SnapshotFits DEF Prepared, Committed
    <2>3. repl' \in [Handles -> Repls]
      BY <1>1, <1>4, <2>2 DEF Commit
    <2> HIDE DEF new
    <2> QED
      BY <2>1, <2>3, ChangeKeeps
  <1>5. ASSUME NEW h \in Handles, Rollback(h) PROVE SchedInv'
    <2>1. repl' \in [Handles -> Repls]
      BY <1>1, <1>2, <1>5 DEF Rollback
    <2>2. CASE repl[h].st = "prepared"
      BY <1>5, <2>1, <2>2, NoChangeKeeps DEF Rollback
    <2>3. CASE repl[h].st # "prepared"
      <3>1. Install(restoreExecutorLocked(Table, repl[h].id, repl[h].old)) /\ repl[h] \in Committed
        BY <1>5, <2>3, ReplFields DEF Rollback
      <3>2. Whole(restoreExecutorLocked(Table, repl[h].id, repl[h].old), changes + 1)
        BY <1>1, <3>1, RestoreKeeps DEF Committed
      <3> QED
        BY <2>1, <3>1, <3>2, ChangeKeeps
    <2> QED
      BY <2>2, <2>3
  <1>6. ASSUME NEW h \in Handles, Release(h) PROVE SchedInv'
    <2>1. repl' \in [Handles -> Repls]
      BY <1>1, <1>2, <1>6 DEF Release
    <2> QED
      BY <1>6, <2>1, NoChangeKeeps DEF Release
  <1>7. ASSUME NEW id \in Ids, NEW v \in Versions[id], NEW cfg \in Configs(id), RegisterExecutor(id, v, cfg)
        PROVE  SchedInv'
    <2>1. /\ schedules[id] = NoSchedule /\ Install(registerDeferredLocked(Table, id, <<id, v>>, cfg)) /\ repl' = repl
          /\ cfg.type # "streaming"
      BY <1>7 DEF RegisterExecutor, isDeferred
    <2>2. cfg.type \in {"cron", "periodic", "dependency"} /\ cfg.deps \in SUBSET Ids
      BY <2>1, ConfigFits, Zenon DEF ConfigSet
    <2>3. Whole(registerDeferredLocked(Table, id, <<id, v>>, cfg), changes + 1)
      BY <1>1, <2>1, <2>2, RegisterKeeps, RunnerFits, TableParts
    <2> QED
      BY <1>1, <2>1, <2>3, ChangeKeeps, Zenon
  <1>8. ASSUME NEW id \in Ids, Unregister(id) PROVE SchedInv'
    <2>1. Install(removeExecutorLocked(Table, id)) /\ repl' = repl
      BY <1>8 DEF Unregister
    <2>2. Whole(removeExecutorLocked(Table, id), changes + 1)
      BY <1>1, RemoveKeeps, WholeStays
    <2> QED
      BY <1>1, <2>1, <2>2, ChangeKeeps, Zenon
  <1>9. CASE StopAll
    <2> DEFINE shut(x) == [x EXCEPT !.closed = TRUE]
    <2>1. /\ schedules' = [id \in Ids |-> NoSchedule] /\ runners' = [id \in Ids |-> NoRunner]
          /\ tickers' = {shut(x) : x \in tickers} /\ cronLib' = {} /\ changes' = changes /\ repl' = repl
      BY <1>9 DEF StopAll
    <2>2. tickers \subseteq TickerSet /\ \A x \in tickers : 0 < x.slot /\ x.slot <= changes
      BY <1>1, TableFields, TableParts, Zenon DEF Whole, Numbered
    <2>3. \A x \in tickers : shut(x) \in TickerSet /\ shut(x).closed /\ shut(x).slot = x.slot
      BY <2>2, ClosedTicker, Zenon
    <2> HIDE DEF shut
    <2>4. Table' \in TableSet
      BY <2>1, <2>3, NoScheduleFields DEF Table, TableSet
    <2>5. /\ Table'.schedules = schedules' /\ Table'.runners = runners'
          /\ Table'.tickers = tickers' /\ Table'.cronLib = cronLib'
      BY DEF Table
    <2>6. changes \in Nat
      BY <1>1, Zenon DEF Whole
    <2>7. Numbered(Table', changes')
      BY <2>1, <2>2, <2>3, <2>5, <2>6, NoScheduleFields, SMT, Z3 DEF Numbered
    <2>8. Paired(Table')
      BY <2>1, <2>5, NoScheduleFields, ZenonT(40) DEF Paired
    <2>9. Fitting(Table')
      BY <2>1, <2>3, <2>5, NoScheduleFields, SMT, Z3 DEF Fitting
    <2> QED
      BY <1>1, <2>1, <2>4, <2>6, <2>7, <2>8, <2>9 DEF SchedInv, Whole
  <1>10. ASSUME NEW x \in tickers, TickerStops(x) PROVE SchedInv'
    <2>1. x.closed /\ tickers' = tickers \ {x} /\ UNCHANGED <<schedules, runners, cronLib, changes, repl>>
      BY <1>10 DEF TickerStops
    <2>2. /\ Table'.schedules = Table.schedules /\ Table'.runners = Table.runners
          /\ Table'.tickers = Table.tickers \ {x} /\ Table'.cronLib = Table.cronLib
      BY <2>1, Zenon DEF Table
    <2>3. Table' \in TableSet
      BY <1>1, <2>1, Zenon DEF Table, TableSet, Whole
    <2>4. Numbered(Table', changes') /\ Paired(Table')
      BY <1>1, <2>1, <2>2, SMT, Z3 DEF Whole, Numbered, Paired
    <2>5. \A id \in Ids : TickerOf(Table', id) = TickerOf(Table, id) /\ CronOf(Table', id) = CronOf(Table, id)
                          /\ TickerOf(Table, id) # x
      BY <2>1, <2>2, SMT, Z3 DEF TickerOf, CronOf
    <2>6. /\ \A y \in Table.tickers : y.id \in Ids
          /\ \A y \in Table.cronLib : y.id \in Ids
      BY <1>1, ZenonT(40) DEF Whole, TableSet, TickerSet, CronSet
    <2>7. Fitting(Table')
      BY <1>1, <2>2, <2>5, <2>6, SMT, Z3 DEF Whole, Fitting
    <2> QED
      BY <1>1, <2>1, <2>3, <2>4, <2>7 DEF SchedInv, Whole
  <1>11. CASE Triggers /\ ~(\E x \in tickers : TickerStops(x))
    <2>1. UNCHANGED <<schedules, runners, tickers, cronLib, changes, repl>>
      BY <1>11, Zenon DEF Triggers, Tick, CronFires, triggerPipeline, Complete, NotifyOne, NotifyReturns
    <2> QED
      BY <1>1, <2>1, NoChangeKeeps
  <1>12. CASE UNCHANGED schedVars
    BY <1>1, <1>12, NoChangeKeeps DEF schedVars
  <1> QED
    BY <1>3, <1>4, <1>5, <1>6, <1>7, <1>8, <1>9, <1>10, <1>11, <1>12 DEF SchedNext, Control, Triggers

\* ------------------------------- the board --------------------------------

Leaving(t) == {<<x.id, x.runner>> : x \in {y \in t.tickers : y.closed}}
PostedBy(t) == {<<id, t.runners[id]>> : id \in {i \in Ids : t.runners[i] # NoRunner}}

(* An open ticker holds what is on the board. *)
LEMMA OpenIsPosted ==
    ASSUME NEW t, NEW c, Whole(t, c)
    PROVE  /\ \A x \in t.tickers : ~x.closed => <<x.id, x.runner>> \in PostedBy(t)
           /\ \A x \in t.cronLib : <<x.id, x.runner>> \in PostedBy(t)
  <1>1. /\ \A x \in t.tickers : x.id \in Ids /\ x.runner \in Runners
        /\ \A x \in t.cronLib : x.id \in Ids /\ x.runner \in Runners
    BY DEF Whole, TableSet, TickerSet, CronSet
  <1>2. /\ \A x \in t.tickers : ~x.closed => x.runner = t.runners[x.id]
        /\ \A x \in t.cronLib : x.runner = t.runners[x.id]
    BY SMT, Z3 DEF Whole, Fitting, TickerOf, CronOf
  <1> QED
    BY <1>1, <1>2, SchedAssumption DEF PostedBy

(* removeExecutorLocked lets what was on the board leave, and nothing else. *)
LEMMA RemoveLeaves ==
    ASSUME NEW t, NEW c, NEW id \in Ids, Whole(t, c)
    PROVE  /\ Leaving(t) \subseteq Leaving(removeExecutorLocked(t, id))
           /\ Leaving(removeExecutorLocked(t, id)) \subseteq Leaving(t) \cup PostedBy(t)
  <1> DEFINE u == removeExecutorLocked(t, id)
  <1>1. t.tickers \subseteq TickerSet
    BY TableFields DEF Whole
  <1>2. /\ \A y \in u.tickers : \E x \in t.tickers : y.id = x.id /\ y.runner = x.runner
        /\ \A x \in t.tickers : x.closed => x \in u.tickers
    BY <1>1, RemovedTickers, SMT, Z3
  <1>3. \A x \in t.tickers : <<x.id, x.runner>> \in Leaving(t) \cup PostedBy(t)
    BY OpenIsPosted, Zenon DEF Leaving
  <1> HIDE DEF u
  <1>4. Leaving(t) \subseteq Leaving(u)
    BY <1>2 DEF Leaving
  <1>5. Leaving(u) \subseteq Leaving(t) \cup PostedBy(t)
    BY <1>2, <1>3, SMT, Z3 DEF Leaving
  <1> QED
    BY <1>4, <1>5, Zenon DEF u

LEMMA RegisterLeaves ==
    ASSUME NEW t, NEW id, NEW runner, NEW cfg
    PROVE  Leaving(registerDeferredLocked(t, id, runner, cfg)) = Leaving(t)
  <1> DEFINE u == registerDeferredLocked(t, id, runner, cfg)
  <1>1. \A x : x \in u.tickers /\ x.closed <=> x \in t.tickers /\ x.closed
    BY SMT, Z3 DEF registerDeferredLocked
  <1> HIDE DEF u
  <1>2. {x \in u.tickers : x.closed} = {x \in t.tickers : x.closed}
    BY <1>1
  <1>3. Leaving(u) = Leaving(t)
    BY <1>2 DEF Leaving
  <1> QED
    BY <1>3, Zenon DEF u

(* The mapping of the tables to the board. *)
LEMMA BoardParts ==
    /\ Board!Posted = PostedBy(Table)
    /\ Leaving(Table) = {<<x.id, x.runner>> : x \in {t \in tickers : t.closed}}
  BY TableParts, Zenon DEF Board!Posted, PostedBy, Leaving

(* Replacing the table by one that lets what was posted leave is a Post. *)
LEMMA InstallPosts ==
    ASSUME SchedInv, NEW t, Install(t), Whole(t, changes + 1), pending' = pending,
           Leaving(Table) \subseteq Leaving(t), Leaving(t) \subseteq Leaving(Table) \cup PostedBy(Table)
    PROVE  Board!Post
  <1>1. runners' = t.runners /\ t.runners \in [Ids -> Runners \cup {NoRunner}] /\ tickers' = t.tickers
    BY TableFields DEF Install, Whole
  <1>2. Leaving(t) = {<<x.id, x.runner>> : x \in {y \in tickers' : y.closed}}
    BY <1>1 DEF Leaving
  <1> QED
    BY <1>1, <1>2, BoardParts DEF Board!Post

(* restoreExecutorLocked closes what removeExecutorLocked closes. *)
LEMMA RestoreLeaves ==
    ASSUME NEW t, NEW id, NEW old
    PROVE  Leaving(restoreExecutorLocked(t, id, old)) = Leaving(removeExecutorLocked(t, id))
  <1> DEFINE bare == removeExecutorLocked(t, id)
             same == [bare EXCEPT !.runners[id] = old.runner]
  <1>1. bare = [schedules |-> bare.schedules, runners |-> bare.runners, tickers |-> bare.tickers, cronLib |-> bare.cronLib]
    BY DEF removeExecutorLocked
  <1>2. restoreExecutorLocked(t, id, old) =
           IF old.schedule = NoSchedule THEN same ELSE registerDeferredLocked(bare, id, old.runner, old.schedule)
    BY DEF restoreExecutorLocked
  <1> HIDE DEF bare
  <1>3. same.tickers = bare.tickers
    BY <1>1
  <1> HIDE DEF same
  <1>4. Leaving(same) = Leaving(bare)
    BY <1>3 DEF Leaving
  <1>5. Leaving(registerDeferredLocked(bare, id, old.runner, old.schedule)) = Leaving(bare)
    BY RegisterLeaves
  <1> QED
    BY <1>2, <1>4, <1>5 DEF bare

LEMMA BoardBegins == SchedInit => Board!BoardInit
  BY Zenon DEF SchedInit, Board!BoardInit

(* The steps of the control plane are posts. *)
LEMMA ControlPosts ==
    ASSUME SchedInv, Control
    PROVE  Board!Post \/ UNCHANGED Board!boardVars
  <1>1. Whole(Table, changes)
    BY DEF SchedInv
  <1>2. ASSUME NEW h \in Handles, Commit(h) PROVE Board!Post
    <2> DEFINE r == repl[h]
               bare == removeExecutorLocked(Table, r.id)
               new == IF isDeferred(r.cfg) THEN registerDeferredLocked(bare, r.id, r.runner, r.cfg) ELSE bare
    <2>1. Install(new) /\ pending' = pending /\ r.st = "prepared"
      BY <1>2, Zenon DEF Commit
    <2>2. r.id \in Ids
      BY <2>1, ReplFields DEF Prepared
    <2>3. Whole(new, changes + 1)
      BY <1>2, CommitTable
    <2> HIDE DEF r
    <2>4. /\ Leaving(Table) \subseteq Leaving(bare)
          /\ Leaving(bare) \subseteq Leaving(Table) \cup PostedBy(Table)
      BY <1>1, <2>2, RemoveLeaves
    <2> HIDE DEF bare
    <2>5. Leaving(new) = Leaving(bare)
      BY RegisterLeaves
    <2> HIDE DEF new
    <2> QED
      BY <2>1, <2>3, <2>4, <2>5, InstallPosts
  <1>3. ASSUME NEW h \in Handles, Rollback(h) PROVE Board!Post \/ UNCHANGED Board!boardVars
    <2>1. CASE repl[h].st = "prepared"
      <3>1. UNCHANGED <<runners, tickers, pending>>
        BY <1>3, <2>1 DEF Rollback
      <3> QED
        BY <3>1 DEF Board!boardVars
    <2>2. CASE repl[h].st # "prepared"
      <3> DEFINE id == repl[h].id
                 new == restoreExecutorLocked(Table, id, repl[h].old)
      <3>1. Install(new) /\ pending' = pending /\ repl[h] \in Committed
        BY <1>3, <2>2, ReplFields DEF Rollback
      <3>2. id \in Ids /\ repl[h].old \in ExecutorSet
        BY <3>1 DEF Committed
      <3>3. Whole(new, changes + 1)
        BY <1>1, <3>2, RestoreKeeps
      <3>4. Leaving(new) = Leaving(removeExecutorLocked(Table, id))
        BY RestoreLeaves
      <3>5. /\ Leaving(Table) \subseteq Leaving(removeExecutorLocked(Table, id))
            /\ Leaving(removeExecutorLocked(Table, id)) \subseteq Leaving(Table) \cup PostedBy(Table)
        BY <1>1, <3>2, RemoveLeaves, Zenon
      <3> HIDE DEF new
      <3> QED
        BY <3>1, <3>3, <3>4, <3>5, InstallPosts
    <2> QED
      BY <2>1, <2>2
  <1>4. ASSUME NEW id \in Ids, NEW v \in Versions[id], NEW cfg \in Configs(id), RegisterExecutor(id, v, cfg)
        PROVE  Board!Post
    <2> DEFINE new == registerDeferredLocked(Table, id, <<id, v>>, cfg)
    <2>1. Install(new) /\ pending' = pending /\ schedules[id] = NoSchedule /\ cfg.type # "streaming"
      BY <1>4, Zenon DEF RegisterExecutor, isDeferred
    <2>2. cfg.type \in {"cron", "periodic", "dependency"} /\ cfg.deps \in SUBSET Ids
      BY <2>1, ConfigFits, Zenon DEF ConfigSet
    <2>3. Whole(new, changes + 1)
      BY <1>1, <2>1, <2>2, RegisterKeeps, RunnerFits, TableParts
    <2>4. Leaving(new) = Leaving(Table)
      BY RegisterLeaves
    <2> HIDE DEF new
    <2> QED
      BY <2>1, <2>3, <2>4, InstallPosts
  <1>5. ASSUME NEW id \in Ids, Unregister(id) PROVE Board!Post
    <2> DEFINE new == removeExecutorLocked(Table, id)
    <2>1. Install(new) /\ pending' = pending
      BY <1>5 DEF Unregister
    <2>2. Whole(new, changes + 1)
      BY <1>1, RemoveKeeps, WholeStays
    <2>3. Leaving(Table) \subseteq Leaving(new) /\ Leaving(new) \subseteq Leaving(Table) \cup PostedBy(Table)
      BY <1>1, RemoveLeaves, Zenon
    <2> HIDE DEF new
    <2> QED
      BY <2>1, <2>2, <2>3, InstallPosts
  <1>6. CASE StopAll
    <2> DEFINE shut(x) == [x EXCEPT !.closed = TRUE]
    <2>1. runners' = [id \in Ids |-> NoRunner] /\ tickers' = {shut(x) : x \in tickers} /\ pending' = pending
      BY <1>6 DEF StopAll
    <2>2. \A x \in tickers : shut(x).closed /\ shut(x).id = x.id /\ shut(x).runner = x.runner
      BY <1>1, ClosedTicker, TableFields, TableParts DEF Whole
    <2>3. \A x \in tickers : <<x.id, x.runner>> \in Leaving(Table) \cup PostedBy(Table)
      BY <1>1, OpenIsPosted, TableParts, Zenon DEF Leaving
    <2> HIDE DEF shut
    <2>4. {<<x.id, x.runner>> : x \in {t \in tickers' : t.closed}} = {<<x.id, x.runner>> : x \in tickers}
      BY <2>1, <2>2, SMT, Z3
    <2>5. Leaving(Table) \subseteq {<<x.id, x.runner>> : x \in tickers}
      BY TableParts, Zenon DEF Leaving
    <2> QED
      BY <2>1, <2>3, <2>4, <2>5, BoardParts DEF Board!Post
  <1>7. ASSUME NEW h \in Handles, Release(h) PROVE UNCHANGED Board!boardVars
    BY <1>7, Zenon DEF Release, Board!boardVars
  <1>8. ASSUME NEW h \in Handles, NEW id \in Ids, NEW v \in Versions[id], NEW cfg \in Configs(id),
               PrepareExecutor(h, id, v, cfg)
        PROVE  UNCHANGED Board!boardVars
    BY <1>8, Zenon DEF PrepareExecutor, Board!boardVars
  <1> QED
    BY <1>2, <1>3, <1>4, <1>5, <1>6, <1>7, <1>8 DEF Control

(* A call of triggerPipeline for what is posted, or still leaving, fires. *)
LEMMA CallFires ==
    ASSUME NEW id, NEW runner, NEW by, Call(id, runner, by), UNCHANGED <<runners, tickers>>,
           <<id, runner>> \in PostedBy(Table) \cup Leaving(Table)
    PROVE  \E x \in Board!Posted \cup Leaving(Table) : Board!Fire(x)
  <1>1. pending' = pending \cup {[id |-> id, runner |-> runner, by |-> by]}
    BY DEF Call
  <1>2. {<<p.id, p.runner>> : p \in pending'} = {<<p.id, p.runner>> : p \in pending} \cup {<<id, runner>>}
    <2> DEFINE q == [id |-> id, runner |-> runner, by |-> by]
               pair(p) == <<p.id, p.runner>>
    <2>1. pair(q) = <<id, runner>>
      OBVIOUS
    <2> HIDE DEF q, pair
    <2>2. pending' = pending \cup {q}
      BY <1>1 DEF q
    <2>3. {pair(p) : p \in pending'} = {pair(p) : p \in pending} \cup {pair(q)}
      BY <2>2, Zenon
    <2> QED
      BY <2>1, <2>3 DEF pair
  <1>3. Board!Fire(<<id, runner>>)
    BY <1>2, BoardParts DEF Board!Fire
  <1> QED
    BY <1>3, BoardParts

LEMMA TriggersMove ==
    ASSUME SchedInv, Triggers
    PROVE  Board!BoardNext \/ UNCHANGED Board!boardVars
  <1>1. Whole(Table, changes)
    BY DEF SchedInv
  <1>2. ASSUME \E x \in Board!Posted \cup Leaving(Table) : Board!Fire(x) PROVE Board!BoardNext
    BY <1>2, BoardParts DEF Board!BoardNext
  <1>3. ASSUME NEW x \in tickers, Tick(x) PROVE Board!BoardNext
    <2>1. <<x.id, x.runner>> \in PostedBy(Table) \cup Leaving(Table)
      BY <1>1, OpenIsPosted, TableParts DEF Leaving
    <2>2. Call(x.id, x.runner, <<"ticker", x.slot>>) /\ UNCHANGED <<runners, tickers>>
      BY <1>3 DEF Tick
    <2> QED
      BY <1>2, <2>1, <2>2, CallFires, Zenon
  <1>4. ASSUME NEW x \in cronLib, CronFires(x) PROVE Board!BoardNext
    <2>1. <<x.id, x.runner>> \in PostedBy(Table)
      BY <1>1, OpenIsPosted, TableParts
    <2>2. Call(x.id, x.runner, <<"cron", x.slot>>) /\ UNCHANGED <<runners, tickers>>
      BY <1>4, Zenon DEF CronFires
    <2> QED
      BY <1>2, <2>1, <2>2, CallFires
  <1>5. ASSUME NEW d \in Ids, NEW id \in Ids, NotifyOne(d, id) PROVE Board!BoardNext
    <2>1. /\ schedules[id].type = "dependency" /\ Call(id, runners[id], <<"walk", d>>)
          /\ UNCHANGED <<runners, tickers>>
      BY <1>5 DEF NotifyOne, dependsOn
    <2>2. runners[id] # NoRunner
      BY <1>1, <2>1, NoScheduleFields, TableParts DEF Whole, Paired
    <2>3. <<id, runners[id]>> \in PostedBy(Table)
      BY <2>2, TableParts, Zenon DEF PostedBy
    <2> QED
      BY <1>2, <2>1, <2>3, CallFires
  <1>6. ASSUME NEW x \in tickers, TickerStops(x) PROVE Board!BoardNext \/ UNCHANGED Board!boardVars
    <2> DEFINE gone == {<<y.id, y.runner>> : y \in {t \in tickers : t.closed}}
               left == {<<y.id, y.runner>> : y \in {t \in tickers' : t.closed}}
    <2>1. x.closed /\ tickers' = tickers \ {x} /\ UNCHANGED <<runners, pending>>
      BY <1>6 DEF TickerStops
    <2>2. <<x.id, x.runner>> \in gone /\ (left = gone \/ left = gone \ {<<x.id, x.runner>>})
      BY <2>1
    <2>3. CASE left = gone
      BY <2>1, <2>3, Zenon DEF Board!boardVars
    <2>4. CASE left = gone \ {<<x.id, x.runner>>}
      <3>1. Board!Leave(<<x.id, x.runner>>)
        BY <2>1, <2>4 DEF Board!Leave
      <3> QED
        BY <2>2, <3>1 DEF Board!BoardNext
    <2> QED
      BY <2>2, <2>3, <2>4
  <1>7. ASSUME NEW q \in pending, triggerPipeline(q) PROVE Board!BoardNext \/ UNCHANGED Board!boardVars
    <2> DEFINE was == {<<p.id, p.runner>> : p \in pending}
               now == {<<p.id, p.runner>> : p \in pending'}
    <2>1. pending' = pending \ {q} /\ UNCHANGED <<runners, tickers>>
      BY <1>7 DEF triggerPipeline
    <2>2. <<q.id, q.runner>> \in was /\ (now = was \/ now = was \ {<<q.id, q.runner>>})
      BY <2>1
    <2>3. CASE now = was
      BY <2>1, <2>3 DEF Board!boardVars
    <2>4. CASE now = was \ {<<q.id, q.runner>>}
      <3>1. Board!Settle(<<q.id, q.runner>>)
        BY <2>1, <2>4 DEF Board!Settle
      <3> QED
        BY <2>2, <3>1 DEF Board!BoardNext
    <2> QED
      BY <2>2, <2>3, <2>4
  <1>8. CASE (\E r \in busy : Complete(r)) \/ (\E d \in Ids : NotifyReturns(d))
    BY <1>8, Zenon DEF Complete, NotifyReturns, Board!boardVars
  <1> QED
    BY <1>3, <1>4, <1>5, <1>6, <1>7, <1>8, Zenon DEF Triggers

(* The scheduler implements the board: whatever requests, tickers and cron entries do
   in whatever order, only what is posted, or was posted by a ticker that has not seen
   its stopCh closed, is triggered, with the runner it was posted with (Commit,
   Rollback, RegisterExecutor, Unregister, StopAll, NotifyDependents). *)
THEOREM SchedulerImplementsBoard == SchedSpec => ImplementsBoard
  <1>1. SchedInv /\ [SchedNext]_schedVars => [Board!BoardNext]_(Board!boardVars)
    <2> SUFFICES ASSUME SchedInv, [SchedNext]_schedVars PROVE Board!BoardNext \/ UNCHANGED Board!boardVars
      OBVIOUS
    <2>1. CASE Control
      BY <2>1, ControlPosts DEF Board!BoardNext
    <2>2. CASE Triggers
      BY <2>2, TriggersMove
    <2>3. CASE UNCHANGED schedVars
      BY <2>3 DEF schedVars, Board!boardVars
    <2> QED
      BY <2>1, <2>2, <2>3 DEF SchedNext
  <1> QED
    BY <1>1, InitSchedInv, SchedInvKept, BoardBegins, PTL DEF SchedSpec, ImplementsBoard, Board!BoardSpec

\* ------------------------------- one trigger ------------------------------

(* From a whole table every schedule is triggered from one place. *)
LEMMA WholeIsOneTrigger == SchedInv => OneTriggerPerSchedule
  <1> SUFFICES ASSUME SchedInv PROVE OneTriggerPerSchedule
    OBVIOUS
  <1> DEFINE open == {x \in tickers : ~x.closed} \cup cronLib
  <1>1. Whole(Table, changes)
    BY Zenon DEF SchedInv
  <1>2. /\ \A id \in Ids : TickerOf(Table, id) = [slot |-> schedules[id].slot, id |-> id, runner |-> runners[id],
                                                  closed |-> FALSE]
        /\ \A id \in Ids : CronOf(Table, id) = [slot |-> schedules[id].slot, id |-> id, runner |-> runners[id]]
    BY TableParts, Zenon DEF TickerOf, CronOf
  <1>3. /\ \A x \in tickers : ~x.closed => schedules[x.id].type = "periodic" /\ x = TickerOf(Table, x.id)
        /\ \A x \in cronLib : schedules[x.id].type = "cron" /\ x = CronOf(Table, x.id)
        /\ \A id \in Ids : schedules[id].type = "periodic" => TickerOf(Table, id) \in tickers
        /\ \A id \in Ids : schedules[id].type = "cron" => CronOf(Table, id) \in cronLib
    BY <1>1, TableParts, Zenon DEF Whole, Fitting
  <1>4. \A x \in open : x.id \in Ids
    BY <1>1, TableParts, ZenonT(40) DEF Whole, TableSet, TickerSet, CronSet
  <1>5. \A x \in open : schedules[x.id].slot = x.slot /\ runners[x.id] = x.runner
    BY <1>2, <1>3, <1>4, SMT, Z3
  <1>6. ASSUME NEW id \in Ids, schedules[id].type = "periodic" PROVE {x \in open : x.id = id} = {TickerOf(Table, id)}
    <2>1. TickerOf(Table, id) \in open /\ TickerOf(Table, id).id = id
      BY <1>2, <1>3, <1>6, SMT, Z3
    <2>2. \A x \in open : x.id = id => x = TickerOf(Table, id)
      BY <1>3, <1>6, Zenon
    <2> QED
      BY <2>1, <2>2, ZenonT(40)
  <1>7. ASSUME NEW id \in Ids, schedules[id].type = "cron" PROVE {x \in open : x.id = id} = {CronOf(Table, id)}
    <2>1. CronOf(Table, id) \in open /\ CronOf(Table, id).id = id
      BY <1>2, <1>3, <1>7, SMT, Z3
    <2>2. \A x \in open : x.id = id => x = CronOf(Table, id)
      BY <1>3, <1>7, Zenon
    <2> QED
      BY <2>1, <2>2
  <1>8. \A id \in Ids : schedules[id].type \in {"cron", "periodic"} =>
                           \E x \in open : {y \in open : y.id = id} = {x}
    BY <1>6, <1>7
  <1> QED
    BY <1>5, <1>8 DEF OneTriggerPerSchedule

(* A cron or periodic schedule has exactly one open ticker or cron entry, which holds
   the registered runner, and none lives without its schedule, for any number of
   pipelines, replacements under way and changes (removeExecutorLocked,
   registerDeferredLocked, restoreExecutorLocked). *)
THEOREM SchedulesFireOnce == SchedSpec => []OneTriggerPerSchedule
  BY InitSchedInv, SchedInvKept, WholeIsOneTrigger, PTL DEF SchedSpec

=============================================================================
