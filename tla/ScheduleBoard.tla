---------------------------- MODULE ScheduleBoard --------------------------
(***************************************************************************)
(* What the scheduler promises to the control plane.  Every pipeline has at *)
(* most one executor on the board; only that executor, or one that has just *)
(* been taken off and whose ticker has not noticed yet, is ever triggered,  *)
(* and always with the runner it was put up with.                           *)
(***************************************************************************)
CONSTANTS
    Ids,        \* pipelines
    Runners,    \* the runners that may be put up
    NoEntry     \* no executor on the board

VARIABLES
    entries,    \* pipeline -> the runner of its executor, or NoEntry
    leaving,    \* <<pipeline, runner>> taken off, ticker still alive
    trig        \* <<pipeline, runner>> triggered, start not yet decided

boardVars == <<entries, leaving, trig>>

BoardInit ==
    /\ entries = [id \in Ids |-> NoEntry]
    /\ leaving = {}
    /\ trig = {}

Posted == {<<id, entries[id]>> : id \in {i \in Ids : entries[i] # NoEntry}}

\* The executors of some pipelines are replaced or taken off in one step.
\* What was on the board may linger among the leaving, nothing else may.
Post ==
    /\ entries' \in [Ids -> Runners \cup {NoEntry}]
    /\ leaving \subseteq leaving'
    /\ leaving' \subseteq leaving \cup Posted
    /\ UNCHANGED trig

Leave(x) ==
    /\ leaving' = leaving \ {x}
    /\ UNCHANGED <<entries, trig>>

Fire(x) ==
    /\ x \in Posted \cup leaving
    /\ trig' = trig \cup {x}
    /\ UNCHANGED <<entries, leaving>>

Settle(x) ==
    /\ trig' = trig \ {x}
    /\ UNCHANGED <<entries, leaving>>

BoardNext ==
    \/ Post
    \/ \E x \in leaving : Leave(x)
    \/ \E x \in Posted \cup leaving : Fire(x)
    \/ \E x \in trig : Settle(x)

BoardSpec == BoardInit /\ [][BoardNext]_boardVars
=============================================================================
