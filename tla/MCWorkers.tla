----------------------------- MODULE MCWorkers -----------------------------
(***************************************************************************)
(* The task protocol on two deployments, one of which each behaviour runs:  *)
(* two workers of two slots over a lossy network (the constants of          *)
(* TaskDispatch), and a store whose calls fail, with two workers of one     *)
(* slot of which one has the labels the task asks for.  A second worker, or *)
(* a second slot, on a failing store breaks the fence: the unconditional    *)
(* update that follows a failed one (casMarkRunning, casMarkTerminal)       *)
(* restores the generation of an owner that lost the task.                  *)
(***************************************************************************)
EXTENDS TaskDispatch

VARIABLE deployment

OnFailingStore == INSTANCE TaskDispatch WITH
    Labelled <- Tasks, Matching <- {CHOOSE w \in Workers : TRUE}, Slots <- 1,
    StoreErrors <- TRUE, Lossy <- FALSE

Init == deployment \in {"lossy", "failing"} /\ DispatchInit

Next ==
    \/ deployment = "lossy" /\ DispatchNext /\ UNCHANGED deployment
    \/ deployment = "failing" /\ OnFailingStore!DispatchNext /\ UNCHANGED deployment

Spec == Init /\ [][Next]_<<deployment, dispatchVars>>
=============================================================================
