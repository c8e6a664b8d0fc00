----------------------------- MODULE MCSharded -----------------------------
(***************************************************************************)
(* A sharded pipeline that is started a second time.  Bound: the second     *)
(* run follows one that completed without a crash, and is itself neither    *)
(* stopped nor met by a crash.                                              *)
(***************************************************************************)
EXTENDS ShardedRun

MCNext ==
    /\ Next
    /\ starts = 1 /\ starts' = 2 => status = "completed"
    /\ starts' = 2 => crashes' = 0 /\ status' # "stopped"

MCSpec == Init /\ [][MCNext]_vars /\ Fairness
=============================================================================
