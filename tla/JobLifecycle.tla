----------------------------- MODULE JobLifecycle -----------------------------
(***************************************************************************)
(* What the API promises a client about the status of a job, whatever runs *)
(* behind it: the stages are reported in order, a cancel may be requested  *)
(* while the job is in flight, a terminal status is final, and cancelled   *)
(* is reached only on request.  With CancelWins a job whose cancellation   *)
(* was recorded does not complete any more.                                *)
(*                                                                         *)
(* ConversionService instantiates this module over its table.              *)
(***************************************************************************)
EXTENDS JobManager

CONSTANTS Jobs, CancelWins

VARIABLES
    status,     \* status of each job, Missing before it is created
    requested   \* cancel_requested of each job

lifeVars == <<status, requested>>

LifeInit ==
    /\ status = [j \in Jobs |-> Missing]
    /\ requested = [j \in Jobs |-> FALSE]

Become(j, s) == status' = [status EXCEPT ![j] = s] /\ UNCHANGED requested

Accept(j) == status[j] = Missing /\ Become(j, "accepted")

Advance(j) ==
    \E s \in Stages : status[j] = Before(s) /\ Become(j, StageStatus[s])

Complete(j) ==
    /\ status[j] = StageStatus[LastStage]
    /\ CancelWins => ~requested[j]
    /\ Become(j, "completed")

Fail(j) == status[j] \in InFlightStatuses /\ Become(j, "error")

RequestCancellation(j) ==
    /\ status[j] \in InFlightStatuses
    /\ requested' = [requested EXCEPT ![j] = TRUE]
    /\ UNCHANGED status

Cancel(j) ==
    status[j] \in InFlightStatuses /\ requested[j] /\ Become(j, "cancelled")

LifeNext ==
    \E j \in Jobs :
        \/ Accept(j) \/ Advance(j) \/ Complete(j) \/ Fail(j)
        \/ RequestCancellation(j) \/ Cancel(j)

LifeSpec == LifeInit /\ [][LifeNext]_lifeVars
=============================================================================
