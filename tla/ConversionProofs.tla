--------------------------- MODULE ConversionProofs ---------------------------
(***************************************************************************)
(* Theorems of ConversionService for every set of jobs, every number of    *)
(* deliveries, faults and crashes: type correctness, that an in-process    *)
(* job whose cancellation was recorded does not complete, what happens to  *)
(* the cancel flag and to a finished job's row, what a client sees of a    *)
(* job as long as its row lives, and that the service implements           *)
(* JobLifecycle for one delivery and writes that fail without being        *)
(* applied.                                                                *)
(***************************************************************************)
EXTENDS ConversionService, TLAPS

-----------------------------------------------------------------------------
(* The mutations of job_manager.py turn an item into an item.              *)

LEMMA StageTypes ==
    ASSUME NEW s \in Stages
    PROVE  StageStatus[s] \in StageStatuses /\ StageProgress[s] \in 0 .. 100
BY DEF Stages, StageStatus, StageProgress, StageStatuses

LEMMA ItemTypes ==
    ASSUME NEW item \in Items
    PROVE  /\ Absent \in Items /\ CreateJob \in Items
           /\ \A s \in Stages : UpdateProgress(item, s) \in Items
           /\ \A b \in BOOLEAN : SetResult(item, b) \in Items
           /\ SetError(item) \in Items
           /\ SetCancelled(item) \in Items
           /\ RequestCancel(item) \in Items
<1>a. 0 \in 0 .. 100 /\ 100 \in 0 .. 100
  OBVIOUS
<1>b. Absent \in Items
  BY <1>a DEF Items, Absent
<1>1. CreateJob \in Items
  BY <1>b DEF Items, CreateJob, JobStatus, InFlightStatuses
<1>2. ASSUME NEW s \in Stages PROVE UpdateProgress(item, s) \in Items
  BY StageTypes DEF Items, UpdateProgress, JobStatus, InFlightStatuses
<1>3. ASSUME NEW b \in BOOLEAN PROVE SetResult(item, b) \in Items
  <2>1. (item.local \/ b) \in BOOLEAN
    BY DEF Items
  <2>2. ASSUME NEW loc \in BOOLEAN
        PROVE  [item EXCEPT !.exists = TRUE, !.status = "completed", !.step = "done",
                            !.progress = 100, !.url = TRUE, !.local = loc] \in Items
    BY <1>a DEF Items, JobStatus, InFlightStatuses, TerminalStatuses
  <2> QED BY <2>1, <2>2 DEF SetResult
<1>4. SetError(item) \in Items
  BY <1>a DEF Items, SetError, JobStatus, InFlightStatuses, TerminalStatuses
<1>5. SetCancelled(item) \in Items
  BY DEF Items, SetCancelled, JobStatus, InFlightStatuses, TerminalStatuses
<1>6. RequestCancel(item) \in Items
  BY DEF Items, RequestCancel
<1> QED BY <1>b, <1>1, <1>2, <1>3, <1>4, <1>5, <1>6

(* A write, whether it succeeds or raises, keeps the table a table.        *)
LEMMA WriteTypes ==
    ASSUME TypeOK, NEW j \in Jobs, NEW item \in Items, Apply(j, item) \/ Lose(j, item)
    PROVE  table' \in [Jobs -> Items] /\ faults' \in Nat
BY DEF TypeOK, Apply, Lose, FaultOn

LEMMA RunTypes ==
    ASSUME NEW r \in Runs
    PROVE  r[1] \in Jobs
BY DEF Runs

(* A fault adds one to the count.                                          *)
LEMMA FaultTypes ==
    ASSUME TypeOK, NEW kind, FaultOn(kind)
    PROVE  faults' \in Nat
BY DEF TypeOK, FaultOn

-----------------------------------------------------------------------------
(* Type correctness.  That the stage index stays in range needs to know    *)
(* which stages wait for an agent.                                         *)
AgentStages ==
    \A r \in Runs : pc[r] \in {"llm", "joinWatch", "joinRun"} => stage[r] \in {2, 3}

TypeInv == TypeOK /\ AgentStages

LEMMA TypeInit == Init => TypeInv
<1> SUFFICES ASSUME Init PROVE TypeInv
  OBVIOUS
<1>1. Absent \in Items
  <2>1. 0 \in 0 .. 100
    OBVIOUS
  <2> QED BY <2>1 DEF Absent, Items
<1>2. 0 \in Stages
  BY DEF Stages
<1> QED BY <1>1, <1>2 DEF Init, TypeInv, TypeOK, AgentStages, PCs

LEMMA TypeStep == TypeInv /\ [Next]_vars => TypeInv'
<1> SUFFICES ASSUME TypeInv, [Next]_vars PROVE TypeInv'
  OBVIOUS
<1>t. TypeOK /\ AgentStages
  BY DEF TypeInv
<1> USE <1>t DEF TypeInv, AgentStages, PCs, Holding
<1>1. ASSUME NEW j \in Jobs, ConvertCreate(j) PROVE TypeInv'
  <2>1. table' \in [Jobs -> Items] /\ faults' \in Nat
    BY <1>1, WriteTypes, ItemTypes DEF ConvertCreate, TypeOK
  <2> QED BY <1>1, <2>1 DEF ConvertCreate, TypeOK, runVars
<1>2. ASSUME NEW j \in Jobs, ConvertDispatch(j) PROVE TypeInv'
  BY <1>2, FaultTypes DEF ConvertDispatch, TypeOK, runVars
<1>3. ASSUME NEW j \in Jobs, CancelRead(j) PROVE TypeInv'
  BY <1>3, FaultTypes DEF CancelRead, TypeOK, runVars
<1>4. ASSUME NEW j \in Jobs, CancelWrite(j) PROVE TypeInv'
  <2>1. table' \in [Jobs -> Items] /\ faults' \in Nat
    BY <1>4, WriteTypes, ItemTypes DEF CancelWrite, TypeOK
  <2> QED BY <1>4, <2>1 DEF CancelWrite, TypeOK, runVars
<1>5. ASSUME NEW j \in Jobs, Expire(j) PROVE TypeInv'
  <2>1. Absent \in Items
    BY ItemTypes DEF TypeOK
  <2> QED BY <1>5, <2>1 DEF Expire, TypeOK, runVars, apiVars
<1>6. ASSUME NEW r \in Runs, Start(r) PROVE TypeInv'
  BY <1>6 DEF Start, Goto, TypeOK, apiVars, OnlyPc
<1>7. ASSUME NEW r \in Runs, CheckCancelled(r) PROVE TypeInv'
  BY <1>7, FaultTypes DEF CheckCancelled, Goto, TypeOK, apiVars
<1>8. ASSUME NEW r \in Runs, PublishProgress(r) PROVE TypeInv'
  <2>1. table' \in [Jobs -> Items] /\ faults' \in Nat
    BY <1>8, WriteTypes, ItemTypes, RunTypes DEF PublishProgress, TypeOK
  <2> QED BY <1>8, <2>1 DEF PublishProgress, Goto, TypeOK, apiVars
<1>9. ASSUME NEW r \in Runs, StageSucceeds(r) PROVE TypeInv'
  BY <1>9 DEF StageSucceeds, Goto, TypeOK, apiVars, NextStage, Stages
<1>10. ASSUME NEW r \in Runs, StartAgent(r) PROVE TypeInv'
  BY <1>10 DEF StartAgent, Goto, TypeOK, apiVars
<1>11. ASSUME NEW r \in Runs, Package(r) PROVE TypeInv'
  BY <1>11, RunTypes DEF Package, Goto, TypeOK, apiVars
<1>12. ASSUME NEW r \in Runs, StageFails(r) PROVE TypeInv'
  BY <1>12 DEF StageFails, Goto, TypeOK, apiVars, OnlyPc
<1>13. ASSUME NEW r \in Runs, SetResultStep(r) PROVE TypeInv'
  <2>0. (~S3Bucket) \in BOOLEAN
    BY ConstantsOK
  <2>1. table' \in [Jobs -> Items] /\ faults' \in Nat
    BY <1>13, <2>0, WriteTypes, ItemTypes, RunTypes DEF SetResultStep, TypeOK
  <2> QED BY <1>13, <2>1 DEF SetResultStep, Goto, TypeOK, apiVars
<1>14. ASSUME NEW r \in Runs, SetCancelledStep(r) PROVE TypeInv'
  <2>1. table' \in [Jobs -> Items] /\ faults' \in Nat
    BY <1>14, WriteTypes, ItemTypes, RunTypes DEF SetCancelledStep, TypeOK
  <2> QED BY <1>14, <2>1 DEF SetCancelledStep, Goto, TypeOK, apiVars
<1>15. ASSUME NEW r \in Runs, SetErrorStep(r) PROVE TypeInv'
  <2>1. table' \in [Jobs -> Items] /\ faults' \in Nat
    BY <1>15, WriteTypes, ItemTypes, RunTypes DEF SetErrorStep, TypeOK
  <2> QED BY <1>15, <2>1 DEF SetErrorStep, Goto, TypeOK, apiVars
<1>16. ASSUME NEW r \in Runs, LLMReturns(r) PROVE TypeInv'
  BY <1>16 DEF LLMReturns, Goto, TypeOK, apiVars
<1>17. ASSUME NEW r \in Runs, WatchPoll(r) PROVE TypeInv'
  BY <1>17, FaultTypes DEF WatchPoll, Goto, TypeOK, apiVars
<1>18. ASSUME NEW r \in Runs, AgentDone(r) PROVE TypeInv'
  BY <1>18 DEF AgentDone, Goto, TypeOK, apiVars, AgentResult, NextStage, Stages
<1>19. ASSUME NEW r \in Runs, JoinWatch(r) PROVE TypeInv'
  BY <1>19 DEF JoinWatch, Goto, TypeOK, apiVars, AgentResult, NextStage, Stages
<1>20. ASSUME NEW r \in Runs, WatchDone(r) PROVE TypeInv'
  BY <1>20 DEF WatchDone, Goto, TypeOK, apiVars, OnlyPc
<1>21. ASSUME NEW r \in Runs, JoinRun(r) PROVE TypeInv'
  BY <1>21 DEF JoinRun, Goto, TypeOK, apiVars, OnlyPc
<1>22. ASSUME NEW r \in Runs, Return(r) PROVE TypeInv'
  BY <1>22 DEF Return, Goto, TypeOK, apiVars, OnlyPc
<1>23. ASSUME NEW r \in Runs, FallbackRead(r) PROVE TypeInv'
  BY <1>23, FaultTypes DEF FallbackRead, Goto, TypeOK, apiVars
<1>24. ASSUME NEW r \in Runs, FallbackWrite(r) PROVE TypeInv'
  <2>1. table' \in [Jobs -> Items] /\ faults' \in Nat
    BY <1>24, WriteTypes, ItemTypes, RunTypes DEF FallbackWrite, TypeOK
  <2> QED BY <1>24, <2>1 DEF FallbackWrite, Goto, TypeOK, apiVars
<1>25. ASSUME NEW r \in Runs, Crash(r) PROVE TypeInv'
  BY <1>25 DEF Crash, Goto, TypeOK, apiVars
<1>26. ASSUME Restart PROVE TypeInv'
  BY <1>26 DEF Restart, TypeOK
<1>27. ASSUME UNCHANGED vars PROVE TypeInv'
  BY <1>27 DEF vars, TypeOK
<1> QED
  BY <1>1, <1>2, <1>3, <1>4, <1>5, <1>6, <1>7, <1>8, <1>9, <1>10,
     <1>11, <1>12, <1>13, <1>14, <1>15, <1>16, <1>17, <1>18,
     <1>19, <1>20, <1>21, <1>22, <1>23, <1>24, <1>25, <1>26,
     <1>27
     DEF Next, ApiStep, RunStep

(* Every value the service keeps stays in its type: the statuses, steps    *)
(* and stage indices of orchestrator.py and job_manager.py.                *)
THEOREM TypeCorrect == Spec => []TypeOK
<1>1. TypeInv => TypeOK
  BY DEF TypeInv
<1> QED BY TypeInit, TypeStep, <1>1, PTL DEF Spec

-----------------------------------------------------------------------------
(* In-process, a cancel wins.  CompletedNotCancelled is not inductive: the *)
(* write that completes a job comes after its last look at the flag.  What *)
(* holds in between is that the flag is down once that look is past, since *)
(* the handler that could raise it needs the event loop the run is not     *)
(* giving up.                                                              *)
PastLastCheck(r) ==
    \/ pc[r] = "setResult"
    \/ stage[r] = LastStage /\ pc[r] \in {"publish", "work"}

CancelInv ==
    /\ TypeInv
    /\ CompletedNotCancelled
    /\ \A r \in Runs : PastLastCheck(r) => ~table[r[1]].cancel

(* What the mutations do to the flag and to a completed status.            *)
LEMMA FlagOfItems ==
    ASSUME NEW item \in Items
    PROVE  /\ ~Absent.cancel /\ ~CreateJob.cancel
           /\ Absent.status # "completed" /\ CreateJob.status # "completed"
           /\ \A s \in Stages : /\ UpdateProgress(item, s).cancel = item.cancel
                                /\ UpdateProgress(item, s).status # "completed"
           /\ \A b : SetResult(item, b).cancel = item.cancel
           /\ SetError(item).cancel = item.cancel /\ SetError(item).status # "completed"
           /\ SetCancelled(item).cancel = item.cancel
           /\ SetCancelled(item).status # "completed"
           /\ RequestCancel(item).status = item.status
<1>1. \A s \in Stages : StageStatus[s] # "completed"
  BY DEF Stages, StageStatus
<1> QED
  BY <1>1 DEF Items, Absent, CreateJob, UpdateProgress, SetResult, SetError,
              SetCancelled, RequestCancel, Missing

(* A write, successful or not, leaves the row as it was or as written.     *)
LEMMA WriteCases ==
    ASSUME TypeOK, NEW j \in Jobs, NEW item \in Items, Apply(j, item) \/ Lose(j, item)
    PROVE  \/ table' = table
           \/ table' = [table EXCEPT ![j] = item]
BY DEF Apply, Lose

(* A write to the row of j that leaves it completed only with the flag     *)
(* down, and raises no flag, keeps the two conjuncts of CancelInv about    *)
(* rows and about the runs past their last check before and after.         *)
LEMMA WriteKeeps ==
    ASSUME CancelInv, NEW j \in Jobs, NEW item \in Items,
           Apply(j, item) \/ Lose(j, item),
           item.cancel => table[j].cancel,
           item.status = "completed" => ~item.cancel
    PROVE  /\ CompletedNotCancelled'
           /\ \A k \in Jobs : table'[k].cancel => table[k].cancel
BY WriteCases DEF CancelInv, TypeInv, TypeOK, CompletedNotCancelled, Status

LEMMA CancelStep == InProcess /\ CancelInv /\ [Next]_vars => CancelInv'
<1> SUFFICES ASSUME InProcess, CancelInv, [Next]_vars PROVE CancelInv'
  OBVIOUS
<1>t. TypeOK /\ TypeInv'
  BY TypeStep DEF CancelInv, TypeInv
<1>s. \A r \in Runs : r[1] \in Jobs /\ stage[r] \in Stages /\ table[r[1]] \in Items
  BY <1>t, RunTypes DEF TypeOK
<1> USE <1>t, <1>s DEF CancelInv, PastLastCheck
<1>1. ASSUME NEW j \in Jobs, ConvertCreate(j) PROVE CancelInv'
  <2>1. /\ CompletedNotCancelled'
        /\ \A k \in Jobs : table'[k].cancel => table[k].cancel
    BY <1>1, WriteKeeps, ItemTypes, FlagOfItems DEF ConvertCreate, TypeOK
  <2> QED BY <1>1, <2>1 DEF ConvertCreate, runVars, TypeOK
<1>2. ASSUME NEW j \in Jobs, ConvertDispatch(j) PROVE CancelInv'
  BY <1>2 DEF ConvertDispatch, TypeOK, CompletedNotCancelled, Status, apiVars, runVars
<1>3. ASSUME NEW j \in Jobs, CancelRead(j) PROVE CancelInv'
  BY <1>3 DEF CancelRead, TypeOK, CompletedNotCancelled, Status, apiVars, runVars
<1>4. ASSUME NEW j \in Jobs, CancelWrite(j) PROVE CancelInv'
  <2>1. \A r \in Runs : ~PastLastCheck(r)
    BY <1>4 DEF CancelWrite, ApiTurn, Holding
  <2>2. /\ UNCHANGED <<pc, stage>>
        /\ \/ table' = table
           \/ /\ CanRequestCancel(table[j])
              /\ table' = [table EXCEPT ![j] = RequestCancel(table[j])]
    BY <1>4 DEF CancelWrite, runVars, Apply, Lose
  <2>3. CanRequestCancel(table[j]) => RequestCancel(table[j]).status # "completed"
    BY FlagOfItems DEF CanRequestCancel, TerminalStatuses, TypeOK
  <2>4. CompletedNotCancelled'
    BY <2>2, <2>3 DEF CompletedNotCancelled, Status, TypeOK
  <2> QED BY <2>1, <2>2, <2>4
<1>5. ASSUME NEW j \in Jobs, Expire(j) PROVE CancelInv'
  <2>1. ~Absent.cancel
    BY DEF Absent
  <2> QED BY <1>5, <2>1 DEF Expire, runVars, TypeOK, CompletedNotCancelled, Status
<1>6. ASSUME NEW r \in Runs, Start(r) PROVE CancelInv'
  BY <1>6 DEF Start, OnlyPc, Goto, TypeOK, CompletedNotCancelled, Status, apiVars, runVars
<1>7. ASSUME NEW r \in Runs, CheckCancelled(r) PROVE CancelInv'
  BY <1>7 DEF CheckCancelled, Goto, IsCancelRequested, TypeOK, CompletedNotCancelled, Status, apiVars, runVars
<1>8. ASSUME NEW r \in Runs, PublishProgress(r) PROVE CancelInv'
  <2> DEFINE item == UpdateProgress(table[r[1]], stage[r])
  <2>1. item \in Items /\ item.cancel = table[r[1]].cancel
    BY ItemTypes, FlagOfItems
  <2>2. item.status # "completed"
    BY FlagOfItems
  <2>3. Apply(r[1], item) \/ Lose(r[1], item)
    BY <1>8 DEF PublishProgress
  <2> HIDE DEF item
  <2>4. /\ CompletedNotCancelled'
        /\ \A k \in Jobs : table'[k].cancel => table[k].cancel
    BY <2>1, <2>2, <2>3, WriteKeeps
  <2> QED BY <1>8, <2>4 DEF PublishProgress, Goto, TypeOK
<1>9. ASSUME NEW r \in Runs, StageSucceeds(r) PROVE CancelInv'
  BY <1>9 DEF StageSucceeds, NextStage, Goto, TypeOK, CompletedNotCancelled, Status, apiVars, runVars
<1>10. ASSUME NEW r \in Runs, StartAgent(r) PROVE CancelInv'
  BY <1>10 DEF StartAgent, Goto, TypeOK, CompletedNotCancelled, Status, apiVars, runVars
<1>11. ASSUME NEW r \in Runs, Package(r) PROVE CancelInv'
  BY <1>11 DEF Package, Goto, TypeOK, CompletedNotCancelled, Status, apiVars, runVars
<1>12. ASSUME NEW r \in Runs, StageFails(r) PROVE CancelInv'
  BY <1>12 DEF StageFails, OnlyPc, Goto, TypeOK, CompletedNotCancelled, Status, apiVars, runVars
<1>13. ASSUME NEW r \in Runs, SetResultStep(r) PROVE CancelInv'
  <2> DEFINE item == SetResult(table[r[1]], ~S3Bucket)
  <2>1. item \in Items /\ item.cancel = table[r[1]].cancel
    <3>1. (~S3Bucket) \in BOOLEAN
      BY ConstantsOK
    <3> QED BY <3>1, ItemTypes, FlagOfItems
  <2>2. ~item.cancel
    BY <1>13, <2>1 DEF SetResultStep
  <2>3. Apply(r[1], item) \/ Lose(r[1], item)
    BY <1>13 DEF SetResultStep
  <2> HIDE DEF item
  <2>4. /\ CompletedNotCancelled'
        /\ \A k \in Jobs : table'[k].cancel => table[k].cancel
    BY <2>1, <2>2, <2>3, WriteKeeps
  <2> QED BY <1>13, <2>4 DEF SetResultStep, Goto, TypeOK
<1>14. ASSUME NEW r \in Runs, SetCancelledStep(r) PROVE CancelInv'
  <2> DEFINE item == SetCancelled(table[r[1]])
  <2>1. item \in Items /\ item.cancel = table[r[1]].cancel
    BY ItemTypes, FlagOfItems
  <2>2. item.status # "completed"
    BY FlagOfItems
  <2>3. Apply(r[1], item) \/ Lose(r[1], item)
    BY <1>14 DEF SetCancelledStep
  <2> HIDE DEF item
  <2>4. /\ CompletedNotCancelled'
        /\ \A k \in Jobs : table'[k].cancel => table[k].cancel
    BY <2>1, <2>2, <2>3, WriteKeeps
  <2> QED BY <1>14, <2>4 DEF SetCancelledStep, Goto, TypeOK
<1>15. ASSUME NEW r \in Runs, SetErrorStep(r) PROVE CancelInv'
  <2> DEFINE item == SetError(table[r[1]])
  <2>1. item \in Items /\ item.cancel = table[r[1]].cancel
    BY ItemTypes, FlagOfItems
  <2>2. item.status # "completed"
    BY FlagOfItems
  <2>3. Apply(r[1], item) \/ Lose(r[1], item)
    BY <1>15 DEF SetErrorStep
  <2> HIDE DEF item
  <2>4. /\ CompletedNotCancelled'
        /\ \A k \in Jobs : table'[k].cancel => table[k].cancel
    BY <2>1, <2>2, <2>3, WriteKeeps
  <2> QED BY <1>15, <2>4 DEF SetErrorStep, Goto, TypeOK
<1>16. ASSUME NEW r \in Runs, LLMReturns(r) PROVE CancelInv'
  BY <1>16 DEF LLMReturns, TypeOK, CompletedNotCancelled, Status, apiVars, runVars
<1>17. ASSUME NEW r \in Runs, WatchPoll(r) PROVE CancelInv'
  BY <1>17 DEF WatchPoll, TypeOK, CompletedNotCancelled, Status, apiVars, runVars
<1>18. ASSUME NEW r \in Runs, AgentDone(r) PROVE CancelInv'
  BY <1>18 DEF AgentDone, AgentResult, NextStage, Goto, TypeOK, CompletedNotCancelled, Status, apiVars, runVars
<1>19. ASSUME NEW r \in Runs, JoinWatch(r) PROVE CancelInv'
  BY <1>19 DEF JoinWatch, AgentResult, NextStage, Goto, TypeOK, CompletedNotCancelled, Status, apiVars, runVars
<1>20. ASSUME NEW r \in Runs, WatchDone(r) PROVE CancelInv'
  BY <1>20 DEF WatchDone, OnlyPc, Goto, TypeOK, CompletedNotCancelled, Status, apiVars, runVars
<1>21. ASSUME NEW r \in Runs, JoinRun(r) PROVE CancelInv'
  BY <1>21 DEF JoinRun, OnlyPc, Goto, TypeOK, CompletedNotCancelled, Status, apiVars, runVars
<1>22. ASSUME NEW r \in Runs, Return(r) PROVE CancelInv'
  BY <1>22 DEF Return, OnlyPc, Goto, TypeOK, CompletedNotCancelled, Status, apiVars, runVars
<1>23. ASSUME NEW r \in Runs, FallbackRead(r) PROVE CancelInv'
  BY <1>23 DEF FallbackRead, Goto, TypeOK, CompletedNotCancelled, Status, apiVars, runVars
<1>24. ASSUME NEW r \in Runs, FallbackWrite(r) PROVE CancelInv'
  <2> DEFINE item == SetError(table[r[1]])
  <2>1. item \in Items /\ item.cancel = table[r[1]].cancel
    BY ItemTypes, FlagOfItems
  <2>2. item.status # "completed"
    BY FlagOfItems
  <2>3. Apply(r[1], item) \/ Lose(r[1], item)
    BY <1>24 DEF FallbackWrite
  <2> HIDE DEF item
  <2>4. /\ CompletedNotCancelled'
        /\ \A k \in Jobs : table'[k].cancel => table[k].cancel
    BY <2>1, <2>2, <2>3, WriteKeeps
  <2> QED BY <1>24, <2>4 DEF FallbackWrite, Goto, TypeOK
<1>25. ASSUME NEW r \in Runs, Crash(r) PROVE CancelInv'
  BY <1>25 DEF Crash, Goto, TypeOK, CompletedNotCancelled, Status, apiVars, runVars
<1>26. ASSUME Restart PROVE CancelInv'
  BY <1>26 DEF Restart, TypeOK, CompletedNotCancelled, Status
<1>27. ASSUME UNCHANGED vars PROVE CancelInv'
  BY <1>27 DEF vars, CompletedNotCancelled, Status
<1> QED
  BY <1>1, <1>2, <1>3, <1>4, <1>5, <1>6, <1>7, <1>8, <1>9, <1>10,
     <1>11, <1>12, <1>13, <1>14, <1>15, <1>16, <1>17, <1>18,
     <1>19, <1>20, <1>21, <1>22, <1>23, <1>24, <1>25, <1>26,
     <1>27
     DEF Next, ApiStep, RunStep

LEMMA CancelAlways == InProcess /\ Spec => []CancelInv
<1>1. Init => CancelInv
  BY TypeInit DEF Init, CancelInv, CompletedNotCancelled, Status, PastLastCheck,
                  Absent, Missing
<1>2. ASSUME InProcess PROVE CancelInv /\ [Next]_vars => CancelInv'
  BY <1>2, CancelStep
<1>3. ASSUME InProcess PROVE Spec => []CancelInv
  BY <1>1, <1>2, <1>3, PTL DEF Spec
<1> QED BY <1>3

(* With the in-process dispatcher a job whose cancellation was recorded    *)
(* never completes, under any AWS failures, restarts and row expiry: what  *)
(* _check_cancelled promises for packaging, and the Lambda dispatcher does *)
(* not keep.                                                               *)
THEOREM CancelWins == InProcess /\ Spec => []CompletedNotCancelled
<1>1. CancelInv => CompletedNotCancelled
  BY DEF CancelInv
<1> QED BY <1>1, CancelAlways, PTL

-----------------------------------------------------------------------------
(* Single rows.  Everything below rests on RowSteps: how a single step of  *)
(* the service may change a single row.                                    *)

(* The row of j changes only by a mutation of JobManager, made from the    *)
(* place that calls it, or by the TTL.                                     *)
Writes(r) ==
    /\ RunTurn(r) /\ pc'[r] # pc[r]
    /\ \/ pc[r] = "publish" /\ table'[r[1]] = UpdateProgress(table[r[1]], stage[r])
       \/ pc[r] = "setResult" /\ table'[r[1]] = SetResult(table[r[1]], ~S3Bucket)
       \/ pc[r] = "setCancelled" /\ table'[r[1]] = SetCancelled(table[r[1]])
       \/ pc[r] \in {"setAborted", "setError", "fallback"} /\ table'[r[1]] = SetError(table[r[1]])

RowStep(j) ==
    \/ table'[j] = table[j]
    \/ convert[j] = "new" /\ convert'[j] # "new" /\ table'[j] = CreateJob
    \/ /\ cancel[j] = "write" /\ cancel'[j] = "idle"
       /\ CanRequestCancel(table[j]) /\ table'[j] = RequestCancel(table[j])
    \/ \E r \in Runs : r[1] = j /\ Writes(r)
    \/ Expiry /\ table'[j] = Absent

LEMMA RowSteps ==
    ASSUME TypeOK, [Next]_vars, NEW j \in Jobs
    PROVE  RowStep(j)
<1> USE DEF TypeOK, RowStep
<1>1. ASSUME NEW k \in Jobs, ConvertCreate(k) PROVE RowStep(j)
  BY <1>1 DEF ConvertCreate, Apply, Lose
<1>2. ASSUME NEW k \in Jobs, CancelWrite(k) PROVE RowStep(j)
  BY <1>2 DEF CancelWrite, Apply, Lose
<1>3. ASSUME NEW k \in Jobs, Expire(k) PROVE RowStep(j)
  BY <1>3 DEF Expire
<1>4. ASSUME NEW r \in Runs,
             \/ PublishProgress(r) \/ SetResultStep(r) \/ SetCancelledStep(r)
             \/ SetErrorStep(r) \/ FallbackWrite(r)
      PROVE  RowStep(j)
  <2>1. table' = table \/ (Writes(r) /\ \A k \in Jobs \ {r[1]} : table'[k] = table[k])
    BY <1>4, RunTypes DEF PublishProgress, SetResultStep, SetCancelledStep,
                          SetErrorStep, FallbackWrite, Writes, Apply, Lose, Goto
  <2> QED BY <2>1
<1>5. ASSUME NEW k \in Jobs, ConvertDispatch(k) \/ CancelRead(k) PROVE table' = table
  BY <1>5 DEF ConvertDispatch, CancelRead
<1>6. ASSUME NEW r \in Runs,
             \/ Start(r) \/ CheckCancelled(r) \/ StageSucceeds(r) \/ StartAgent(r)
             \/ Package(r) \/ StageFails(r) \/ AgentDone(r) \/ JoinWatch(r)
             \/ WatchDone(r) \/ JoinRun(r) \/ Return(r) \/ FallbackRead(r)
             \/ LLMReturns(r) \/ WatchPoll(r) \/ Crash(r)
      PROVE  table' = table
  BY <1>6 DEF OnlyPc, Start, CheckCancelled, StageSucceeds, StartAgent, Package, StageFails,
              AgentDone, JoinWatch, WatchDone, JoinRun, Return, FallbackRead, LLMReturns,
              WatchPoll, Crash
<1>7. Restart \/ UNCHANGED vars => table' = table
  BY DEF Restart, vars
<1>8. table' = table => RowStep(j)
  OBVIOUS
<1> QED
  BY <1>1, <1>2, <1>3, <1>4, <1>5, <1>6, <1>7, <1>8 DEF Next, ApiStep, RunStep

(* A run moves only itself, and only once its job was dispatched.          *)
RunMoves(r) ==
    RunStep(r) \/ LLMReturns(r) \/ WatchPoll(r) \/ Crash(r)

LEMMA RunMove ==
    ASSUME NEW r \in Runs, RunMoves(r)
    PROVE  /\ UNCHANGED apiVars
           /\ pc' = [pc EXCEPT ![r] = pc'[r]] \/ pc' = pc
           /\ pc[r] # "idle" \/ convert[r[1]] \in {"dispatched", "unanswered"}
BY DEF RunMoves, RunStep, Start, CheckCancelled, PublishProgress, StageSucceeds, StartAgent,
       Package, StageFails, SetResultStep, SetCancelledStep, SetErrorStep, LLMReturns, WatchPoll,
       AgentDone, AgentResult, NextStage, JoinWatch, WatchDone, JoinRun, Return, FallbackRead,
       FallbackWrite, Crash, Goto, OnlyPc, apiVars

(* Who can have a part in a job: nobody before its handler created it,     *)
(* and cancel requests and runs only once it was dispatched.               *)
OwnerInv ==
    /\ \A j \in Jobs : convert[j] = "new" => table[j] = Absent
    /\ \A j \in Jobs : cancel[j] = "write" => convert[j] = "dispatched"
    /\ \A r \in Runs : pc[r] # "idle" => convert[r[1]] \in {"dispatched", "unanswered"}

LEMMA OwnerInit == Init => OwnerInv
BY DEF Init, OwnerInv

LEMMA OwnerStep ==
    ASSUME TypeOK, OwnerInv, [Next]_vars
    PROVE  OwnerInv'
<1> USE DEF TypeOK
<1>1. ASSUME \A j \in Jobs : convert'[j] = "new" => convert[j] = "new",
             \A j \in Jobs : cancel'[j] = "write" => convert'[j] = "dispatched",
             \A r \in Runs : pc'[r] # "idle" => convert'[r[1]] \in {"dispatched", "unanswered"}
      PROVE  OwnerInv'
  <2>1. ASSUME NEW j \in Jobs, convert[j] = "new", convert'[j] = "new"
        PROVE  table'[j] = Absent
    <3>1. \A r \in Runs : r[1] = j => ~Writes(r)
      BY <2>1 DEF OwnerInv, Writes
    <3>2. cancel[j] # "write"
      BY <2>1 DEF OwnerInv
    <3> QED BY <2>1, <3>1, <3>2, RowSteps DEF OwnerInv, RowStep
  <2> QED BY <1>1, <2>1 DEF OwnerInv
<1>2. ASSUME NEW j \in Jobs, ConvertCreate(j) \/ ConvertDispatch(j) PROVE OwnerInv'
  <2>1. /\ convert' = [convert EXCEPT ![j] = convert'[j]]
        /\ convert[j] \in {"new", "created"} /\ convert'[j] # "new"
        /\ UNCHANGED <<cancel, pc>>
    BY <1>2 DEF ConvertCreate, ConvertDispatch, runVars
  <2> QED BY <2>1, <1>1, RunTypes DEF OwnerInv
<1>3. ASSUME NEW j \in Jobs, CancelRead(j) \/ CancelWrite(j) PROVE OwnerInv'
  <2>1. /\ UNCHANGED <<convert, pc>>
        /\ \A k \in Jobs : cancel'[k] = "write" => cancel[k] = "write" \/ convert[k] = "dispatched"
    BY <1>3 DEF CancelRead, CancelWrite, runVars
  <2> QED BY <2>1, <1>1 DEF OwnerInv
<1>4. ASSUME NEW r \in Runs, RunMoves(r) PROVE OwnerInv'
  BY <1>4, <1>1, RunMove, RunTypes DEF OwnerInv, apiVars
<1>5. ASSUME Restart PROVE OwnerInv'
  BY <1>5, <1>1, RunTypes DEF Restart, OwnerInv
<1>6. ASSUME NEW j \in Jobs, Expire(j) PROVE OwnerInv'
  BY <1>6, <1>1 DEF Expire, OwnerInv, apiVars, runVars
<1>7. ASSUME UNCHANGED vars PROVE OwnerInv'
  BY <1>7 DEF vars, OwnerInv
<1> QED
  BY <1>2, <1>3, <1>4, <1>5, <1>6, <1>7 DEF Next, ApiStep, RunMoves

(* The invariant the proofs below start from.                              *)
BaseInv == TypeInv /\ OwnerInv

LEMMA BaseAlways == Spec => []BaseInv
<1>1. Init => BaseInv
  BY TypeInit, OwnerInit DEF BaseInv
<1>2. BaseInv /\ [Next]_vars => BaseInv'
  BY TypeStep, OwnerStep DEF BaseInv, TypeInv
<1> QED BY <1>1, <1>2, PTL DEF Spec

-----------------------------------------------------------------------------
(* Two action properties of the cancel flag.                               *)

(* What a step may do to the flag of a job: a write of the pipeline leaves *)
(* it alone; only request_cancel raises it, and only on a row in flight;   *)
(* and it goes down only with the row.                                     *)
LEMMA FlagSteps ==
    ASSUME BaseInv, [Next]_vars, NEW j \in Jobs
    PROVE  /\ table'[j].cancel = table[j].cancel
              \/ CanRequestCancel(table[j])
              \/ ~table'[j].cancel
           /\ table[j].cancel => table'[j].cancel \/ (Expiry /\ ~table'[j].exists)
<1>t. TypeOK /\ table[j] \in Items /\ RowStep(j)
  BY RowSteps DEF BaseInv, TypeInv, TypeOK
<1>1. ASSUME NEW r \in Runs, r[1] = j, Writes(r)
      PROVE  table'[j].cancel = table[j].cancel
  <2>1. stage[r] \in Stages
    BY <1>t DEF TypeOK
  <2> QED BY <1>t, <1>1, <2>1, FlagOfItems DEF Writes
<1>2. convert[j] = "new" => ~table[j].cancel
  BY DEF BaseInv, OwnerInv, Absent
<1>3. RequestCancel(table[j]).cancel
  BY <1>t DEF RequestCancel, Items
<1>4. ~Absent.cancel /\ ~Absent.exists /\ ~CreateJob.cancel
  BY <1>t, FlagOfItems DEF Absent
<1> QED BY <1>t, <1>1, <1>2, <1>3, <1>4 DEF RowStep

(* Progress, result and error writes of the pipeline leave a recorded      *)
(* cancellation in place, for any number of deliveries and failures.       *)
THEOREM FlagIsKept == Spec => FlagSurvives
<1>1. BaseInv /\ [Next]_vars =>
        [\A j \in Jobs : table[j].cancel /\ table'[j].exists => table'[j].cancel]_vars
  BY FlagSteps
<1> QED BY <1>1, BaseAlways, PTL DEF Spec, FlagSurvives

(* A cancellation is never recorded on a finished job, however stale the   *)
(* snapshot cancel_job decided on: the condition of request_cancel.        *)
THEOREM FlagOnlyInFlight == Spec => FlagRaisedInFlight
<1>1. BaseInv /\ [Next]_vars =>
        [\A j \in Jobs : table'[j].cancel /\ ~table[j].cancel => ~Terminal(j)]_vars
  BY FlagSteps DEF CanRequestCancel, Terminal, Status
<1> QED BY <1>1, BaseAlways, PTL DEF Spec, FlagRaisedInFlight

-----------------------------------------------------------------------------
(* Cancellation is observed within one stage.  Not inductive: that a run   *)
(* has published after the flag went up says nothing of the next time.     *)
(* The next check finds the flag still up, so that a run about to publish  *)
(* has not done so before.  Rows that expire take the flag with them.      *)
LateInv ==
    \A r \in Runs : /\ late[r] <= 1
                    /\ late[r] > 0 => table[r[1]].cancel
                    /\ pc[r] = "publish" => late[r] = 0

LEMMA LateStep ==
    ASSUME ~Expiry, BaseInv, LateInv, [Next]_vars
    PROVE  LateInv'
<1>t. TypeOK
  BY DEF BaseInv, TypeInv
<1>f. \A j \in Jobs : table[j].cancel => table'[j].cancel
  BY FlagSteps
<1> USE <1>t, <1>f, RunTypes DEF LateInv, TypeOK
<1>1. ASSUME NEW r \in Runs, PublishProgress(r) PROVE LateInv'
  BY <1>1 DEF PublishProgress, Goto
<1>2. ASSUME NEW r \in Runs, CheckCancelled(r) PROVE LateInv'
  BY <1>2 DEF CheckCancelled, Goto, IsCancelRequested
<1>3. ASSUME late' = late, \A r \in Runs : pc'[r] = "publish" => pc[r] = "publish"
      PROVE  LateInv'
  BY <1>3
<1>4. ASSUME NEW r \in Runs, RunMoves(r), ~PublishProgress(r), ~CheckCancelled(r)
      PROVE  late' = late /\ \A q \in Runs : pc'[q] = "publish" => pc[q] = "publish"
  BY <1>4 DEF RunMoves, RunStep, Start, StageSucceeds, StartAgent, Package, StageFails,
              SetResultStep, SetCancelledStep, SetErrorStep, LLMReturns, WatchPoll, AgentDone,
              AgentResult, NextStage, JoinWatch, WatchDone, JoinRun, Return, FallbackRead,
              FallbackWrite, Crash, Goto, OnlyPc
<1>5. ASSUME NEW j \in Jobs, ApiStep(j) \/ Expire(j) PROVE UNCHANGED <<late, pc>>
  BY <1>5 DEF ApiStep, ConvertCreate, ConvertDispatch, CancelRead, CancelWrite, Expire, runVars
<1>6. ASSUME Restart
      PROVE  late' = late /\ \A q \in Runs : pc'[q] = "publish" => pc[q] = "publish"
  BY <1>6 DEF Restart
<1>7. UNCHANGED vars => UNCHANGED <<late, pc>>
  BY DEF vars
<1> QED BY <1>1, <1>2, <1>3, <1>4, <1>5, <1>6, <1>7 DEF Next, RunMoves

(* "Cancellation is observed within at most one stage": after the flag is  *)
(* up a run reports at most one more stage, whatever other runs of the job *)
(* do and whichever calls fail, as long as the row lives.                  *)
THEOREM OneStage == ~Expiry /\ Spec => []CancelObservedWithinOneStage
<1>1. Init => LateInv
  BY DEF Init, LateInv
<1>2. LateInv => CancelObservedWithinOneStage
  BY DEF LateInv, CancelObservedWithinOneStage
<1>3. ASSUME ~Expiry PROVE Spec => []CancelObservedWithinOneStage
  <2>1. BaseInv /\ LateInv /\ [Next]_vars => LateInv'
    BY <1>3, LateStep
  <2> QED BY <1>1, <1>2, <2>1, BaseAlways, PTL DEF Spec
<1> QED BY <1>3

-----------------------------------------------------------------------------
(* In-process a 200 of /cancel is true.  Between its two calls cancel_job  *)
(* holds the event loop, so that the row it found in flight still is.      *)
AckInv ==
    \A j \in Jobs : /\ cancel[j] = "write" => CanRequestCancel(table[j])
                    /\ ack[j] = "accepted" => table[j].cancel

LEMMA HandlerKeepsRow ==
    ASSUME InProcess, ~Expiry, BaseInv, [Next]_vars, NEW j \in Jobs,
           cancel[j] = "write", cancel'[j] = "write"
    PROVE  table'[j] = table[j]
<1>1. \A r \in Runs : ~Writes(r)
  BY DEF Writes, RunTurn, HandlerHolding
<1>2. RowStep(j)
  BY RowSteps DEF BaseInv, TypeInv
<1> QED BY <1>1, <1>2 DEF BaseInv, OwnerInv, RowStep

LEMMA AckStep ==
    ASSUME InProcess, ~Expiry, BaseInv, AckInv, [Next]_vars
    PROVE  AckInv'
<1>t. TypeOK
  BY DEF BaseInv, TypeInv
<1>f. \A j \in Jobs : table[j].cancel => table'[j].cancel
  BY FlagSteps
<1>k. \A j \in Jobs : cancel[j] = "write" /\ cancel'[j] = "write" => table'[j] = table[j]
  BY HandlerKeepsRow
<1> USE <1>t, <1>f, <1>k DEF AckInv, TypeOK
<1>1. ASSUME NEW j \in Jobs, CancelRead(j) PROVE AckInv'
  <2>1. /\ table' = table
        /\ ack' = [ack EXCEPT ![j] = ack'[j]] /\ ack'[j] # "accepted"
        /\ cancel' = [cancel EXCEPT ![j] = cancel'[j]]
        /\ cancel[j] = "idle"
        /\ cancel'[j] = "write" => InFlight(table[j])
    BY <1>1 DEF CancelRead
  <2> QED BY <2>1 DEF InFlight, CanRequestCancel
<1>2. ASSUME NEW j \in Jobs, CancelWrite(j) PROVE AckInv'
  <2>1. CanRequestCancel(table[j])
    BY <1>2 DEF CancelWrite
  <2>2. RequestCancel(table[j]).cancel
    BY DEF RequestCancel, Items
  <2>3. ack'[j] = "accepted" => table'[j].cancel
    BY <1>2, <2>1, <2>2 DEF CancelWrite, Apply
  <2> QED BY <1>2, <2>3 DEF CancelWrite
<1>3. ASSUME ack' = ack, \A j \in Jobs : cancel'[j] = "write" => cancel[j] = "write"
      PROVE  AckInv'
  BY <1>3
<1>4. ASSUME NEW j \in Jobs, ConvertCreate(j) \/ ConvertDispatch(j) \/ Expire(j)
      PROVE  UNCHANGED <<ack, cancel>>
  BY <1>4 DEF ConvertCreate, ConvertDispatch, Expire, apiVars
<1>5. ASSUME NEW r \in Runs, RunMoves(r) PROVE UNCHANGED <<ack, cancel>>
  BY <1>5, RunMove DEF apiVars
<1>6. ASSUME Restart PROVE ack' = ack /\ \A j \in Jobs : cancel'[j] # "write"
  BY <1>6 DEF Restart
<1>7. UNCHANGED vars => UNCHANGED <<ack, cancel>>
  BY DEF vars
<1> QED BY <1>1, <1>2, <1>3, <1>4, <1>5, <1>6, <1>7 DEF Next, ApiStep, RunMoves

(* With the in-process dispatcher a client told 200 by /cancel has its     *)
(* request on record: what cancel_job promises, and the Lambda dispatcher  *)
(* does not keep.                                                          *)
THEOREM AckIsTrue == InProcess /\ ~Expiry /\ Spec => []AckMeansFlag
<1>1. Init => AckInv
  BY DEF Init, AckInv
<1>2. AckInv => AckMeansFlag
  BY DEF AckInv, AckMeansFlag
<1>3. ASSUME InProcess, ~Expiry PROVE Spec => []AckMeansFlag
  <2>1. BaseInv /\ AckInv /\ [Next]_vars => AckInv'
    BY <1>3, AckStep
  <2> QED BY <1>1, <1>2, <2>1, BaseAlways, PTL DEF Spec
<1> QED BY <1>3

-----------------------------------------------------------------------------
(* The error report of the in-process dispatcher.  Between its look at the *)
(* row and its write it holds the event loop.                              *)
FallbackInv ==
    \A r \in Runs : pc[r] = "fallback" => InProcess /\ ~Terminal(r[1])

LEMMA FallbackStep ==
    ASSUME BaseInv, FallbackInv, [Next]_vars
    PROVE  FallbackInv'
<1>t. TypeOK
  BY DEF BaseInv, TypeInv
<1> USE <1>t, RunTypes DEF FallbackInv, TypeOK, Terminal, Status
<1>k. ASSUME NEW r \in Runs, pc[r] = "fallback", pc'[r] = "fallback"
      PROVE  ~Terminal(r[1])'
  <2>1. \A q \in Runs : ~Writes(q) \/ q[1] # r[1]
    BY <1>k DEF Writes, RunTurn, Holding
  <2>2. convert[r[1]] # "new"
    BY <1>k DEF BaseInv, OwnerInv
  <2>3. Absent.status \notin TerminalStatuses
    BY DEF Absent, Missing, TerminalStatuses
  <2>4. RequestCancel(table[r[1]]).status = table[r[1]].status
    BY FlagOfItems
  <2>5. RowStep(r[1])
    BY RowSteps
  <2> QED BY <1>k, <2>1, <2>2, <2>3, <2>4, <2>5 DEF RowStep
<1>1. ASSUME NEW r \in Runs, FallbackRead(r) PROVE FallbackInv'
  BY <1>1 DEF FallbackRead, Goto, InFlight
<1>2. ASSUME \A r \in Runs : pc'[r] = "fallback" => pc[r] = "fallback"
      PROVE  FallbackInv'
  BY <1>2, <1>k
<1>3. ASSUME NEW r \in Runs, RunMoves(r), ~FallbackRead(r)
      PROVE  \A q \in Runs : pc'[q] = "fallback" => pc[q] = "fallback"
  BY <1>3 DEF RunMoves, RunStep, Start, CheckCancelled, PublishProgress, StageSucceeds,
              StartAgent, Package, StageFails, SetResultStep, SetCancelledStep, SetErrorStep,
              LLMReturns, WatchPoll, AgentDone, AgentResult, NextStage, JoinWatch, WatchDone,
              JoinRun, Return, FallbackWrite, Crash, Goto, OnlyPc
<1>4. ASSUME NEW j \in Jobs, ApiStep(j) \/ Expire(j) PROVE pc' = pc
  BY <1>4 DEF ApiStep, ConvertCreate, ConvertDispatch, CancelRead, CancelWrite, Expire, runVars
<1>5. ASSUME Restart PROVE \A q \in Runs : pc'[q] = "fallback" => pc[q] = "fallback"
  BY <1>5 DEF Restart
<1>6. UNCHANGED vars => pc' = pc
  BY DEF vars
<1> QED BY <1>1, <1>2, <1>3, <1>4, <1>5, <1>6 DEF Next, RunMoves

(* "Don't clobber a terminal status": the dispatcher's own error report    *)
(* never replaces the outcome run_pipeline had recorded, whatever runs     *)
(* beside it in the event loop.                                            *)
THEOREM FallbackIsSafe == Spec => FallbackKeepsOutcome
<1>1. Init => FallbackInv
  BY DEF Init, FallbackInv
<1>2. BaseInv /\ FallbackInv /\ [Next]_vars => FallbackInv'
  BY FallbackStep
<1>3. FallbackInv /\ [Next]_vars =>
        [\A r \in Runs : pc[r] = "fallback" /\ pc'[r] = "done" => ~Terminal(r[1])]_vars
  BY DEF FallbackInv
<1> QED BY <1>1, <1>2, <1>3, BaseAlways, PTL DEF Spec, FallbackKeepsOutcome

-----------------------------------------------------------------------------
(* The rows of created jobs are there, whole, and a completed one names a  *)
(* result that was built: a run about to record it has built it.           *)
Created(j) == convert[j] \in {"created", "dispatched", "unanswered"}

ResultInv ==
    /\ \A j \in Jobs : Created(j) => table[j].exists /\ Status(j) # Missing
    /\ RowsAreWhole
    /\ \A r \in Runs : pc[r] = "setResult" => r[1] \in stored
    /\ \A j \in Jobs : Status(j) = "completed" =>
            /\ table[j].exists /\ table[j].url /\ j \in stored
            /\ ~S3Bucket => table[j].local

(* What the mutations do to the row of a created job.                      *)
LEMMA RowOfItems ==
    ASSUME NEW item \in Items, item.exists, item.whole, item.status # Missing
    PROVE  /\ \A s \in Stages : LET new == UpdateProgress(item, s)
                                IN  new.exists /\ new.whole /\ new.status \in StageStatuses
           /\ \A b \in BOOLEAN : LET new == SetResult(item, b)
                                 IN  /\ new.exists /\ new.whole /\ new.url /\ (b => new.local)
                                     /\ new.status = "completed"
           /\ LET new == SetError(item)
              IN  new.exists /\ new.whole /\ new.status = "error"
           /\ LET new == SetCancelled(item)
              IN  new.exists /\ new.whole /\ new.status = "cancelled"
           /\ LET new == RequestCancel(item)
              IN  /\ new.exists /\ new.whole /\ new.status = item.status
                  /\ new.url = item.url /\ new.local = item.local
<1>1. \A s \in Stages : StageStatus[s] \in StageStatuses
  BY StageTypes
<1> QED
  BY <1>1 DEF Items, UpdateProgress, SetResult, SetError, SetCancelled, RequestCancel

LEMMA ResultRow ==
    ASSUME ~Expiry, BaseInv, ResultInv, [Next]_vars, NEW j \in Jobs, Created(j)
    PROVE  /\ table'[j].exists /\ table'[j].whole /\ table'[j].status # Missing
           /\ table'[j].status = "completed" =>
                /\ table'[j].url /\ j \in stored
                /\ ~S3Bucket => table'[j].local
<1>t. TypeOK /\ RowStep(j) /\ table[j] \in Items
  BY RowSteps DEF BaseInv, TypeInv, TypeOK
<1>r. table[j].exists /\ table[j].whole /\ table[j].status # Missing
  BY DEF ResultInv, RowsAreWhole, Status
<1>s. /\ \A s \in StageStatuses : s # Missing /\ s # "completed"
      /\ Missing # "completed" /\ Missing # "error" /\ Missing # "cancelled"
  BY DEF StageStatuses, Missing
<1>1. ASSUME NEW r \in Runs, r[1] = j, Writes(r)
      PROVE  /\ table'[j].exists /\ table'[j].whole /\ table'[j].status # Missing
             /\ table'[j].status = "completed" =>
                  /\ table'[j].url /\ j \in stored
                  /\ ~S3Bucket => table'[j].local
  <2>1. stage[r] \in Stages /\ (~S3Bucket) \in BOOLEAN
    BY <1>t, ConstantsOK DEF TypeOK
  <2>2. pc[r] = "setResult" => j \in stored
    BY <1>1 DEF ResultInv
  <2>3. CASE pc[r] = "publish" /\ table'[j] = UpdateProgress(table[j], stage[r])
    <3> DEFINE new == UpdateProgress(table[j], stage[r])
    <3>1. new.exists /\ new.whole /\ new.status \in StageStatuses
      BY <1>t, <1>r, <2>1, RowOfItems
    <3> QED BY <1>s, <2>3, <3>1
  <2>4. CASE pc[r] = "setResult" /\ table'[j] = SetResult(table[j], ~S3Bucket)
    <3> DEFINE new == SetResult(table[j], ~S3Bucket)
    <3>1. /\ new.exists /\ new.whole /\ new.url /\ (~S3Bucket => new.local)
          /\ new.status = "completed"
      BY <1>t, <1>r, <2>1, RowOfItems
    <3> QED BY <1>s, <2>2, <2>4, <3>1
  <2>5. CASE table'[j] \in {SetError(table[j]), SetCancelled(table[j])}
    BY <1>t, <1>r, <1>s, <2>5, RowOfItems
  <2> QED BY <1>1, <2>3, <2>4, <2>5 DEF Writes
<1>2. convert[j] # "new"
  BY DEF Created
<1> QED BY <1>t, <1>r, <1>1, <1>2, RowOfItems DEF RowStep, ResultInv, Status

(* The row of a job that is not created, or whose creation failed, has no  *)
(* other writer than the handler that creates it.                          *)
LEMMA UnownedRow ==
    ASSUME ~Expiry, BaseInv, [Next]_vars, NEW j \in Jobs, ~Created(j)
    PROVE  table'[j] = table[j] \/ table'[j] = CreateJob
<1>1. \A r \in Runs : r[1] = j => ~Writes(r)
  BY DEF BaseInv, OwnerInv, Writes, Created
<1>2. cancel[j] # "write"
  BY DEF BaseInv, OwnerInv, Created
<1> QED BY <1>1, <1>2, RowSteps DEF BaseInv, TypeInv, RowStep

(* What a step does to the other parts of ResultInv.                       *)
LEMMA ResultControl ==
    ASSUME BaseInv, [Next]_vars
    PROVE  /\ stored \subseteq stored'
           /\ \A r \in Runs : pc'[r] = "setResult" => pc[r] = "setResult" \/ r[1] \in stored'
           /\ \A j \in Jobs : Created(j)' => Created(j) \/ table'[j] = CreateJob
<1>t. TypeOK
  BY DEF BaseInv, TypeInv
<1> USE <1>t, RunTypes DEF TypeOK, Created
<1>1. ASSUME NEW j \in Jobs, ConvertCreate(j)
      PROVE  /\ UNCHANGED <<stored, pc>>
             /\ \A k \in Jobs : Created(k)' => Created(k) \/ table'[k] = CreateJob
  BY <1>1 DEF ConvertCreate, Apply, runVars
<1>2. ASSUME NEW j \in Jobs, ConvertDispatch(j)
      PROVE  /\ UNCHANGED <<stored, pc>>
             /\ \A k \in Jobs : Created(k)' => Created(k)
  BY <1>2 DEF ConvertDispatch, runVars
<1>3. ASSUME NEW j \in Jobs, CancelRead(j) \/ CancelWrite(j) \/ Expire(j)
      PROVE  UNCHANGED <<stored, pc, convert>>
  BY <1>3 DEF CancelRead, CancelWrite, Expire, runVars, apiVars
<1>4. ASSUME NEW r \in Runs, Package(r)
      PROVE  /\ stored' = stored \cup {r[1]} /\ UNCHANGED convert
             /\ \A q \in Runs : q # r => pc'[q] = pc[q]
  BY <1>4 DEF Package, Goto, apiVars
<1>5. ASSUME NEW r \in Runs, RunMoves(r), ~Package(r)
      PROVE  /\ UNCHANGED <<stored, convert>>
             /\ \A q \in Runs : pc'[q] = "setResult" => pc[q] = "setResult"
  BY <1>5 DEF RunMoves, RunStep, Start, CheckCancelled, PublishProgress, StageSucceeds,
              StartAgent, StageFails, SetResultStep, SetCancelledStep, SetErrorStep,
              LLMReturns, WatchPoll, AgentDone, AgentResult, NextStage, JoinWatch, WatchDone,
              JoinRun, Return, FallbackRead, FallbackWrite, Crash, Goto, OnlyPc, apiVars
<1>6. ASSUME Restart
      PROVE  /\ UNCHANGED stored
             /\ \A q \in Runs : pc'[q] = "setResult" => pc[q] = "setResult"
             /\ \A k \in Jobs : Created(k)' => Created(k)
  BY <1>6 DEF Restart
<1>7. UNCHANGED vars => UNCHANGED <<stored, pc, convert>>
  BY DEF vars
<1> QED BY <1>1, <1>2, <1>3, <1>4, <1>5, <1>6, <1>7 DEF Next, ApiStep, RunMoves

LEMMA ResultStep ==
    ASSUME ~Expiry, BaseInv, ResultInv, [Next]_vars
    PROVE  ResultInv'
<1>c. /\ CreateJob.exists /\ CreateJob.whole
      /\ CreateJob.status # Missing /\ CreateJob.status # "completed"
  BY DEF CreateJob, Absent, Missing
<1>1. ASSUME NEW j \in Jobs, Created(j)'
      PROVE  table'[j].exists /\ table'[j].status # Missing
  BY <1>1, <1>c, ResultControl, ResultRow
<1>2. ASSUME NEW j \in Jobs
      PROVE  table'[j].exists => table'[j].whole
  <2>1. CASE Created(j)
    BY <2>1, ResultRow
  <2>2. CASE ~Created(j)
    BY <2>2, <1>c, UnownedRow DEF ResultInv, RowsAreWhole
  <2> QED BY <2>1, <2>2
<1>3. ASSUME NEW j \in Jobs, table'[j].status = "completed"
      PROVE  /\ table'[j].exists /\ table'[j].url /\ j \in stored'
             /\ ~S3Bucket => table'[j].local
  <2>1. CASE Created(j)
    BY <1>3, <2>1, ResultRow, ResultControl
  <2>2. CASE ~Created(j)
    BY <1>3, <2>2, <1>c, UnownedRow, ResultControl DEF ResultInv, Status
  <2> QED BY <2>1, <2>2
<1>4. \A r \in Runs : pc'[r] = "setResult" => r[1] \in stored'
  BY ResultControl DEF ResultInv
<1> QED BY <1>1, <1>2, <1>3, <1>4 DEF ResultInv, RowsAreWhole, Status

LEMMA ResultInit == Init => ResultInv
BY DEF Init, ResultInv, RowsAreWhole, Created, Status, Absent, Missing

LEMMA ResultAlways == ~Expiry /\ Spec => []ResultInv
<1>1. ASSUME ~Expiry PROVE BaseInv /\ ResultInv /\ [Next]_vars => ResultInv'
  BY <1>1, ResultStep
<1>2. ASSUME ~Expiry PROVE Spec => []ResultInv
  BY <1>1, <1>2, ResultInit, BaseAlways, PTL DEF Spec
<1> QED BY <1>2

(* As long as its row lives, a job reported completed has a download URL   *)
(* and what the URL names has been built, in the bucket or behind          *)
(* /download, also when another delivery of the job runs again.            *)
THEOREM ResultIsThere == ~Expiry /\ Spec => []CompletedHasResult
<1>1. ResultInv => CompletedHasResult
  <2> SUFFICES ASSUME ResultInv, NEW j \in Jobs, Status(j) = "completed"
               PROVE  /\ table[j].url /\ j \in stored
                      /\ ~S3Bucket => DownloadAnswer(j) = "file"
    BY DEF CompletedHasResult
  <2>1. table[j].exists /\ table[j].whole /\ table[j].status # Missing
    BY DEF ResultInv, RowsAreWhole, Status, Missing
  <2> QED BY <2>1 DEF ResultInv, DownloadAnswer, GetJob, Status
<1> QED BY <1>1, ResultAlways, PTL

(* Only a write after the TTL has deleted a row makes one without a ttl of *)
(* its own: while rows live every row is whole.                            *)
THEOREM RowsStayWhole == ~Expiry /\ Spec => []RowsAreWhole
<1>1. ResultInv => RowsAreWhole
  BY DEF ResultInv
<1> QED BY <1>1, ResultAlways, PTL

-----------------------------------------------------------------------------
(* Implementation of JobLifecycle.  One delivery, and writes that fail     *)
(* without being applied: a second delivery takes a finished job back, a   *)
(* write whose answer is lost is reported over, and a failing read of the  *)
(* watcher cancels a job nobody cancelled.                                 *)
Mild == ~Expiry /\ MaxDeliveries = 1 /\ Faults \subseteq {"write"}

(* Where a run is and what the row says go together.                       *)
PhaseOK(r) ==
    LET j == r[1]
    IN  /\ pc[r] = "idle" => stage[r] = 0
        /\ pc[r] = "idle" /\ Created(j) => Status(j) = "accepted"
        /\ pc[r] \in {"check", "publish"} => Status(j) = Before(stage[r])
        /\ pc[r] \in {"work", "llm", "joinWatch", "joinRun"} => Status(j) = StageStatus[stage[r]]
        /\ pc[r] = "setResult" => Status(j) = StageStatus[LastStage]
        /\ pc[r] \in {"setAborted", "setError", "setCancelled", "fallback"} =>
                Status(j) \in InFlightStatuses
        /\ pc[r] = "setCancelled" => table[j].cancel

(* The watcher reports a cancel only when there is one.                    *)
WatchOK(r) ==
    /\ watch[r] # "failed"
    /\ watch[r] = "seen" => table[r[1]].cancel
    /\ pc[r] = "llm" => watch[r] # "off"
    /\ pc[r] = "joinRun" => watch[r] = "seen"

PhaseInv == \A r \in Runs : PhaseOK(r) /\ WatchOK(r)

(* No two runs share a row.                                                *)
LEMMA OneRunPerJob ==
    ASSUME Mild, NEW r \in Runs, NEW q \in Runs, r[1] = q[1]
    PROVE  r = q
BY DEF Mild, Runs

LEMMA StatusFacts ==
    /\ \A s \in Stages : Before(s) \in InFlightStatuses /\ StageStatus[s] \in InFlightStatuses
    /\ \A s \in Stages : s # LastStage => Before(s + 1) = StageStatus[s]
    /\ \A s \in InFlightStatuses : s \notin TerminalStatuses /\ s # Missing
    /\ \A s \in JobStatus \cup {Missing} :
            s \notin TerminalStatuses /\ s # Missing => s \in InFlightStatuses
    /\ "accepted" \in InFlightStatuses
BY DEF Before, InFlightStatuses, Stages, LastStage, StageStatus, StageStatuses,
       TerminalStatuses, JobStatus, Missing

(* A step of one run is not seen by the runs of other jobs.                *)
LEMMA RunFrame ==
    ASSUME Mild, TypeOK, NEW r \in Runs, NEW q \in Runs, RunMoves(r), q # r
    PROVE  /\ UNCHANGED <<pc[q], stage[q], watch[q], table[q[1]], convert>>
<1>1. q[1] # r[1]
  BY OneRunPerJob
<1> QED
  BY <1>1, RunTypes
     DEF TypeOK, RunMoves, RunStep, Start, CheckCancelled, PublishProgress, StageSucceeds,
         StartAgent, Package, StageFails, SetResultStep, SetCancelledStep, SetErrorStep,
         LLMReturns, WatchPoll, AgentDone, AgentResult, NextStage, JoinWatch, WatchDone,
         JoinRun, Return, FallbackRead, FallbackWrite, Crash, Goto, OnlyPc, apiVars, Apply, Lose

LEMMA OthersKeepPhase ==
    ASSUME Mild, TypeOK, PhaseInv, NEW r \in Runs, RunMoves(r), PhaseOK(r)', WatchOK(r)'
    PROVE  PhaseInv'
<1> SUFFICES ASSUME NEW q \in Runs, q # r PROVE PhaseOK(q)' /\ WatchOK(q)'
  BY DEF PhaseInv
<1> QED BY RunFrame DEF PhaseInv, PhaseOK, WatchOK, Status, Created

(* A write of a run that fails leaves the table as it was.                 *)
LEMMA MildLoss ==
    ASSUME Mild, NEW j, NEW item, Lose(j, item)
    PROVE  table' = table
BY DEF Mild, Lose, FaultOn

LEMMA PhaseRunStep ==
    ASSUME Mild, BaseInv, PhaseInv, [Next]_vars, NEW r \in Runs, RunMoves(r)
    PROVE  PhaseOK(r)' /\ WatchOK(r)'
<1>t. TypeOK /\ AgentStages /\ r[1] \in Jobs
  BY RunTypes DEF BaseInv, TypeInv
<1>f. table[r[1]].cancel => table'[r[1]].cancel
  BY <1>t, FlagSteps DEF Mild
<1>m. "read" \notin Faults /\ "ambiguous" \notin Faults
  BY DEF Mild
<1>p. PhaseOK(r) /\ WatchOK(r)
  BY DEF PhaseInv
<1> USE <1>t, <1>f, <1>m, <1>p DEF TypeOK, PhaseOK, WatchOK, Status
<1>1. ASSUME Start(r) PROVE PhaseOK(r)' /\ WatchOK(r)'
  BY <1>1 DEF Start, Goto, OnlyPc, apiVars, Created, Before
<1>2. ASSUME CheckCancelled(r) PROVE PhaseOK(r)' /\ WatchOK(r)'
  BY <1>2, StatusFacts DEF CheckCancelled, Goto, IsCancelRequested, FaultOn
<1>3. ASSUME PublishProgress(r) PROVE PhaseOK(r)' /\ WatchOK(r)'
  <2>1. UpdateProgress(table[r[1]], stage[r]).status = StageStatus[stage[r]]
    BY DEF UpdateProgress, Items
  <2> QED BY <1>3, <2>1, StatusFacts, MildLoss DEF PublishProgress, Goto, Apply
<1>4. ASSUME StageSucceeds(r) PROVE PhaseOK(r)' /\ WatchOK(r)'
  BY <1>4, StatusFacts DEF StageSucceeds, NextStage, Goto, LastStage
<1>5. ASSUME StartAgent(r) PROVE PhaseOK(r)' /\ WatchOK(r)'
  BY <1>5 DEF StartAgent, Goto
<1>6. ASSUME Package(r) PROVE PhaseOK(r)' /\ WatchOK(r)'
  BY <1>6 DEF Package, Goto
<1>7. ASSUME StageFails(r) PROVE PhaseOK(r)' /\ WatchOK(r)'
  BY <1>7, StatusFacts DEF StageFails, Goto, OnlyPc
<1>8. ASSUME SetResultStep(r) PROVE PhaseOK(r)' /\ WatchOK(r)'
  <2>1. LastStage \in Stages
    BY DEF LastStage, Stages
  <2> QED BY <1>8, <2>1, StatusFacts, MildLoss DEF SetResultStep, Goto, Apply
<1>9. ASSUME \/ SetCancelledStep(r) \/ SetErrorStep(r) \/ Return(r) \/ FallbackWrite(r)
             \/ Crash(r)
      PROVE  PhaseOK(r)' /\ WatchOK(r)'
  <2>1. /\ pc'[r] \in {"returning", "raising", "done", "crashed"}
        /\ UNCHANGED watch
    BY <1>9 DEF SetCancelledStep, SetErrorStep, Return, FallbackWrite, Crash, Goto, OnlyPc
  <2> QED BY <2>1
<1>10. ASSUME LLMReturns(r) PROVE PhaseOK(r)' /\ WatchOK(r)'
  BY <1>10 DEF LLMReturns, apiVars, Created
<1>11. ASSUME WatchPoll(r) PROVE PhaseOK(r)' /\ WatchOK(r)'
  BY <1>11 DEF WatchPoll, IsCancelRequested, FaultOn, apiVars, Created
<1>12. ASSUME AgentDone(r) \/ JoinWatch(r) PROVE PhaseOK(r)' /\ WatchOK(r)'
  <2>1. stage[r] \in {2, 3}
    BY <1>12 DEF AgentDone, JoinWatch, AgentStages
  <2> QED BY <1>12, <2>1, StatusFacts
          DEF AgentDone, JoinWatch, AgentResult, NextStage, Goto, LastStage
<1>13. ASSUME WatchDone(r) PROVE PhaseOK(r)' /\ WatchOK(r)'
  BY <1>13 DEF WatchDone, Goto, OnlyPc
<1>14. ASSUME JoinRun(r) PROVE PhaseOK(r)' /\ WatchOK(r)'
  BY <1>14, StatusFacts DEF JoinRun, Goto, OnlyPc
<1>15. ASSUME FallbackRead(r) PROVE PhaseOK(r)' /\ WatchOK(r)'
  <2>1. InFlight(table[r[1]]) /\ GetJob(table[r[1]]) = "job" => Status(r[1]) \in InFlightStatuses
    BY StatusFacts DEF InFlight, GetJob, Items
  <2> QED BY <1>15, <2>1 DEF FallbackRead, Goto, FaultOn
<1> QED
  BY <1>1, <1>2, <1>3, <1>4, <1>5, <1>6, <1>7, <1>8, <1>9, <1>10, <1>11, <1>12, <1>13,
     <1>14, <1>15 DEF RunMoves, RunStep

LEMMA PhaseStep ==
    ASSUME Mild, BaseInv, PhaseInv, [Next]_vars
    PROVE  PhaseInv'
<1>t. TypeOK
  BY DEF BaseInv, TypeInv
<1>f. \A j \in Jobs : table[j].cancel => table'[j].cancel
  BY FlagSteps DEF Mild
<1> USE <1>t, RunTypes DEF TypeOK
<1>1. ASSUME UNCHANGED <<pc, stage, watch>>,
             \A j \in Jobs : /\ Status(j)' = Status(j)
                             /\ Created(j)' => Created(j)
      PROVE  PhaseInv'
  BY <1>1, <1>f DEF PhaseInv, PhaseOK, WatchOK
<1>2. ASSUME NEW j \in Jobs, ConvertCreate(j) PROVE PhaseInv'
  <2>1. UNCHANGED <<pc, stage, watch>> /\ \A k \in Jobs \ {j} : /\ table'[k] = table[k]
                                                             /\ convert'[k] = convert[k]
    BY <1>2 DEF ConvertCreate, runVars, Apply, Lose
  <2>2. Created(j)' => Status(j)' = "accepted"
    <3>1. CreateJob.status = "accepted"
      BY DEF CreateJob, Absent
    <3> QED BY <1>2, <3>1 DEF ConvertCreate, Created, Apply, Status
  <2>3. \A r \in Runs : r[1] = j => pc[r] = "idle"
    BY <1>2 DEF ConvertCreate, BaseInv, OwnerInv
  <2> QED BY <1>f, <2>1, <2>2, <2>3 DEF PhaseInv, PhaseOK, WatchOK, Status, Created
<1>3. ASSUME NEW j \in Jobs, ConvertDispatch(j) PROVE PhaseInv'
  BY <1>1, <1>3 DEF ConvertDispatch, runVars, Created, Status
<1>4. ASSUME NEW j \in Jobs, CancelRead(j) PROVE PhaseInv'
  <2>1. UNCHANGED <<table, convert, pc, stage, watch>>
    BY <1>4 DEF CancelRead, runVars
  <2> QED BY <1>1, <2>1 DEF Created, Status
<1>5. ASSUME NEW j \in Jobs, CancelWrite(j) PROVE PhaseInv'
  <2>1. RequestCancel(table[j]).status = table[j].status
    BY FlagOfItems
  <2> QED BY <1>1, <1>5, <2>1 DEF CancelWrite, Apply, Lose, runVars, Created, Status
<1>6. ASSUME NEW r \in Runs, RunMoves(r) PROVE PhaseInv'
  BY <1>6, PhaseRunStep, OthersKeepPhase
<1>7. ASSUME Restart PROVE PhaseInv'
  BY <1>7 DEF Restart, PhaseInv, PhaseOK, WatchOK, Created, Status
<1>8. ASSUME UNCHANGED vars PROVE PhaseInv'
  BY <1>1, <1>8 DEF vars, Created, Status
<1> QED
  BY <1>2, <1>3, <1>4, <1>5, <1>6, <1>7, <1>8 DEF Next, ApiStep, RunMoves, Expire, Mild

LEMMA PhaseInit == Init => PhaseInv
BY RunTypes DEF Init, PhaseInv, PhaseOK, WatchOK, Created

-----------------------------------------------------------------------------
(* A step of the service is a step of the life of one job, or none.        *)
LEMMA OneRow ==
    ASSUME TypeOK, [Next]_vars, Mild
    PROVE  \/ table' = table
           \/ \E j \in Jobs : \A k \in Jobs \ {j} : table'[k] = table[k]
<1> USE DEF TypeOK
<1>1. ASSUME NEW j \in Jobs, ApiStep(j)
      PROVE  \A k \in Jobs \ {j} : table'[k] = table[k]
  BY <1>1 DEF ApiStep, ConvertCreate, ConvertDispatch, CancelRead, CancelWrite, Apply, Lose
<1>2. ASSUME NEW r \in Runs, RunMoves(r)
      PROVE  \A k \in Jobs \ {r[1]} : table'[k] = table[k]
  BY <1>2 DEF RunMoves, RunStep, Start, CheckCancelled, PublishProgress, StageSucceeds,
              StartAgent, Package, StageFails, SetResultStep, SetCancelledStep, SetErrorStep,
              LLMReturns, WatchPoll, AgentDone, JoinWatch, WatchDone, JoinRun, Return,
              FallbackRead, FallbackWrite, Crash, OnlyPc, Apply, Lose
<1>3. Restart \/ UNCHANGED vars => table' = table
  BY DEF Restart, vars
<1> QED BY <1>1, <1>2, <1>3, RunTypes DEF Next, RunMoves, Expire, Mild

(* JobLifecycle speaks of the same stages and statuses.                    *)
LEMMA SameWords ==
    /\ Lifecycle!Missing = Missing
    /\ Lifecycle!Stages = Stages /\ Lifecycle!LastStage = LastStage
    /\ Lifecycle!StageStatus = StageStatus
    /\ Lifecycle!InFlightStatuses = InFlightStatuses
    /\ \A s \in Stages : Lifecycle!Before(s) = Before(s)
<1>1. Lifecycle!Stages = Stages /\ Lifecycle!LastStage = LastStage
  BY DEF Stages, LastStage, Lifecycle!Stages, Lifecycle!LastStage
<1>2. Lifecycle!StageStatus = StageStatus
  BY DEF StageStatus, Lifecycle!StageStatus, Stages, Lifecycle!Stages
<1>3. Lifecycle!InFlightStatuses = InFlightStatuses
  BY DEF InFlightStatuses, Lifecycle!InFlightStatuses, StageStatuses, Lifecycle!StageStatuses
<1>4. \A s \in Stages : Lifecycle!Before(s) = Before(s)
  BY <1>2 DEF Before, Lifecycle!Before
<1> QED BY <1>1, <1>2, <1>3, <1>4 DEF Missing, Lifecycle!Missing

LEMMA LifeStep ==
    ASSUME Mild, BaseInv, ResultInv, PhaseInv, InProcess => CancelInv, [Next]_vars
    PROVE  [Lifecycle!LifeNext]_(Lifecycle!lifeVars)
<1> DEFINE st == [j \in Jobs |-> table[j].status]
           rq == [j \in Jobs |-> table[j].cancel]
<1>t. TypeOK
  BY DEF BaseInv, TypeInv
<1>1. CASE table' = table
  BY <1>1 DEF Lifecycle!lifeVars
<1>2. ASSUME NEW j \in Jobs, \A k \in Jobs \ {j} : table'[k] = table[k]
      PROVE  [Lifecycle!LifeNext]_(Lifecycle!lifeVars)
  <2>1. table'[j].status = table[j].status /\ table'[j].cancel = table[j].cancel =>
          UNCHANGED Lifecycle!lifeVars
    BY <1>2 DEF Lifecycle!lifeVars
  <2>2. ASSUME NEW s, table'[j].status = s, table'[j].cancel = table[j].cancel
        PROVE  Lifecycle!Become(j, s)
    BY <1>2, <2>2 DEF Lifecycle!Become
  <2>3. table[j] \in Items
    BY <1>t DEF TypeOK
  <2>4. CASE convert[j] = "new" /\ table'[j] = CreateJob
    <3>1. Absent.cancel = CreateJob.cancel /\ CreateJob.status = "accepted"
      BY DEF Absent, CreateJob
    <3>2. table[j] = Absent /\ Absent.status = Missing
      BY <2>4 DEF BaseInv, OwnerInv, Absent
    <3>3. Lifecycle!Accept(j)
      BY <2>2, <2>4, <3>1, <3>2, SameWords DEF Lifecycle!Accept
    <3> QED BY <3>3 DEF Lifecycle!LifeNext
  <2>5. CASE /\ cancel[j] = "write" /\ CanRequestCancel(table[j])
             /\ table'[j] = RequestCancel(table[j])
    <3>1. Created(j)
      BY <2>5 DEF BaseInv, OwnerInv, Created
    <3>2. table'[j].status = table[j].status /\ table'[j].cancel = TRUE
      BY <2>3, <2>5 DEF RequestCancel, Items
    <3>3. table[j].status \in JobStatus \cup {Missing} /\ table[j].status # Missing
      BY <2>3, <3>1 DEF Items, ResultInv, Status
    <3>4. table[j].status \in InFlightStatuses
      BY <2>5, <3>3, StatusFacts DEF CanRequestCancel
    <3>5. rq' = [rq EXCEPT ![j] = TRUE]
      BY <1>2, <3>2
    <3>6. UNCHANGED st
      BY <1>2, <3>2
    <3>7. Lifecycle!RequestCancellation(j)
      BY <3>4, <3>5, <3>6, SameWords DEF Lifecycle!RequestCancellation
    <3> QED BY <3>7 DEF Lifecycle!LifeNext
  <2>6. ASSUME NEW r \in Runs, r[1] = j, Writes(r)
        PROVE  Lifecycle!LifeNext
    <3>1. stage[r] \in Stages /\ PhaseOK(r) /\ LastStage \in Stages
      BY <1>t DEF TypeOK, PhaseInv, LastStage, Stages
    <3>2. CASE pc[r] = "publish" /\ table'[j] = UpdateProgress(table[j], stage[r])
      <4>1. table[j].status = Before(stage[r])
        BY <2>6, <3>1, <3>2 DEF PhaseOK, Status
      <4>2. table'[j].status = StageStatus[stage[r]] /\ table'[j].cancel = table[j].cancel
        BY <2>3, <3>2 DEF UpdateProgress, Items
      <4>3. Lifecycle!Advance(j)
        BY <2>2, <3>1, <4>1, <4>2, SameWords DEF Lifecycle!Advance
      <4> QED BY <4>3 DEF Lifecycle!LifeNext
    <3>3. CASE pc[r] = "setResult" /\ table'[j] = SetResult(table[j], ~S3Bucket)
      <4>1. table[j].status = StageStatus[LastStage]
        BY <2>6, <3>1, <3>3 DEF PhaseOK, Status
      <4>2. table'[j].status = "completed" /\ table'[j].cancel = table[j].cancel
        BY <2>3, <3>3 DEF SetResult, Items
      <4>3. InProcess => ~table[j].cancel
        BY <2>6, <3>3 DEF CancelInv, PastLastCheck
      <4>4. Lifecycle!Complete(j)
        BY <2>2, <4>1, <4>2, <4>3, SameWords DEF Lifecycle!Complete
      <4> QED BY <4>4 DEF Lifecycle!LifeNext
    <3>4. CASE pc[r] = "setCancelled" /\ table'[j] = SetCancelled(table[j])
      <4>1. table[j].status \in InFlightStatuses /\ table[j].cancel
        BY <2>6, <3>1, <3>4 DEF PhaseOK, Status
      <4>2. table'[j].status = "cancelled" /\ table'[j].cancel = table[j].cancel
        BY <2>3, <3>4 DEF SetCancelled, Items
      <4>3. Lifecycle!Cancel(j)
        BY <2>2, <4>1, <4>2, SameWords DEF Lifecycle!Cancel
      <4> QED BY <4>3 DEF Lifecycle!LifeNext
    <3>5. CASE /\ pc[r] \in {"setAborted", "setError", "fallback"}
               /\ table'[j] = SetError(table[j])
      <4>1. table[j].status \in InFlightStatuses
        BY <2>6, <3>1, <3>5 DEF PhaseOK, Status
      <4>2. table'[j].status = "error" /\ table'[j].cancel = table[j].cancel
        BY <2>3, <3>5 DEF SetError, Items
      <4>3. Lifecycle!Fail(j)
        BY <2>2, <4>1, <4>2, SameWords DEF Lifecycle!Fail
      <4> QED BY <4>3 DEF Lifecycle!LifeNext
    <3> QED BY <2>6, <3>2, <3>3, <3>4, <3>5 DEF Writes
  <2> QED
    BY <1>t, <2>1, <2>4, <2>5, <2>6, RowSteps DEF RowStep, Mild
<1> QED BY <1>t, <1>1, <1>2, OneRow

(* The service implements the life cycle a client is promised, with either *)
(* dispatcher, and in-process the stronger one in which a cancel wins: for *)
(* every number of jobs, lost writes, crashes and restarts.                *)
THEOREM ImplementsLifecycle == Mild /\ Spec => RefinesLifecycle
<1>1. Init => Lifecycle!LifeInit
  BY SameWords DEF Init, Lifecycle!LifeInit, Absent
<1>2. ASSUME Mild PROVE BaseInv /\ ResultInv /\ PhaseInv /\ (InProcess => CancelInv) /\ [Next]_vars
                          => [Lifecycle!LifeNext]_(Lifecycle!lifeVars)
  BY <1>2, LifeStep
<1>3. ASSUME Mild PROVE BaseInv /\ PhaseInv /\ [Next]_vars => PhaseInv'
  BY <1>3, PhaseStep
<1>4. ASSUME Mild PROVE Spec => []ResultInv
  BY <1>4, ResultAlways DEF Mild
<1>5. Spec => [](InProcess => CancelInv)
  <2>1. CASE InProcess
    <3>1. Spec => []CancelInv
      BY <2>1, CancelAlways
    <3> QED BY <3>1, PTL
  <2>2. CASE ~InProcess
    <3>1. InProcess => CancelInv
      BY <2>2
    <3> QED BY <2>2, PTL
  <2> QED BY <2>1, <2>2
<1>6. ASSUME Mild PROVE Spec => Lifecycle!LifeSpec
  BY <1>1, <1>2, <1>3, <1>4, <1>5, <1>6, PhaseInit, BaseAlways, PTL
     DEF Spec, Lifecycle!LifeSpec
<1> QED BY <1>6 DEF RefinesLifecycle
=============================================================================
