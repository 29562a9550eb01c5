-------------------------- MODULE ConversionService --------------------------
(***************************************************************************)
(* The conversion backend: the API handlers that create and cancel a job   *)
(* (api/routes.py), the two dispatchers that start its pipeline            *)
(* (services/pipeline_dispatcher.py, pipeline_handler.py), the pipeline    *)
(* itself (run_pipeline and _run_single_agent of agents/orchestrator.py)   *)
(* and the DynamoDB row through which alone they communicate.              *)
(*                                                                         *)
(* A step is what runs between two DynamoDB calls.  With the Lambda        *)
(* dispatcher the handlers and the runs are separate processes and their   *)
(* steps interleave freely.  With the in-process dispatcher they share one *)
(* event loop and boto3 blocks it: a coroutine gives the loop up only      *)
(* where it suspends (Holding and the two Turn predicates).                *)
(***************************************************************************)
EXTENDS JobManager

CONSTANTS
    Jobs,           \* job ids, one per POST /convert
    MaxDeliveries,  \* how often the event of a job may reach the pipeline Lambda
    InProcess,      \* TRUE: InProcessPipelineDispatcher; FALSE: LambdaPipelineDispatcher
    S3Bucket,       \* S3_BUCKET_NAME is set
    Duplicates,     \* the Lambda queue may deliver an event again without a crash
    Expiry,         \* DynamoDB may delete rows whose ttl has passed
    Faults,         \* the ways an AWS call may fail: subset of FaultKinds
    MaxFaults,      \* bound on failing calls
    MaxCrashes      \* bound on crashes of a pipeline Lambda, or restarts of the server

FaultKinds ==
    {"read",        \* a read raises
     "write",       \* a write raises and was not applied
     "ambiguous"}   \* a write raises although it was applied

ASSUME ConstantsOK ==
    /\ MaxDeliveries \in Nat \ {0}
    /\ {InProcess, S3Bucket, Duplicates, Expiry} \subseteq BOOLEAN
    /\ Faults \subseteq FaultKinds
    /\ MaxFaults \in Nat
    /\ MaxCrashes \in Nat

(* A run is one execution of run_pipeline: a job and a delivery number.    *)
Runs == Jobs \X (1 .. MaxDeliveries)

VARIABLES
    table,      \* the DynamoDB row of each job
    convert,    \* the POST /convert handler of each job
    cancel,     \* the POST /cancel handler of each job, between its two calls
    ack,        \* the last answer that handler gave
    pc,         \* where each run is
    stage,      \* index into STAGES of the stage each run is at
    llm,        \* run_task of _run_single_agent
    watch,      \* watch_task of _run_single_agent
    stored,     \* jobs whose ZIP has been built (and uploaded, with a bucket)
    faults, crashes,    \* used up so far
    late        \* history: progress a run published after the flag was set

vars == <<table, convert, cancel, ack, pc, stage, llm, watch, stored, faults, crashes, late>>
runVars == <<pc, stage, llm, watch, stored, late>>
apiVars == <<convert, cancel, ack>>

(* The steps of a run during which it has the event loop ...               *)
Holding ==
    {"check", "publish", "work", "setResult", "setCancelled", "setAborted",
     "setError", "returning", "raising", "fallback"}
(* ... and those where it is not started, suspended, or over.              *)
PCs == Holding \cup {"idle", "llm", "joinWatch", "joinRun", "done", "crashed"}

TypeOK ==
    /\ table \in [Jobs -> Items]
    /\ convert \in [Jobs -> {"new", "created", "dispatched", "unanswered", "failed"}]
    /\ cancel \in [Jobs -> {"idle", "write"}]
    /\ ack \in [Jobs -> {"none", "accepted", "conflict", "notFound", "error"}]
    /\ pc \in [Runs -> PCs]
    /\ stage \in [Runs -> Stages]
    /\ llm \in [Runs -> {"off", "running", "ok", "failed"}]
    /\ watch \in [Runs -> {"off", "polling", "seen", "failed"}]
    /\ stored \subseteq Jobs
    /\ faults \in Nat
    /\ crashes \in Nat
    /\ late \in [Runs -> Nat]

Init ==
    /\ table = [j \in Jobs |-> Absent]
    /\ convert = [j \in Jobs |-> "new"]
    /\ cancel = [j \in Jobs |-> "idle"]
    /\ ack = [j \in Jobs |-> "none"]
    /\ pc = [r \in Runs |-> "idle"]
    /\ stage = [r \in Runs |-> 0]
    /\ llm = [r \in Runs |-> "off"]
    /\ watch = [r \in Runs |-> "off"]
    /\ stored = {}
    /\ faults = 0
    /\ crashes = 0
    /\ late = [r \in Runs |-> 0]

-----------------------------------------------------------------------------
(* The event loop of the in-process mode.                                  *)

(* Broken variant: cancel_job gives the loop up between its two calls.     *)
HandlerHolding_Suspends(j) == convert[j] = "created"

HandlerHolding(j) == convert[j] = "created" \/ cancel[j] = "write"

RunTurn(r) ==
    InProcess => /\ \A q \in Runs \ {r} : pc[q] \notin Holding
                 /\ \A j \in Jobs : ~HandlerHolding(j)

ApiTurn(j) ==
    InProcess => /\ \A q \in Runs : pc[q] \notin Holding
                 /\ \A k \in Jobs \ {j} : ~HandlerHolding(k)

(* An AWS call of the given kind raises.                                   *)
FaultOn(kind) ==
    kind \in Faults /\ faults < MaxFaults /\ faults' = faults + 1

(* A write of the row of j that succeeds, and one that raises.             *)
Apply(j, item) ==
    table' = [table EXCEPT ![j] = item] /\ UNCHANGED faults

Lose(j, item) ==
    \/ FaultOn("write") /\ UNCHANGED table
    \/ FaultOn("ambiguous") /\ table' = [table EXCEPT ![j] = item]

-----------------------------------------------------------------------------
(* API handlers.                                                           *)

(* Broken variant: the pipeline is dispatched although the row may be      *)
(* missing.                                                                *)
ConvertCreate_Unchecked(j) ==
    /\ convert[j] = "new"
    /\ ApiTurn(j)
    /\ Apply(j, CreateJob) \/ Lose(j, CreateJob)
    /\ convert' = [convert EXCEPT ![j] = "created"]
    /\ UNCHANGED <<cancel, ack, runVars, crashes>>

ConvertCreate(j) ==
    /\ convert[j] = "new"
    /\ ApiTurn(j)
    /\ \/ Apply(j, CreateJob) /\ convert' = [convert EXCEPT ![j] = "created"]
       \/ Lose(j, CreateJob) /\ convert' = [convert EXCEPT ![j] = "failed"]
    /\ UNCHANGED <<cancel, ack, runVars, crashes>>

(* dispatch: asyncio.create_task cannot fail, the Lambda invoke can.  An   *)
(* answer lost after the event was queued leaves a run without a client.   *)
ConvertDispatch(j) ==
    /\ convert[j] = "created"
    /\ ApiTurn(j)
    /\ \/ convert' = [convert EXCEPT ![j] = "dispatched"] /\ UNCHANGED faults
       \/ ~InProcess /\ FaultOn("write") /\ convert' = [convert EXCEPT ![j] = "failed"]
       \/ ~InProcess /\ FaultOn("ambiguous") /\ convert' = [convert EXCEPT ![j] = "unanswered"]
    /\ UNCHANGED <<table, cancel, ack, runVars, crashes>>

(* cancel_job, up to and with get_job: only a client that was told the job *)
(* id calls it.                                                            *)
CancelRead(j) ==
    /\ convert[j] = "dispatched" /\ cancel[j] = "idle"
    /\ ApiTurn(j)
    /\ \/ /\ GetJob(table[j]) = "job" /\ InFlight(table[j])
          /\ cancel' = [cancel EXCEPT ![j] = "write"]
          /\ ack' = [ack EXCEPT ![j] = "none"]
          /\ UNCHANGED faults
       \/ /\ GetJob(table[j]) # "job" \/ ~InFlight(table[j])
          /\ ack' = [ack EXCEPT ![j] = CASE GetJob(table[j]) = "none" -> "notFound"
                                         [] GetJob(table[j]) = "KeyError" -> "error"
                                         [] OTHER -> "conflict"]
          /\ UNCHANGED <<cancel, faults>>
       \/ /\ FaultOn("read")
          /\ ack' = [ack EXCEPT ![j] = "error"]
          /\ UNCHANGED cancel
    /\ UNCHANGED <<table, convert, runVars, crashes>>

(* request_cancel, whose result the handler drops: 200 either way.         *)
CancelWrite(j) ==
    /\ cancel[j] = "write"
    /\ ApiTurn(j)
    /\ \/ /\ CanRequestCancel(table[j])
          /\ Apply(j, RequestCancel(table[j]))
          /\ ack' = [ack EXCEPT ![j] = "accepted"]
       \/ /\ ~CanRequestCancel(table[j])
          /\ ack' = [ack EXCEPT ![j] = "accepted"]
          /\ UNCHANGED <<table, faults>>
       \/ /\ CanRequestCancel(table[j])
          /\ Lose(j, RequestCancel(table[j]))
          /\ ack' = [ack EXCEPT ![j] = "error"]
    /\ cancel' = [cancel EXCEPT ![j] = "idle"]
    /\ UNCHANGED <<convert, runVars, crashes>>

(* What GET /download answers: only a local file is served here.           *)
DownloadAnswer(j) ==
    IF ~S3Bucket /\ GetJob(table[j]) = "KeyError" THEN "error"
    ELSE IF ~S3Bucket /\ GetJob(table[j]) = "job" /\ table[j].local /\ j \in stored THEN "file"
    ELSE "notFound"

-----------------------------------------------------------------------------
(* run_pipeline.                                                           *)

Goto(r, label) == pc' = [pc EXCEPT ![r] = label]

OnlyPc == UNCHANGED <<table, apiVars, stage, llm, watch, stored, faults, crashes, late>>

NextStage(r) ==
    /\ stage' = [stage EXCEPT ![r] = @ + 1]
    /\ Goto(r, "check")

(* The first delivery is the dispatch itself.  Lambda delivers the event   *)
(* of an asynchronous invoke again after a crash or a timeout, and may     *)
(* deliver it twice; a task of the event loop is started once.             *)
Start(r) ==
    /\ pc[r] = "idle" /\ convert[r[1]] \in {"dispatched", "unanswered"}
    /\ \/ r[2] = 1
       \/ /\ r[2] > 1 /\ ~InProcess
          /\ Duplicates \/ pc[<<r[1], r[2] - 1>>] = "crashed"
    /\ RunTurn(r)
    /\ Goto(r, "check")
    /\ OnlyPc

(* Broken variant: the check before packaging is left out.                 *)
CheckCancelled_NotLast(r) ==
    /\ pc[r] = "check"
    /\ RunTurn(r)
    /\ Goto(r, IF IsCancelRequested(table[r[1]]) /\ stage[r] # LastStage
               THEN "setCancelled" ELSE "publish")
    /\ OnlyPc

CheckCancelled(r) ==
    /\ pc[r] = "check"
    /\ RunTurn(r)
    /\ \/ /\ Goto(r, IF IsCancelRequested(table[r[1]]) THEN "setCancelled" ELSE "publish")
          /\ UNCHANGED faults
       \/ FaultOn("read") /\ Goto(r, "setError")
    /\ UNCHANGED <<table, apiVars, stage, llm, watch, stored, crashes, late>>

PublishProgress(r) ==
    /\ pc[r] = "publish"
    /\ RunTurn(r)
    /\ LET item == UpdateProgress(table[r[1]], stage[r])
       IN  \/ Apply(r[1], item) /\ Goto(r, "work")
           \/ Lose(r[1], item) /\ Goto(r, "setError")
    /\ late' = [late EXCEPT ![r] = IF table[r[1]].cancel THEN @ + 1 ELSE @]
    /\ UNCHANGED <<apiVars, stage, llm, watch, stored, crashes>>

(* The work of a stage: fetch and tex2markdown are synchronous calls ...   *)
StageSucceeds(r) ==
    /\ pc[r] = "work" /\ stage[r] \in {0, 1}
    /\ RunTurn(r)
    /\ NextStage(r)
    /\ UNCHANGED <<table, apiVars, llm, watch, stored, faults, crashes, late>>

(* ... translation and summary start an agent and its cancel watcher ...   *)
StartAgent(r) ==
    /\ pc[r] = "work" /\ stage[r] \in {2, 3}
    /\ RunTurn(r)
    /\ llm' = [llm EXCEPT ![r] = "running"]
    /\ watch' = [watch EXCEPT ![r] = "polling"]
    /\ Goto(r, "llm")
    /\ UNCHANGED <<table, apiVars, stage, stored, faults, crashes, late>>

(* Broken variant: packaging ends like a stage that has a successor.       *)
Package_NextStage(r) ==
    /\ pc[r] = "work" /\ stage[r] = LastStage
    /\ RunTurn(r)
    /\ stored' = stored \cup {r[1]}
    /\ NextStage(r)
    /\ UNCHANGED <<table, apiVars, llm, watch, faults, crashes, late>>

(* ... and packaging builds the ZIP, uploads it when there is a bucket,    *)
(* and goes on to set_result without another look at the flag.             *)
Package(r) ==
    /\ pc[r] = "work" /\ stage[r] = LastStage
    /\ RunTurn(r)
    /\ stored' = stored \cup {r[1]}
    /\ Goto(r, "setResult")
    /\ UNCHANGED <<table, apiVars, stage, llm, watch, faults, crashes, late>>

(* Broken variant: the exception is raised without being recorded.         *)
StageFails_Unrecorded(r) ==
    /\ pc[r] = "work"
    /\ RunTurn(r)
    /\ Goto(r, "raising")
    /\ OnlyPc

(* Any stage may raise: PdfOnlyPaperError and PandocConversionError are    *)
(* recorded and swallowed, everything else is recorded and raised again.   *)
StageFails(r) ==
    /\ pc[r] = "work"
    /\ RunTurn(r)
    /\ \/ stage[r] \in {0, 1} /\ Goto(r, "setAborted")
       \/ Goto(r, "setError")
    /\ OnlyPc

SetResultStep(r) ==
    /\ pc[r] = "setResult"
    /\ RunTurn(r)
    /\ LET item == SetResult(table[r[1]], ~S3Bucket)
       IN  \/ Apply(r[1], item) /\ Goto(r, "returning")
           \/ Lose(r[1], item) /\ Goto(r, "setError")
    /\ UNCHANGED <<apiVars, stage, llm, watch, stored, crashes, late>>

(* The except clauses.  An AWS error inside one leaves run_pipeline.       *)
SetCancelledStep(r) ==
    /\ pc[r] = "setCancelled"
    /\ RunTurn(r)
    /\ LET item == SetCancelled(table[r[1]])
       IN  \/ Apply(r[1], item) /\ Goto(r, "returning")
           \/ Lose(r[1], item) /\ Goto(r, "raising")
    /\ UNCHANGED <<apiVars, stage, llm, watch, stored, crashes, late>>

SetErrorStep(r) ==
    /\ pc[r] \in {"setAborted", "setError"}
    /\ RunTurn(r)
    /\ LET item == SetError(table[r[1]])
       IN  \/ /\ Apply(r[1], item)
              /\ Goto(r, IF pc[r] = "setError" THEN "raising" ELSE "returning")
           \/ Lose(r[1], item) /\ Goto(r, "raising")
    /\ UNCHANGED <<apiVars, stage, llm, watch, stored, crashes, late>>

-----------------------------------------------------------------------------
(* _run_single_agent: the LLM call raced with a poller of the cancel flag. *)

LLMReturns(r) ==
    /\ pc[r] = "llm" /\ llm[r] = "running"
    /\ RunTurn(r)
    /\ \E outcome \in {"ok", "failed"} : llm' = [llm EXCEPT ![r] = outcome]
    /\ UNCHANGED <<table, apiVars, pc, stage, watch, stored, faults, crashes, late>>

(* One turn of _watch_cancel; a flag still down leaves everything as it is.*)
WatchPoll(r) ==
    /\ pc[r] = "llm" /\ watch[r] = "polling"
    /\ RunTurn(r)
    /\ \/ /\ IsCancelRequested(table[r[1]])
          /\ watch' = [watch EXCEPT ![r] = "seen"]
          /\ UNCHANGED faults
       \/ FaultOn("read") /\ watch' = [watch EXCEPT ![r] = "failed"]
    /\ UNCHANGED <<table, apiVars, pc, stage, llm, stored, crashes, late>>

(* What follows once watch_task is over: its exception, if it died of one, *)
(* else that of the call, else the next stage.                             *)
AgentResult(r) ==
    IF watch[r] = "failed" \/ llm[r] = "failed"
    THEN Goto(r, "setError") /\ UNCHANGED stage
    ELSE NextStage(r)

(* asyncio.wait returns with the call done: the watcher is cancelled, and  *)
(* awaiting one that was still polling suspends once more.                 *)
AgentDone(r) ==
    /\ pc[r] = "llm" /\ llm[r] # "running"
    /\ RunTurn(r)
    /\ IF watch[r] = "polling"
       THEN Goto(r, "joinWatch") /\ UNCHANGED stage
       ELSE AgentResult(r)
    /\ UNCHANGED <<table, apiVars, llm, watch, stored, faults, crashes, late>>

JoinWatch(r) ==
    /\ pc[r] = "joinWatch"
    /\ RunTurn(r)
    /\ AgentResult(r)
    /\ UNCHANGED <<table, apiVars, llm, watch, stored, faults, crashes, late>>

(* Broken variant: asyncio.wait until both are done.                       *)
WatchDone_Both(r) ==
    /\ pc[r] = "llm" /\ llm[r] # "running" /\ watch[r] # "polling"
    /\ RunTurn(r)
    /\ Goto(r, "joinRun")
    /\ OnlyPc

(* It returns with only the watcher done, whether that saw the flag or     *)
(* died: the call is cancelled and awaited.                                *)
WatchDone(r) ==
    /\ pc[r] = "llm" /\ llm[r] = "running" /\ watch[r] # "polling"
    /\ RunTurn(r)
    /\ Goto(r, "joinRun")
    /\ OnlyPc

(* JobCancelledError, or the exception the teardown of the call ended in.  *)
JoinRun(r) ==
    /\ pc[r] = "joinRun"
    /\ RunTurn(r)
    /\ \E label \in {"setCancelled", "setError"} : Goto(r, label)
    /\ OnlyPc

-----------------------------------------------------------------------------
(* The callers of run_pipeline.                                            *)

(* A return, and what the Lambda handler makes of an exception: it logs    *)
(* and returns, so that the event is not retried.                          *)
Return(r) ==
    /\ pc[r] = "returning" \/ (pc[r] = "raising" /\ ~InProcess)
    /\ RunTurn(r)
    /\ Goto(r, "done")
    /\ OnlyPc

(* Broken variants: the dispatcher records an error without looking; it    *)
(* only logs the exception.                                                *)
FallbackRead_Blind(r) ==
    /\ pc[r] = "raising" /\ InProcess
    /\ RunTurn(r)
    /\ Goto(r, "fallback")
    /\ OnlyPc

FallbackRead_Logs(r) ==
    /\ pc[r] = "raising" /\ InProcess
    /\ RunTurn(r)
    /\ Goto(r, "done")
    /\ OnlyPc

(* InProcessPipelineDispatcher._run: look at the row, and record the error *)
(* unless the job is over.  An exception here ends the task unseen.        *)
FallbackRead(r) ==
    /\ pc[r] = "raising" /\ InProcess
    /\ RunTurn(r)
    /\ \/ /\ GetJob(table[r[1]]) = "job" /\ InFlight(table[r[1]])
          /\ Goto(r, "fallback") /\ UNCHANGED faults
       \/ /\ GetJob(table[r[1]]) # "job" \/ ~InFlight(table[r[1]])
          /\ Goto(r, "done") /\ UNCHANGED faults
       \/ FaultOn("read") /\ Goto(r, "done")
    /\ UNCHANGED <<table, apiVars, stage, llm, watch, stored, crashes, late>>

FallbackWrite(r) ==
    /\ pc[r] = "fallback"
    /\ RunTurn(r)
    /\ LET item == SetError(table[r[1]])
       IN  (Apply(r[1], item) \/ Lose(r[1], item)) /\ Goto(r, "done")
    /\ UNCHANGED <<apiVars, stage, llm, watch, stored, crashes, late>>

-----------------------------------------------------------------------------
(* The environment.                                                        *)

(* A pipeline Lambda dies or meets its 15 minute timeout.                  *)
Crash(r) ==
    /\ ~InProcess /\ crashes < MaxCrashes
    /\ pc[r] \notin {"idle", "done", "crashed"}
    /\ crashes' = crashes + 1
    /\ Goto(r, "crashed")
    /\ UNCHANGED <<table, apiVars, stage, llm, watch, stored, faults, late>>

(* The server restarts (uvicorn reload, container restart): handlers and   *)
(* tasks are gone, those not yet started too.                              *)
Restart ==
    /\ InProcess /\ crashes < MaxCrashes
    /\ crashes' = crashes + 1
    /\ pc' = [r \in Runs |->
                IF convert[r[1]] \in {"new", "created", "failed"} \/ pc[r] = "done"
                THEN pc[r] ELSE "crashed"]
    /\ convert' = [j \in Jobs |-> IF convert[j] = "created" THEN "failed" ELSE convert[j]]
    /\ cancel' = [j \in Jobs |-> "idle"]
    /\ UNCHANGED <<table, ack, stage, llm, watch, stored, faults, late>>

(* DynamoDB deletes a row whose ttl attribute has passed; one without the  *)
(* attribute stays for ever.                                               *)
Expire(j) ==
    /\ Expiry /\ table[j].exists /\ table[j].whole
    /\ table' = [table EXCEPT ![j] = Absent]
    /\ UNCHANGED <<apiVars, runVars, faults, crashes>>

-----------------------------------------------------------------------------
ApiStep(j) ==
    ConvertCreate(j) \/ ConvertDispatch(j) \/ CancelRead(j) \/ CancelWrite(j)

(* What a run does by itself, its two children apart.                      *)
RunStep(r) ==
    \/ Start(r) \/ CheckCancelled(r) \/ PublishProgress(r)
    \/ StageSucceeds(r) \/ StartAgent(r) \/ Package(r) \/ StageFails(r)
    \/ SetResultStep(r) \/ SetCancelledStep(r) \/ SetErrorStep(r)
    \/ AgentDone(r) \/ JoinWatch(r) \/ WatchDone(r) \/ JoinRun(r)
    \/ Return(r) \/ FallbackRead(r) \/ FallbackWrite(r)

Next ==
    \/ \E j \in Jobs : ApiStep(j) \/ Expire(j)
    \/ \E r \in Runs : RunStep(r) \/ LLMReturns(r) \/ WatchPoll(r) \/ Crash(r)
    \/ Restart

Spec == Init /\ [][Next]_vars

(* A handler between its two calls goes on, and so does a run.  In-process *)
(* a suspended run waits its turn: the event loop is FIFO, so a callback   *)
(* that is ready again and again is run, though others come in between     *)
(* (strong fairness).  An LLM call is under no obligation to return.       *)
Fairness ==
    /\ \A j \in Jobs : WF_vars(ConvertDispatch(j)) /\ WF_vars(CancelWrite(j))
    /\ \A r \in Runs : SF_vars(RunStep(r)) /\ SF_vars(WatchPoll(r))

FairSpec == Spec /\ Fairness

(* What is not part of it: the LLM answers every call.                     *)
LLMAnswers == \A r \in Runs : SF_vars(LLMReturns(r))

-----------------------------------------------------------------------------
(* Safety.                                                                 *)

Status(j) == table[j].status
Terminal(j) == Status(j) \in TerminalStatuses

(* A job whose cancellation was recorded does not complete.  README.md and *)
(* the docstring of _check_cancelled promise it for every stage, packaging *)
(* included.                                                               *)
CompletedNotCancelled == \A j \in Jobs : Status(j) = "completed" => ~table[j].cancel

(* A client told 200 by /cancel has its request on record: cancel_job      *)
(* answers 409 when request_cancel is a no-op.                             *)
AckMeansFlag == \A j \in Jobs : ack[j] = "accepted" => table[j].cancel

(* "Cancellation is observed within at most one stage" (cancel_job): once  *)
(* the flag is up a run reports at most the one stage whose check it had   *)
(* already passed.                                                         *)
CancelObservedWithinOneStage == \A r \in Runs : late[r] <= 1

(* A job reported completed has a download URL, and what the URL names has *)
(* been built: in the bucket, or behind /download.                         *)
CompletedHasResult ==
    \A j \in Jobs : Status(j) = "completed" =>
        /\ table[j].url /\ j \in stored
        /\ ~S3Bucket => DownloadAnswer(j) = "file"

(* Every row carries the ttl by which DynamoDB cleans it up, and the       *)
(* fields get_job needs.                                                   *)
RowsAreWhole == \A j \in Jobs : table[j].exists => table[j].whole

(* Progress, result and error writes leave a recorded cancellation in      *)
(* place: the reason Job keeps the flag apart from the status.             *)
FlagSurvives ==
    [][\A j \in Jobs : table[j].cancel /\ table'[j].exists => table'[j].cancel]_vars

(* A cancellation is never recorded on a finished job, however stale the   *)
(* snapshot cancel_job decided on.                                         *)
FlagRaisedInFlight ==
    [][\A j \in Jobs : table'[j].cancel /\ ~table[j].cancel => ~Terminal(j)]_vars

(* "Don't clobber a terminal status": the dispatcher's own error report    *)
(* never replaces the outcome run_pipeline recorded before it failed.      *)
FallbackKeepsOutcome ==
    [][\A r \in Runs : pc[r] = "fallback" /\ pc'[r] = "done" => ~Terminal(r[1])]_vars

(* The row of a job goes through the life a client is promised.  The       *)
(* in-process dispatcher gives the stronger promise that a cancel wins.    *)
Lifecycle ==
    INSTANCE JobLifecycle
        WITH CancelWins <- InProcess,
             status <- [j \in Jobs |-> table[j].status],
             requested <- [j \in Jobs |-> table[j].cancel]

RefinesLifecycle == Lifecycle!LifeSpec

-----------------------------------------------------------------------------
(* Liveness.                                                               *)

(* Every job whose pipeline was dispatched ends, and stays ended, when the *)
(* LLM answers: with a delivery left for each crash, or, in-process, with  *)
(* the dispatcher's error report to make up for a lost one of the run.     *)
SettlesForGood ==
    LLMAnswers => \A j \in Jobs : convert[j] = "dispatched" ~> []Terminal(j)

(* A recorded cancellation ends the job even if the LLM never answers:     *)
(* what the watcher of _run_single_agent is for.                           *)
CancelSettles == \A j \in Jobs : table[j].cancel ~> Terminal(j)
=============================================================================
