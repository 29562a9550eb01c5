----------------------------- MODULE JobManager -----------------------------
(***************************************************************************)
(* The job record of backend/src/models/job.py and the DynamoDB mutations  *)
(* of backend/src/services/job_manager.py, as functions from the item a    *)
(* call finds to the item it leaves.  Every mutation of the class is one   *)
(* atomic put_item or update_item, so a function per mutation loses        *)
(* nothing; who calls them, in which order and with which failures, is     *)
(* the business of ConversionService.                                      *)
(*                                                                         *)
(* update_item is an upsert: applied to a row that is not there it creates *)
(* one holding only the attributes it SETs.  An absent row is therefore an *)
(* item with exists = FALSE and every attribute at the value get_job and   *)
(* is_cancel_requested give a missing one.  Texts (message, error, URLs,   *)
(* timestamps) are reduced to whether they are there.                      *)
(***************************************************************************)
EXTENDS Integers

Missing == "missing"            \* the attribute is not in the row, or null

(* JobStatus, and STAGES of the orchestrator: name = status = current_step *)
Stages == 0 .. 4
LastStage == 4
StageStatus ==
    [s \in Stages |-> CASE s = 0 -> "tex_fetch"
                        [] s = 1 -> "tex2markdown"
                        [] s = 2 -> "translation"
                        [] s = 3 -> "summary"
                        [] s = 4 -> "packaging"]
StageProgress ==
    [s \in Stages |-> CASE s = 0 -> 10
                        [] s = 1 -> 30
                        [] s = 2 -> 60
                        [] s = 3 -> 80
                        [] s = 4 -> 95]

StageStatuses == {"tex_fetch", "tex2markdown", "translation", "summary", "packaging"}
InFlightStatuses == {"accepted"} \cup StageStatuses
TerminalStatuses == {"completed", "error", "cancelled"}
JobStatus == InFlightStatuses \cup TerminalStatuses

(* The status of a job whose next stage is s.                              *)
Before(s) == IF s = 0 THEN "accepted" ELSE StageStatus[s - 1]

Items ==
    [exists   : BOOLEAN,        \* the row is in the table
     whole    : BOOLEAN,        \* it holds what only put_item writes: arxiv_url, created_at, ttl
     status   : JobStatus \cup {Missing},
     step     : StageStatuses \cup {"done", Missing},
     progress : 0 .. 100,
     url      : BOOLEAN,        \* download_url is set
     local    : BOOLEAN,        \* local_result_path is set
     error    : BOOLEAN,        \* error is set
     cancel   : BOOLEAN]        \* cancel_requested, FALSE when missing

Absent ==
    [exists |-> FALSE, whole |-> FALSE, status |-> Missing, step |-> Missing,
     progress |-> 0, url |-> FALSE, local |-> FALSE, error |-> FALSE,
     cancel |-> FALSE]

-----------------------------------------------------------------------------
(* Reads.                                                                  *)

InFlight(item) == item.exists /\ item.status \notin TerminalStatuses

(* get_job: None, a KeyError on a row without status, arxiv_url or         *)
(* created_at, or the job.                                                 *)
GetJob(item) ==
    IF ~item.exists THEN "none"
    ELSE IF item.whole /\ item.status # Missing THEN "job" ELSE "KeyError"

IsCancelRequested(item) == item.cancel

-----------------------------------------------------------------------------
(* Mutations.                                                              *)

CreateJob ==
    [Absent EXCEPT !.exists = TRUE, !.whole = TRUE, !.status = "accepted"]

(* Broken variant: the whole row is put, and the flag with it.             *)
UpdateProgress_PutsRow(item, s) ==
    [CreateJob EXCEPT !.status = StageStatus[s], !.step = StageStatus[s],
                      !.progress = StageProgress[s], !.url = item.url]

UpdateProgress(item, s) ==
    [item EXCEPT !.exists = TRUE, !.status = StageStatus[s],
                 !.step = StageStatus[s], !.progress = StageProgress[s]]

(* Broken variant: the local path is dropped.                              *)
SetResult_NoPath(item, hasLocalPath) ==
    [item EXCEPT !.exists = TRUE, !.status = "completed", !.step = "done",
                 !.progress = 100, !.url = TRUE]

SetResult(item, hasLocalPath) ==
    [item EXCEPT !.exists = TRUE, !.status = "completed", !.step = "done",
                 !.progress = 100, !.url = TRUE,
                 !.local = item.local \/ hasLocalPath]

SetError(item) ==
    [item EXCEPT !.exists = TRUE, !.status = "error", !.progress = 0,
                 !.error = TRUE]

SetCancelled(item) ==
    [item EXCEPT !.exists = TRUE, !.status = "cancelled"]

(* Broken variant: no ConditionExpression.                                 *)
CanRequestCancel_Always(item) == item.status \in JobStatus \cup {Missing}

(* The ConditionExpression of request_cancel: #s <> each terminal status.  *)
(* A missing attribute differs from every value, so an absent row passes.  *)
CanRequestCancel(item) == item.status \notin TerminalStatuses

RequestCancel(item) == [item EXCEPT !.exists = TRUE, !.cancel = TRUE]
=============================================================================
