-------------------------------- MODULE Popup --------------------------------
(***************************************************************************)
(* The extension's popup (frontend/chrome-extension/popup/popup.tsx) on    *)
(* the tab of one paper, with a valid URL and an API key: opened and       *)
(* closed at will, restored from the service worker's entry, polling the   *)
(* backend itself, and starting and cancelling through the worker.         *)
(*                                                                         *)
(* A step is a handler up to its next await.  The worker, whose detail is  *)
(* in ServiceWorker, answers messages here and keeps the entry of the one  *)
(* URL; it learns the end of a job in its own time and is not killed.      *)
(***************************************************************************)
EXTENDS Naturals, FiniteSets

CONSTANTS
    Starts,     \* clicks on the submit button; also the id of the job each leads to
    NoJob,      \* currentJobId or pollingInterval is null; no entry
    Unwanted,   \* bound: the jobs the user tries to cancel
    MaxPolls    \* bound on the polls of one job under way together

ASSUME PopupConstants ==
    /\ NoJob \notin Starts
    /\ Unwanted \subseteq Starts
    /\ MaxPolls \in Nat

Ends == {"completed", "error", "cancelled"}

(* The sections that tell an outcome; the fourth is the progress.          *)
Outcomes == {"download", "error", "cancelled"}

VARIABLES
    open,           \* the popup is open
    currentJobId,
    interval,       \* the job pollingInterval polls
    polls,          \* the popup's polls, <<job, "sent" or the end it was answered>>
    sections,       \* the sections that are not hidden
    download,       \* the job downloadBtn opens
    submitEnabled,  \* ~submitBtn.disabled
    cancelGrey,     \* cancelBtn.disabled
    waiting,        \* handlers awaiting the worker, <<"start" or "cancel", job>>
    start,          \* START_CONVERSION in the worker
    cancel,         \* CANCEL_CONVERSION in the worker
    entry,          \* the worker's entry: its job, its end or "processing", cancelRequested
    server,         \* the job at the backend
    asked,          \* jobs whose cancellation is on record at the backend
    disturbed       \* history: what crossed since the popup was opened or submitted

jobView == <<currentJobId, interval>>
buttons == <<submitEnabled, cancelGrey>>
dom == <<sections, download, buttons>>
worker == <<start, cancel, entry>>
backend == <<server, asked>>
vars == <<open, jobView, polls, dom, waiting, worker, backend, disturbed>>

NoEntry == [job |-> NoJob, end |-> "processing", cancelRequested |-> FALSE]

TypeOK ==
    /\ open \in BOOLEAN
    /\ currentJobId \in Starts \cup {NoJob} /\ interval \in {NoJob, currentJobId}
    /\ polls \subseteq Starts \X ({"sent"} \cup Ends)
    /\ sections \subseteq Outcomes \cup {"progress"}
    /\ download \in Starts \cup {NoJob}
    /\ submitEnabled \in BOOLEAN /\ cancelGrey \in BOOLEAN
    /\ waiting \subseteq {"start", "cancel"} \X Starts
    /\ start \in [Starts -> {"new", "sent", "accepted", "failed"}]
    /\ cancel \in [Starts -> {"none", "sent", "posting", "accepted", "refused"}]
    /\ entry \in [job : Starts \cup {NoJob}, end : {"processing"} \cup Ends,
                  cancelRequested : BOOLEAN]
    /\ server \in [Starts -> {"none", "running"} \cup Ends]
    /\ asked \subseteq Starts
    /\ disturbed \subseteq {"edited", "late", "covered", "crossed", "orphaned"}

Init ==
    /\ open = FALSE
    /\ currentJobId = NoJob /\ interval = NoJob
    /\ polls = {} /\ waiting = {}
    /\ sections = {} /\ download = NoJob
    /\ submitEnabled = FALSE /\ cancelGrey = FALSE
    /\ disturbed = {}
    /\ start = [n \in Starts |-> "new"]
    /\ cancel = [n \in Starts |-> "none"]
    /\ entry = NoEntry
    /\ server = [n \in Starts |-> "none"]
    /\ asked = {}

-----------------------------------------------------------------------------
(* Opening and closing.                                                    *)

(* A START is under way in this popup.                                     *)
Starting == \E n \in Starts : <<"start", n>> \in waiting

(* The awaited answers of the worker to this popup's messages are lost.    *)
Close ==
    /\ open
    /\ open' = FALSE
    /\ currentJobId' = NoJob /\ interval' = NoJob
    /\ polls' = {} /\ waiting' = {}
    /\ sections' = {} /\ download' = NoJob
    /\ submitEnabled' = FALSE /\ cancelGrey' = FALSE
    /\ disturbed' = {}
    /\ cancel' = [n \in Starts |->
                    IF cancel[n] \in {"accepted", "refused"} THEN "none" ELSE cancel[n]]
    /\ UNCHANGED <<start, entry, backend>>

(* Broken variant: a restored job is shown and not polled.                 *)
Open_NotPolled ==
    /\ ~open
    /\ open' = TRUE
    /\ currentJobId' = entry.job
    /\ submitEnabled' = (entry.job = NoJob)
    /\ sections' = IF entry.job = NoJob THEN {} ELSE {"progress"}
    /\ UNCHANGED <<interval, polls, download, cancelGrey, waiting, worker, backend, disturbed>>

(* init: the view of the worker's answer to GET_STATUS, then the           *)
(* listeners.                                                              *)
Open ==
    /\ ~open
    /\ open' = TRUE
    /\ currentJobId' = entry.job
    /\ LET running == entry.job # NoJob /\ entry.end = "processing" IN
        /\ submitEnabled' = ~running
        /\ cancelGrey' = (running /\ entry.cancelRequested)
        /\ interval' = IF running THEN entry.job ELSE NoJob
        /\ polls' = IF running THEN {<<entry.job, "sent">>} ELSE {}
        /\ sections' = CASE entry.job = NoJob -> {}
                         [] entry.job # NoJob /\ entry.end = "processing" -> {"progress"}
                         [] entry.job # NoJob /\ entry.end = "completed" -> {"progress", "download"}
                         [] OTHER -> {entry.end}
    /\ download' = IF entry.job # NoJob /\ entry.end = "completed" THEN entry.job ELSE NoJob
    /\ UNCHANGED <<waiting, worker, backend, disturbed>>

-----------------------------------------------------------------------------
(* Submitting.                                                             *)

(* Any edit of the URL enables the button, also while a job is processed.  *)
UrlInput ==
    /\ open
    /\ ~submitEnabled
    /\ submitEnabled' = TRUE
    /\ disturbed' = disturbed \cup {"edited"}
    /\ UNCHANGED <<open, jobView, polls, sections, download, cancelGrey, waiting,
                   worker, backend>>

(* Broken variants: the button stays enabled; the sections stay.           *)
Submit_Enabled(n) ==
    /\ open /\ start[n] = "new"
    /\ submitEnabled \/ sections \cap {"error", "cancelled"} # {}
    /\ sections' = {"progress"}
    /\ submitEnabled' = TRUE /\ cancelGrey' = FALSE
    /\ waiting' = waiting \cup {<<"start", n>>}
    /\ start' = [start EXCEPT ![n] = "sent"]
    /\ disturbed' = {}
    /\ UNCHANGED <<open, jobView, polls, download, cancel, entry, backend>>

Submit_NoReset(n) ==
    /\ open /\ start[n] = "new"
    /\ submitEnabled \/ sections \cap {"error", "cancelled"} # {}
    /\ sections' = sections \cup {"progress"}
    /\ submitEnabled' = FALSE
    /\ waiting' = waiting \cup {<<"start", n>>}
    /\ start' = [start EXCEPT ![n] = "sent"]
    /\ disturbed' = {}
    /\ UNCHANGED <<open, jobView, polls, download, cancelGrey, cancel, entry, backend>>

(* handleSubmit up to the message, from the button or from a retry button. *)
(* The job before stays the current one, and is still polled.              *)
Submit(n) ==
    /\ open /\ start[n] = "new"
    /\ submitEnabled \/ sections \cap {"error", "cancelled"} # {}
    /\ sections' = {"progress"}
    /\ submitEnabled' = FALSE /\ cancelGrey' = FALSE
    /\ waiting' = waiting \cup {<<"start", n>>}
    /\ start' = [start EXCEPT ![n] = "sent"]
    /\ disturbed' = {}
    /\ UNCHANGED <<open, jobView, polls, download, cancel, entry, backend>>

(* The worker says success: the popup turns to the new job.                *)
StartAnswer(n) ==
    /\ <<"start", n>> \in waiting /\ start[n] = "accepted"
    /\ waiting' = waiting \ {<<"start", n>>}
    /\ currentJobId' = n /\ interval' = n
    /\ polls' = polls \cup {<<n, "sent">>}
    /\ UNCHANGED <<open, dom, worker, backend, disturbed>>

ShowError ==
    /\ sections' = (sections \ {"progress"}) \cup {"error"}
    /\ submitEnabled' = TRUE

StartFails(n) ==
    /\ <<"start", n>> \in waiting /\ start[n] = "failed"
    /\ waiting' = waiting \ {<<"start", n>>}
    /\ ShowError
    /\ disturbed' = IF Starting' \/ interval # NoJob THEN disturbed \cup {"covered"} ELSE disturbed
    /\ UNCHANGED <<open, jobView, polls, download, cancelGrey, worker, backend>>

-----------------------------------------------------------------------------
(* Cancelling.                                                             *)

(* handleCancel up to the message; the button is in the progress section.  *)
Cancel(n) ==
    /\ open /\ "progress" \in sections
    /\ n \in Unwanted /\ currentJobId = n /\ ~cancelGrey
    /\ cancel[n] = "none"
    /\ cancelGrey' = TRUE
    /\ waiting' = waiting \cup {<<"cancel", n>>}
    /\ cancel' = [cancel EXCEPT ![n] = "sent"]
    /\ disturbed' = IF Starting THEN disturbed \cup {"crossed"} ELSE disturbed
    /\ UNCHANGED <<open, jobView, polls, sections, download, submitEnabled, start,
                   entry, backend>>

(* Broken variant: the button is not rolled back.                          *)
CancelAnswer_StaysGrey(n) ==
    /\ <<"cancel", n>> \in waiting /\ cancel[n] \in {"accepted", "refused"}
    /\ waiting' = waiting \ {<<"cancel", n>>}
    /\ cancel' = [cancel EXCEPT ![n] = "none"]
    /\ IF cancel[n] = "accepted" THEN UNCHANGED <<sections, submitEnabled, disturbed>>
       ELSE ShowError /\ disturbed' = disturbed \cup {"covered"}
    /\ UNCHANGED <<open, jobView, polls, download, cancelGrey, start, entry, backend>>

(* A refusal brings the button back and shows the error, over the view of  *)
(* a job that may still be processed.                                      *)
CancelAnswer(n) ==
    /\ <<"cancel", n>> \in waiting /\ cancel[n] \in {"accepted", "refused"}
    /\ waiting' = waiting \ {<<"cancel", n>>}
    /\ cancel' = [cancel EXCEPT ![n] = "none"]
    /\ IF cancel[n] = "accepted" THEN UNCHANGED <<sections, buttons, disturbed>>
       ELSE ShowError /\ cancelGrey' = FALSE /\ disturbed' = disturbed \cup {"covered"}
    /\ UNCHANGED <<open, jobView, polls, download, start, entry, backend>>

-----------------------------------------------------------------------------
(* Polling.                                                                *)

Tick(n) ==
    /\ interval = n
    /\ Cardinality({p \in polls : p[1] = n}) < MaxPolls
    /\ polls' = polls \cup {<<n, "sent">>}
    /\ UNCHANGED <<open, jobView, dom, waiting, worker, backend, disturbed>>

(* A request that fails is only logged.                                    *)
PollDropped(p) ==
    /\ p[2] # "sent"
    /\ polls' = polls \ {p}
    /\ UNCHANGED <<open, jobView, dom, waiting, worker, backend, disturbed>>

(* Broken variant: an answer is shown whatever job is current.             *)
Shows_Any(p) == p[2] \in Ends

(* The guard after the await, and the ends that are shown.                 *)
Shows(p) == p[1] = currentJobId /\ p[2] \in Ends

(* The section an end is told in.                                          *)
Section(e) == IF e = "completed" THEN "download" ELSE e

PollAnswer(p) ==
    /\ p[2] # "sent"
    /\ polls' = polls \ {p}
    /\ IF Shows(p) THEN
          /\ interval' = NoJob
          /\ submitEnabled' = TRUE
          /\ sections' = (IF p[2] = "completed" THEN sections ELSE sections \ {"progress"})
                            \cup {Section(p[2])}
          /\ download' = IF p[2] = "completed" THEN p[1] ELSE download
          /\ disturbed' = IF Starting \/ (interval = NoJob /\ Section(p[2]) \notin sections)
                          THEN disturbed \cup {"late"} ELSE disturbed
       ELSE UNCHANGED <<interval, submitEnabled, sections, download, disturbed>>
    /\ UNCHANGED <<open, currentJobId, cancelGrey, waiting, worker, backend>>

-----------------------------------------------------------------------------
(* The service worker and the backend.                                     *)

StartServed(n) ==
    /\ start[n] = "sent"
    /\ start' = [start EXCEPT ![n] = "accepted"]
    /\ server' = [server EXCEPT ![n] = "running"]
    /\ entry' = [NoEntry EXCEPT !.job = n]
    /\ UNCHANGED <<open, jobView, polls, dom, waiting, cancel, asked, disturbed>>

StartRefused(n) ==
    /\ start[n] = "sent"
    /\ start' = [start EXCEPT ![n] = "failed"]
    /\ UNCHANGED <<open, jobView, polls, dom, waiting, cancel, entry, backend, disturbed>>

(* The answer to a cancel reaches the popup that asked, if it is still     *)
(* open.                                                                   *)
Answer(n, a) ==
    cancel' = [cancel EXCEPT ![n] = IF <<"cancel", n>> \in waiting THEN a ELSE "none"]

(* The worker flags the entry before it posts, or refuses by itself.       *)
CancelServed(n) ==
    /\ cancel[n] = "sent"
    /\ IF entry.job = n /\ entry.end = "processing" THEN
          /\ entry' = [entry EXCEPT !.cancelRequested = TRUE]
          /\ cancel' = [cancel EXCEPT ![n] = "posting"]
       ELSE Answer(n, "refused") /\ UNCHANGED entry
    /\ UNCHANGED <<open, jobView, polls, dom, waiting, start, backend, disturbed>>

(* The POST of the cancel succeeds on a running job, or fails.             *)
CancelPosted(n) ==
    /\ cancel[n] = "posting"
    /\ \/ /\ server[n] = "running"
          /\ asked' = asked \cup {n}
          /\ Answer(n, "accepted")
          /\ UNCHANGED <<entry, disturbed>>
       \/ /\ Answer(n, "refused")
          /\ entry' = IF entry.job = n THEN [entry EXCEPT !.cancelRequested = FALSE]
                      ELSE entry
          /\ disturbed' = IF currentJobId = n /\ cancelGrey /\ <<"cancel", n>> \notin waiting
                          THEN disturbed \cup {"orphaned"} ELSE disturbed
          /\ UNCHANGED asked
    /\ UNCHANGED <<open, jobView, polls, dom, waiting, start, server>>

(* A poll of the worker finds the end.                                     *)
WorkerLearns ==
    /\ entry.job # NoJob /\ entry.end = "processing"
    /\ server[entry.job] \in Ends
    /\ entry' = [entry EXCEPT !.end = server[entry.job],
                                   !.cancelRequested = @ /\ server[entry.job] # "cancelled"]
    /\ UNCHANGED <<open, jobView, polls, dom, waiting, start, cancel, backend, disturbed>>

(* An answer with progress only moves the bar: such a poll ends here.      *)
PollServed(p) ==
    /\ p[2] = "sent"
    /\ polls' = (polls \ {p}) \cup
            (IF server[p[1]] \in Ends THEN {<<p[1], server[p[1]]>>} ELSE {})
    /\ UNCHANGED <<open, jobView, dom, waiting, worker, backend, disturbed>>

ServerEnds(n) ==
    /\ server[n] = "running"
    /\ \E e \in Ends :
        /\ e = "cancelled" => n \in asked
        /\ server' = [server EXCEPT ![n] = e]
    /\ UNCHANGED <<open, jobView, polls, dom, waiting, worker, asked, disturbed>>

Next ==
    \/ Open \/ Close \/ UrlInput \/ WorkerLearns
    \/ \E n \in Starts :
        \/ Submit(n) \/ StartServed(n) \/ StartRefused(n) \/ StartAnswer(n) \/ StartFails(n)
        \/ Cancel(n) \/ CancelServed(n) \/ CancelPosted(n) \/ CancelAnswer(n)
        \/ Tick(n) \/ ServerEnds(n)
    \/ \E p \in polls : PollServed(p) \/ PollDropped(p) \/ PollAnswer(p)

Spec == Init /\ [][Next]_vars

(* The interval fires while it runs, the backend serves the polls, and not *)
(* every answer with an end is lost.                                       *)
FairSpec ==
    /\ Spec
    /\ WF_vars(\E n \in Starts : Tick(n))
    /\ WF_vars(\E p \in polls : PollServed(p))
    /\ SF_vars(\E p \in polls : p[2] \in Ends /\ PollAnswer(p))

-----------------------------------------------------------------------------
(* Properties.                                                             *)

(* The download button opens the ZIP of a completed job.  It is the        *)
(* current one, unless since the popup was opened or last submitted an end *)
(* was shown during a START, or after the polling had stopped: then it     *)
(* stays beside the progress of the new job.                               *)
DownloadIsCurrent ==
    "download" \in sections =>
        /\ download # NoJob /\ server[download] = "completed"
        /\ "late" \notin disturbed => download = currentJobId

(* The popup never tells two ends of jobs together, and none during a      *)
(* START, unless an end was shown late; nor an error beside either, unless *)
(* the error was put over a job: a refused cancel, or a START that failed  *)
(* beside a job still polled or started.                                   *)
OneOutcome ==
    "late" \notin disturbed =>
        /\ {"download", "cancelled"} \cap sections # {} =>
              ~Starting /\ ~({"download", "cancelled"} \subseteq sections)
        /\ "covered" \notin disturbed =>
              /\ Cardinality(sections \cap Outcomes) <= 1
              /\ Starting => sections = {"progress"}

(* The button cannot be pressed again while a job is started or polled,    *)
(* unless since the popup was opened or last submitted the URL was edited, *)
(* or an error put over the job or a late end enabled it.                  *)
SubmittedOnce ==
    (disturbed \cap {"edited", "late", "covered"} = {} /\ submitEnabled)
        => ~Starting /\ interval = NoJob

(* A grey cancel button, also of a popup reopened during the request: the  *)
(* current job was asked to stop or is being asked, unless the request     *)
(* failed with the popup that made it closed, or the button was pressed    *)
(* while a START was under way.                                            *)
GreyMeansAsked ==
    (disturbed \cap {"crossed", "orphaned"} = {} /\ cancelGrey)
        => \/ currentJobId \in asked
           \/ currentJobId # NoJob /\ cancel[currentJobId] # "none"

(* "Polling will eventually flip the UI": once the current job has ended   *)
(* an open popup does not show its progress for ever.                      *)
OpenPopupSettles ==
    \A n \in Starts :
        (open /\ currentJobId = n /\ server[n] \in Ends)
            ~> (~open \/ currentJobId # n \/ Starting \/ sections # {"progress"})
=============================================================================
