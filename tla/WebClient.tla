------------------------------ MODULE WebClient ------------------------------
(***************************************************************************)
(* The web page (frontend/web/src): HomePage with its hook useJobPolling.  *)
(*                                                                         *)
(* A step is a handler or a callback up to its next await, together with   *)
(* the render and the effects its setState calls lead to.  Requests are    *)
(* served at one moment and answered at a later one; the polls of a job    *)
(* overlap when an answer takes longer than the interval, and a poll goes  *)
(* on after the page has turned to another job.  The backend is the        *)
(* environment: each job ends once, cancelled only if that was asked.      *)
(***************************************************************************)
EXTENDS Naturals, FiniteSets

CONSTANTS
    Submits,    \* submissions of a URL; also the id of the job each leads to
    NoJob,      \* jobId is null; no interval
    MaxPolls    \* bound on the polls of one job under way together

ASSUME WebClientConstants ==
    /\ NoJob \notin Submits
    /\ MaxPolls \in Nat

Ends == {"completed", "error", "cancelled"}

VARIABLES
    appState,       \* "idle", "processing", "completed"
    jobId,          \* the job the page follows
    cancelInFlight,
    ends,           \* the flags isComplete, isError and isCancelled of JobState
    download,       \* the job whose downloadUrl JobState holds
    interval,       \* the job intervalRef polls
    polls,          \* polls under way, <<job, "sent" or the status it was answered>>
    submit,         \* the handler of each submission
    cancel,         \* the cancel request of each job
    server,         \* the job at the backend
    asked,          \* jobs whose cancellation is on record at the backend
    strays,         \* history: jobs whose end was put on the page of another
    overtaken,      \* history: jobs whose "running" answer took an error off the page
    displaced       \* history: jobs that lost the page while they were posted or shown

page == <<appState, jobId, cancelInFlight>>
hook == <<ends, download, interval>>
backend == <<server, asked>>

(* History variables, which no step reads.  strays and overtaken are about *)
(* the state the hook holds and are cleared with it.                       *)
mixed == <<strays, overtaken>>
history == <<mixed, displaced>>
vars == <<page, hook, polls, submit, cancel, backend, history>>

TypeOK ==
    /\ appState \in {"idle", "processing", "completed"}
    /\ jobId \in Submits \cup {NoJob} /\ interval \in {NoJob, jobId}
    /\ cancelInFlight \in BOOLEAN
    /\ ends \subseteq Ends
    /\ download \in {NoJob} \cup {n \in Submits : server[n] = "completed"}
    /\ polls \subseteq Submits \X ({"sent", "running"} \cup Ends)
    /\ submit \in [Submits -> {"new", "sent", "accepted", "done", "failed"}]
    /\ cancel \in [Submits -> {"none", "sent", "accepted", "refused"}]
    /\ server \in [Submits -> {"none", "running"} \cup Ends]
    /\ asked \subseteq Submits
    /\ strays \subseteq Submits /\ overtaken \subseteq Submits /\ displaced \subseteq Submits

Init ==
    /\ appState = "idle" /\ jobId = NoJob /\ cancelInFlight = FALSE
    /\ ends = {} /\ download = NoJob /\ interval = NoJob
    /\ polls = {}
    /\ submit = [n \in Submits |-> "new"]
    /\ cancel = [n \in Submits |-> "none"]
    /\ server = [n \in Submits |-> "none"]
    /\ asked = {}
    /\ strays = {} /\ overtaken = {} /\ displaced = {}

-----------------------------------------------------------------------------
(* HomePage.                                                               *)

(* Broken variant: any end completes the page.                             *)
Rendered_AnyEnd(app, flags) ==
    IF app = "processing" /\ flags # {} THEN "completed" ELSE app

(* The effect that turns a completed job's page, run after every render.   *)
Rendered(app, flags) ==
    IF app = "processing" /\ "completed" \in flags THEN "completed" ELSE app

(* History: the submissions whose POST is under way while the page shows   *)
(* something else.                                                         *)
Away(app, posts) ==
    IF app = "processing" THEN {} ELSE {n \in Submits : posts[n] \in {"sent", "accepted"}}

(* handleSubmit up to the POST; the form is disabled while processing.     *)
Submit(n) ==
    /\ submit[n] = "new" /\ appState # "processing"
    /\ submit' = [submit EXCEPT ![n] = "sent"]
    /\ cancelInFlight' = FALSE
    /\ appState' = Rendered("processing", ends)
    /\ displaced' = displaced \cup Away(appState', submit')
    /\ UNCHANGED <<jobId, hook, polls, cancel, backend, mixed>>

(* Broken variant: the hook keeps the flags of the job before.             *)
SubmitAnswer_KeepsState(n) ==
    /\ submit[n] = "accepted"
    /\ submit' = [submit EXCEPT ![n] = "done"]
    /\ jobId' = n /\ interval' = n
    /\ polls' = polls \cup {<<n, "sent">>}
    /\ strays' = {} /\ overtaken' = {}
    /\ UNCHANGED <<appState, cancelInFlight, ends, download, cancel, backend, displaced>>

(* setJobId: the hook's effect clears the old interval and the state,      *)
(* polls at once and starts an interval.                                   *)
SubmitAnswer(n) ==
    /\ submit[n] = "accepted"
    /\ submit' = [submit EXCEPT ![n] = "done"]
    /\ jobId' = n /\ interval' = n
    /\ ends' = {} /\ download' = NoJob
    /\ polls' = polls \cup {<<n, "sent">>}
    /\ strays' = {} /\ overtaken' = {}
    /\ UNCHANGED <<appState, cancelInFlight, cancel, backend, displaced>>

(* The POST fails, or its answer is lost.                                  *)
SubmitFails(n) ==
    /\ submit[n] \in {"sent", "accepted"}
    /\ submit' = [submit EXCEPT ![n] = "failed"]
    /\ appState' = "idle"
    /\ displaced' = displaced \cup Away("idle", submit') \cup ({jobId} \ {NoJob})
    /\ UNCHANGED <<jobId, cancelInFlight, hook, polls, cancel, backend, mixed>>

(* handleCancel up to the POST, from the button of ProgressView.           *)
Cancel(n) ==
    /\ appState = "processing" /\ ends \cap {"error", "cancelled"} = {}
    /\ jobId = n /\ ~cancelInFlight
    /\ cancel[n] = "none"
    /\ cancelInFlight' = TRUE
    /\ cancel' = [cancel EXCEPT ![n] = "sent"]
    /\ UNCHANGED <<appState, jobId, hook, polls, submit, backend, history>>

CancelAnswer(n) ==
    /\ cancel[n] = "accepted"
    /\ cancel' = [cancel EXCEPT ![n] = "none"]
    /\ UNCHANGED <<page, hook, polls, submit, backend, history>>

(* A refusal, or a request that fails before or after it is served: the    *)
(* button is enabled again, whatever job the page shows by now.            *)
CancelFails(n) ==
    /\ cancel[n] # "none"
    /\ cancel' = [cancel EXCEPT ![n] = "none"]
    /\ cancelInFlight' = FALSE
    /\ UNCHANGED <<appState, jobId, hook, polls, submit, backend, history>>

(* Broken variant: the cancel button stays as it is.                       *)
Reset_KeepsCancel ==
    /\ appState = "completed" \/ ends \cap {"error", "cancelled"} # {}
    /\ appState' = "idle" /\ jobId' = NoJob
    /\ IF jobId = NoJob THEN UNCHANGED <<hook, mixed>>
       ELSE /\ ends' = {} /\ download' = NoJob /\ interval' = NoJob
            /\ strays' = {} /\ overtaken' = {}
    /\ displaced' = displaced \cup Away("idle", submit)
    /\ UNCHANGED <<cancelInFlight, polls, submit, cancel, backend>>

(* handleReset.  The hook's effect runs only when jobId changes.           *)
Reset ==
    /\ appState = "completed" \/ ends \cap {"error", "cancelled"} # {}
    /\ appState' = "idle" /\ jobId' = NoJob /\ cancelInFlight' = FALSE
    /\ IF jobId = NoJob THEN UNCHANGED <<hook, mixed>>
       ELSE /\ ends' = {} /\ download' = NoJob /\ interval' = NoJob
            /\ strays' = {} /\ overtaken' = {}
    /\ displaced' = displaced \cup Away("idle", submit)
    /\ UNCHANGED <<polls, submit, cancel, backend>>

-----------------------------------------------------------------------------
(* useJobPolling.                                                          *)

(* Broken variant: nothing is polled once the user asked to cancel.        *)
Tick_UntilCancel(n) ==
    /\ interval = n /\ ~cancelInFlight
    /\ Cardinality({p \in polls : p[1] = n}) < MaxPolls
    /\ polls' = polls \cup {<<n, "sent">>}
    /\ UNCHANGED <<page, hook, submit, cancel, backend, history>>

(* The interval fires.                                                     *)
Tick(n) ==
    /\ interval = n
    /\ Cardinality({p \in polls : p[1] = n}) < MaxPolls
    /\ polls' = polls \cup {<<n, "sent">>}
    /\ UNCHANGED <<page, hook, submit, cancel, backend, history>>

(* A request that fails, served or not, is ignored.                        *)
PollDropped(p) ==
    /\ p[2] # "sent"
    /\ polls' = polls \ {p}
    /\ UNCHANGED <<page, hook, submit, cancel, backend, history>>

(* Broken variant: an error is only logged.                                *)
Flags_NoError(s) == IF s \in {"running", "error"} THEN ends \ {"error"} ELSE ends \cup {s}

(* The flags after an answer; progress takes an error back.                *)
Flags(s) == IF s = "running" THEN ends \ {"error"} ELSE ends \cup {s}

(* An answer is applied to the state of whatever job is shown, and an end  *)
(* stops whatever interval runs.                                           *)
PollAnswer(p) ==
    LET n == p[1]
        s == p[2]
    IN
    /\ s # "sent"
    /\ polls' = polls \ {p}
    /\ ends' = Flags(s)
    /\ download' = IF s = "completed" THEN n ELSE download
    /\ interval' = IF s \in Ends THEN NoJob ELSE interval
    /\ appState' = Rendered(appState, ends')
    /\ strays' = IF s \in Ends /\ n # jobId THEN strays \cup {n} ELSE strays
    /\ overtaken' = IF s = "running" /\ "error" \in ends THEN overtaken \cup {n} ELSE overtaken
    /\ displaced' = displaced \cup Away(appState', submit)
    /\ UNCHANGED <<jobId, cancelInFlight, submit, cancel, backend>>

-----------------------------------------------------------------------------
(* The backend.                                                            *)

SubmitServed(n) ==
    /\ submit[n] = "sent"
    /\ submit' = [submit EXCEPT ![n] = "accepted"]
    /\ server' = [server EXCEPT ![n] = "running"]
    /\ UNCHANGED <<page, hook, polls, cancel, asked, history>>

PollServed(p) ==
    /\ p[2] = "sent"
    /\ polls' = (polls \ {p}) \cup {<<p[1], server[p[1]]>>}
    /\ UNCHANGED <<page, hook, submit, cancel, backend, history>>

CancelServed(n) ==
    /\ cancel[n] = "sent"
    /\ cancel' = [cancel EXCEPT ![n] = IF server[n] = "running" THEN "accepted" ELSE "refused"]
    /\ asked' = IF server[n] = "running" THEN asked \cup {n} ELSE asked
    /\ UNCHANGED <<page, hook, polls, submit, server, history>>

ServerEnds(n) ==
    /\ server[n] = "running"
    /\ \E e \in Ends :
        /\ e = "cancelled" => n \in asked
        /\ server' = [server EXCEPT ![n] = e]
    /\ UNCHANGED <<page, hook, polls, submit, cancel, asked, history>>

Next ==
    \/ Reset
    \/ \E n \in Submits :
        \/ Submit(n) \/ SubmitServed(n) \/ SubmitAnswer(n) \/ SubmitFails(n)
        \/ Cancel(n) \/ CancelServed(n) \/ CancelAnswer(n) \/ CancelFails(n)
        \/ Tick(n) \/ ServerEnds(n)
    \/ \E p \in polls : PollServed(p) \/ PollDropped(p) \/ PollAnswer(p)

Spec == Init /\ [][Next]_vars

(* The interval fires while it runs, the backend serves the polls, and not *)
(* every answer with an end is lost.                                       *)
FairSpec ==
    /\ Spec
    /\ WF_vars(\E n \in Submits : Tick(n))
    /\ WF_vars(\E p \in polls : PollServed(p))
    /\ SF_vars(\E p \in polls : p[2] \in Ends /\ PollAnswer(p))

-----------------------------------------------------------------------------
(* Properties.                                                             *)

(* Each end on the page is the end of the job it follows or of a job whose *)
(* poll was answered on that page: never one of a page before, and none    *)
(* that no job had.                                                        *)
EndIsOwn ==
    \A e \in ends : \E n \in strays \cup {jobId} : n # NoJob /\ server[n] = e

(* Polling stops only when an end is on the page, the job's own or one of  *)
(* an earlier job, unless an answer sent before took the error off it      *)
(* again: then the page shows progress for ever.                           *)
StoppedMeansShown ==
    (jobId # NoJob /\ interval = NoJob) => ends # {} \/ overtaken # {}

(* A job with no end on the page is shown with its progress and its cancel *)
(* button, unless it lost the page: when it was submitted from a page that *)
(* held a completed job, when a late answer or a reset took the page while *)
(* its POST was under way, or when the POST of another failed beside it.   *)
ProgressIsVisible ==
    (jobId # NoJob /\ ends = {} /\ jobId \notin displaced) => appState = "processing"

(* "Disables the cancel button while the POST is on the wire": a button    *)
(* disabled means that a job was asked to stop, or is being asked: the job *)
(* shown, or else that job or the one shown is one that lost the page.     *)
GreyMeansAsked ==
    cancelInFlight =>
        \E m \in Submits :
            /\ m \in asked \/ cancel[m] # "none"
            /\ m = jobId \/ {m, jobId} \cap displaced # {}

(* "polling continues to drive the UI to the terminal state": the end of   *)
(* the job the page follows is shown, unless the end of another job is, or *)
(* an answer sent before took an error off the page.                       *)
PageSettles ==
    \A n \in Submits :
        (jobId = n /\ server[n] \in Ends)
            ~> (jobId # n \/ server[n] \in ends \/ strays # {} \/ overtaken # {})
=============================================================================
