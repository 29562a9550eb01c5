----------------------------- MODULE ServiceWorker -----------------------------
(***************************************************************************)
(* The extension's background worker (frontend/chrome-extension/background/*)
(* service-worker.ts): its table of jobs by URL, their poll timers, the    *)
(* copy in chrome.storage.local, and the messages START_CONVERSION and     *)
(* CANCEL_CONVERSION.  The browser may kill the worker between any two     *)
(* steps and starts it again for the next event.                           *)
(*                                                                         *)
(* A step is what runs between two awaits.  chrome.storage.local answers   *)
(* in the order of the calls, so that a table persisted later is written   *)
(* later, and the reads of START_CONVERSION come after that of the         *)
(* restore.  Polls of one job may overlap.  The backend is the             *)
(* environment: each of its jobs ends once.                                *)
(***************************************************************************)
EXTENDS Naturals, Sequences

CONSTANTS
    Urls,       \* arXiv URLs, the keys of activeJobs
    Starts,     \* START_CONVERSION messages; also the id of the job each leads to
    NoJob,      \* no entry under a URL
    Unwanted,   \* bound: the jobs users try to cancel
    MaxKills    \* bound on kills of the worker

ASSUME WorkerConstants ==
    /\ Unwanted \subseteq Starts
    /\ MaxKills \in Nat

Terminal == {"complete", "error", "cancelled"}
Entries ==
    [job : Starts, status : {"processing"} \cup Terminal, cancelRequested : BOOLEAN]
Tables == [Urls -> Entries \cup {NoJob}]

(* A call of chrome.storage.local.set, on behalf of a handler.             *)
Owners == {"start", "poll", "cancel", "rollback"} \X Starts
WriteCalls == [owner : Owners, table : Tables]

ASSUME NoEntry == NoJob \notin Entries

(* What the backend's terminal statuses are called in the table.           *)
EntryStatus == [s \in {"completed", "error", "cancelled"} |->
                    IF s = "completed" THEN "complete" ELSE s]

VARIABLES
    urlOf,      \* input: the URL of each START_CONVERSION
    awake,      \* the worker runs
    restored,   \* restorePromise is resolved
    activeJobs, \* the table in memory
    timers,     \* jobs with an interval in pollingIntervals
    polls,      \* polls under way, <<job, "sent" or the end it was answered>>
    stored,     \* the table in chrome.storage.local
    writes,     \* calls of chrome.storage.local.set not yet done
    start,      \* the handler of each START_CONVERSION
    cancel,     \* the handler of CANCEL_CONVERSION of each job
    server,     \* the job at the backend
    asked,      \* jobs whose cancellation is on record at the backend
    kills,      \* kills so far
    placed      \* history: jobs in the order they were put in the table

workerVars == <<awake, restored, kills>>
tableVars == <<activeJobs, writes, stored, placed>>
pollVars == <<timers, polls>>
handlerVars == <<start, cancel>>
backendVars == <<server, asked>>
vars == <<urlOf, workerVars, tableVars, pollVars, handlerVars, backendVars>>

TypeOK ==
    /\ urlOf \in [Starts -> Urls]
    /\ awake \in BOOLEAN /\ restored \in BOOLEAN
    /\ activeJobs \in Tables /\ stored \in Tables
    /\ timers \subseteq Starts /\ asked \subseteq Starts
    /\ polls \subseteq Starts \X ({"sent"} \cup DOMAIN EntryStatus)
    /\ writes \in Seq(WriteCalls)
    /\ start \in [Starts -> {"new", "request", "persist", "answered", "failed", "killed"}]
    /\ cancel \in [Starts -> {"idle", "persist", "request", "accepted", "refused"}]
    /\ server \in [Starts -> {"none", "running"} \cup DOMAIN EntryStatus]
    /\ kills \in Nat
    /\ placed \in Seq(Starts)

Init ==
    /\ urlOf \in [Starts -> Urls]
    /\ awake = FALSE /\ restored = FALSE
    /\ activeJobs = [u \in Urls |-> NoJob] /\ stored = [u \in Urls |-> NoJob]
    /\ timers = {} /\ asked = {}
    /\ polls = {}
    /\ writes = <<>>
    /\ start = [n \in Starts |-> "new"]
    /\ cancel = [n \in Starts |-> "idle"]
    /\ server = [n \in Starts |-> "none"]
    /\ kills = 0
    /\ placed = <<>>

-----------------------------------------------------------------------------
(* Helpers.                                                                *)

(* The entry under the URL of n is that of job n.                          *)
Tracked(table, n) == table[urlOf[n]] # NoJob /\ table[urlOf[n]].job = n

(* persistActiveJobs: the whole table, on behalf of a handler that awaits  *)
(* it.                                                                     *)
Persist(owner, table) == writes' = Append(writes, [owner |-> owner, table |-> table])

Awaiting(owner) == \E i \in 1 .. Len(writes) : writes[i].owner = owner

(* The jobs a table shows as processing.                                   *)
Processing(table) ==
    {n \in Starts : Tracked(table, n) /\ table[urlOf[n]].status = "processing"}

-----------------------------------------------------------------------------
(* Life of the worker.                                                     *)

Wake ==
    /\ ~awake
    /\ awake' = TRUE
    /\ UNCHANGED <<urlOf, tableVars, pollVars, handlerVars,
                   backendVars, restored, kills>>

(* The process is gone, with its table, its timers and its handlers; the   *)
(* calls of set that have reached the browser are still carried out.       *)
Kill ==
    /\ awake /\ kills < MaxKills
    /\ kills' = kills + 1
    /\ awake' = FALSE /\ restored' = FALSE
    /\ activeJobs' = [u \in Urls |-> NoJob]
    /\ timers' = {}
    /\ polls' = {}
    /\ \E k \in 0 .. Len(writes) : stored' = IF k = 0 THEN stored ELSE writes[k].table
    /\ writes' = <<>>
    /\ start' = [n \in Starts |->
                    IF start[n] \in {"request", "persist"} THEN "killed" ELSE start[n]]
    /\ cancel' = [n \in Starts |-> "idle"]
    /\ UNCHANGED <<urlOf, backendVars, placed>>

(* Broken variants: the stored table is ignored; polls are not resumed.    *)
Restore_Empty ==
    /\ awake /\ ~restored
    /\ restored' = TRUE
    /\ UNCHANGED <<urlOf, tableVars, pollVars, handlerVars,
                   backendVars, awake, kills>>

Restore_NoPolls ==
    /\ awake /\ ~restored
    /\ restored' = TRUE
    /\ activeJobs' = [u \in Urls |-> IF stored[u] # NoJob THEN stored[u] ELSE activeJobs[u]]
    /\ UNCHANGED <<urlOf, pollVars, handlerVars, backendVars, awake,
                   stored, writes, kills, placed>>

(* restoreActiveJobs, and the first poll of each job still processing.     *)
Restore ==
    /\ awake /\ ~restored
    /\ restored' = TRUE
    /\ activeJobs' = [u \in Urls |-> IF stored[u] # NoJob THEN stored[u] ELSE activeJobs[u]]
    /\ timers' = timers \cup Processing(activeJobs')
    /\ polls' = polls \cup (Processing(activeJobs') \X {"sent"})
    /\ UNCHANGED <<urlOf, handlerVars, backendVars, awake, stored,
                   writes, kills, placed>>

(* chrome.storage.local carries out a set.                                 *)
WriteDone ==
    /\ writes # <<>>
    /\ stored' = Head(writes).table
    /\ writes' = Tail(writes)
    /\ UNCHANGED <<urlOf, workerVars, pollVars, handlerVars,
                   backendVars, activeJobs, placed>>

-----------------------------------------------------------------------------
(* The backend, and the requests that reach it.                            *)

ServerAccepts(n) ==
    /\ start[n] = "request" /\ server[n] = "none"
    /\ server' = [server EXCEPT ![n] = "running"]
    /\ UNCHANGED <<urlOf, workerVars, tableVars, pollVars, handlerVars, asked>>

ServerEnds(n) ==
    /\ server[n] = "running"
    /\ \E s \in DOMAIN EntryStatus :
          /\ s = "cancelled" => n \in asked
          /\ server' = [server EXCEPT ![n] = s]
    /\ UNCHANGED <<urlOf, workerVars, tableVars, pollVars, handlerVars, asked>>

PollServed(n) ==
    /\ <<n, "sent">> \in polls /\ server[n] \in DOMAIN EntryStatus
    /\ polls' = (polls \ {<<n, "sent">>}) \cup {<<n, server[n]>>}
    /\ UNCHANGED <<urlOf, workerVars, tableVars, handlerVars,
                   backendVars, timers>>

(* 200 with the request on record, or 409 for a job that has ended.        *)
CancelServed(n) ==
    /\ cancel[n] = "request"
    /\ IF server[n] = "running"
       THEN asked' = asked \cup {n} /\ cancel' = [cancel EXCEPT ![n] = "accepted"]
       ELSE cancel' = [cancel EXCEPT ![n] = "refused"] /\ UNCHANGED asked
    /\ UNCHANGED <<urlOf, workerVars, tableVars, pollVars, start, server>>

-----------------------------------------------------------------------------
(* START_CONVERSION: startConversion.                                      *)

StartRequest(n) ==
    /\ awake /\ restored /\ start[n] = "new"
    /\ start' = [start EXCEPT ![n] = "request"]
    /\ UNCHANGED <<urlOf, workerVars, tableVars, pollVars,
                   backendVars, cancel>>

(* The answer of /convert: the entry replaces an earlier one of the URL,   *)
(* whose polling stops.                                                    *)
StartAnswer(n) ==
    /\ start[n] = "request" /\ server[n] # "none"
    /\ start' = [start EXCEPT ![n] = "persist"]
    /\ timers' = timers \ {m \in Starts : urlOf[m] = urlOf[n] /\ Tracked(activeJobs, m)}
    /\ activeJobs' = [activeJobs EXCEPT ![urlOf[n]] =
                         [job |-> n, status |-> "processing", cancelRequested |-> FALSE]]
    /\ Persist(<<"start", n>>, activeJobs')
    /\ placed' = Append(placed, n)
    /\ UNCHANGED <<urlOf, workerVars, backendVars, polls, stored, cancel>>

(* No API key, a network error or an error status, whatever /convert did.  *)
StartFails(n) ==
    /\ start[n] = "request"
    /\ start' = [start EXCEPT ![n] = "failed"]
    /\ UNCHANGED <<urlOf, workerVars, tableVars, pollVars,
                   backendVars, cancel>>

(* Broken variant: the write of the table is not awaited.                  *)
StartDone_NotAwaited(n) ==
    /\ start[n] = "persist"
    /\ start' = [start EXCEPT ![n] = "answered"]
    /\ IF Tracked(activeJobs, n)
       THEN timers' = timers \cup {n} /\ polls' = polls \cup {<<n, "sent">>}
       ELSE UNCHANGED <<timers, polls>>
    /\ UNCHANGED <<urlOf, workerVars, tableVars, backendVars, cancel>>

(* The table is written: startPolling, whose first poll takes the timer    *)
(* back at once when the entry has been replaced, and the client's answer. *)
StartDone(n) ==
    /\ start[n] = "persist" /\ ~Awaiting(<<"start", n>>)
    /\ start' = [start EXCEPT ![n] = "answered"]
    /\ IF Tracked(activeJobs, n)
       THEN timers' = timers \cup {n} /\ polls' = polls \cup {<<n, "sent">>}
       ELSE UNCHANGED <<timers, polls>>
    /\ UNCHANGED <<urlOf, workerVars, tableVars, backendVars, cancel>>

-----------------------------------------------------------------------------
(* Polling: startPolling's interval and pollJobStatus.                     *)

Tick(n) ==
    /\ n \in timers
    /\ IF Tracked(activeJobs, n)
       THEN polls' = polls \cup {<<n, "sent">>} /\ UNCHANGED timers
       ELSE timers' = timers \ {n} /\ UNCHANGED polls
    /\ UNCHANGED <<urlOf, workerVars, tableVars, handlerVars, backendVars>>

(* A network error, or an answer that changes nothing here: the job still  *)
(* ran, or its entry was replaced during the poll.                         *)
PollDropped(n, s) ==
    /\ <<n, s>> \in polls
    /\ polls' = polls \ {<<n, s>>}
    /\ UNCHANGED <<urlOf, workerVars, tableVars, handlerVars,
                   backendVars, timers>>

(* Broken variants of the next action: the entry is not looked at again    *)
(* after the await; the interval is left.                                  *)
PollAnswer_NoRecheck(n, s) ==
    /\ <<n, s>> \in polls /\ s \in DOMAIN EntryStatus
    /\ polls' = polls \ {<<n, s>>}
    /\ timers' = timers \ {n}
    /\ activeJobs' = [activeJobs EXCEPT ![urlOf[n]] = [@ EXCEPT !.status = EntryStatus[s]]]
    /\ Persist(<<"poll", n>>, activeJobs')
    /\ UNCHANGED <<urlOf, workerVars, handlerVars, backendVars,
                   stored, placed>>

PollAnswer_LeavesTimer(n, s) ==
    /\ <<n, s>> \in polls /\ s \in DOMAIN EntryStatus /\ Tracked(activeJobs, n)
    /\ polls' = polls \ {<<n, s>>}
    /\ activeJobs' = [activeJobs EXCEPT ![urlOf[n]] = [@ EXCEPT !.status = EntryStatus[s]]]
    /\ Persist(<<"poll", n>>, activeJobs')
    /\ UNCHANGED <<urlOf, workerVars, handlerVars, backendVars,
                   timers, stored, placed>>

(* The job has ended and still holds its URL.                              *)
PollAnswer(n, s) ==
    /\ <<n, s>> \in polls /\ s \in DOMAIN EntryStatus /\ Tracked(activeJobs, n)
    /\ polls' = polls \ {<<n, s>>}
    /\ timers' = timers \ {n}
    /\ activeJobs' = [activeJobs EXCEPT ![urlOf[n]] =
            [job |-> n, status |-> EntryStatus[s],
             cancelRequested |-> IF s = "cancelled" THEN FALSE ELSE @.cancelRequested]]
    /\ Persist(<<"poll", n>>, activeJobs')
    /\ UNCHANGED <<urlOf, workerVars, handlerVars, backendVars,
                   stored, placed>>

-----------------------------------------------------------------------------
(* CANCEL_CONVERSION: cancelConversion.  One at a time for each job: the   *)
(* popup greys its button out.                                             *)

CancelMessage(n) ==
    /\ cancel[n] = "idle" /\ n \in Unwanted \cap Processing(activeJobs)
    /\ cancel' = [cancel EXCEPT ![n] = "persist"]
    /\ activeJobs' = [activeJobs EXCEPT ![urlOf[n]] = [@ EXCEPT !.cancelRequested = TRUE]]
    /\ Persist(<<"cancel", n>>, activeJobs')
    /\ UNCHANGED <<urlOf, workerVars, pollVars, backendVars,
                   stored, start, placed>>

CancelRequest(n) ==
    /\ cancel[n] = "persist" /\ ~Awaiting(<<"cancel", n>>)
    /\ cancel' = [cancel EXCEPT ![n] = "request"]
    /\ UNCHANGED <<urlOf, workerVars, tableVars, pollVars, backendVars, start>>

CancelAnswer(n) ==
    /\ cancel[n] = "accepted"
    /\ cancel' = [cancel EXCEPT ![n] = "idle"]
    /\ UNCHANGED <<urlOf, workerVars, tableVars, pollVars, backendVars, start>>

(* Broken variant: after a network error the flag stays.                   *)
CancelRollback_RefusedOnly(n) ==
    /\ cancel[n] \in {"request", "accepted", "refused"}
    /\ cancel' = [cancel EXCEPT ![n] = "idle"]
    /\ activeJobs' = IF Tracked(activeJobs, n) /\ cancel[n] = "refused"
                     THEN [activeJobs EXCEPT ![urlOf[n]] = [@ EXCEPT !.cancelRequested = FALSE]]
                     ELSE activeJobs
    /\ Persist(<<"rollback", n>>, activeJobs')
    /\ UNCHANGED <<urlOf, workerVars, pollVars, backendVars,
                   stored, start, placed>>

(* 409, an error status, or a network error before or after the backend    *)
(* has acted: the flag is taken back.  An entry that has been replaced is  *)
(* out of the table, so that only the write is left.                       *)
CancelRollback(n) ==
    /\ cancel[n] \in {"request", "accepted", "refused"}
    /\ cancel' = [cancel EXCEPT ![n] = "idle"]
    /\ activeJobs' = IF Tracked(activeJobs, n)
                     THEN [activeJobs EXCEPT ![urlOf[n]] = [@ EXCEPT !.cancelRequested = FALSE]]
                     ELSE activeJobs
    /\ Persist(<<"rollback", n>>, activeJobs')
    /\ UNCHANGED <<urlOf, workerVars, pollVars, backendVars,
                   stored, start, placed>>

-----------------------------------------------------------------------------
(* Specification.                                                          *)

Backend ==
    \E n \in Starts : ServerAccepts(n) \/ ServerEnds(n) \/ PollServed(n) \/ CancelServed(n)

Conversions ==
    \E n \in Starts : StartRequest(n) \/ StartAnswer(n) \/ StartFails(n) \/ StartDone(n)

Polling ==
    \E n \in Starts :
        \/ Tick(n)
        \/ \E s \in {"sent"} \cup DOMAIN EntryStatus :
              PollDropped(n, s) \/ PollAnswer(n, s)

Cancels ==
    \E n \in Starts :
        \/ CancelMessage(n) \/ CancelRequest(n) \/ CancelAnswer(n) \/ CancelRollback(n)

Next ==
    \/ Wake \/ Kill \/ Restore \/ WriteDone
    \/ Backend \/ Conversions \/ Polling \/ Cancels

Spec == Init /\ [][Next]_vars

(* The browser starts the worker again, since the user opens the popup at  *)
(* some time; storage and timers work; a backend job ends; and not every   *)
(* poll of a job fails.                                                    *)
Fairness ==
    /\ WF_vars(Wake) /\ WF_vars(Restore) /\ WF_vars(WriteDone)
    /\ \A n \in Starts :
          /\ WF_vars(StartDone(n)) /\ WF_vars(Tick(n)) /\ WF_vars(ServerEnds(n))
          /\ SF_vars(PollServed(n))
          /\ SF_vars(\E s \in DOMAIN EntryStatus : PollAnswer(n, s))

FairSpec == Spec /\ Fairness

-----------------------------------------------------------------------------
(* Properties.                                                             *)

(* m was put in the table after n.                                         *)
PlacedAfter(m, n) ==
    \E i, k \in 1 .. Len(placed) : placed[i] = n /\ placed[k] = m /\ i < k

(* A conversion answered with success is in storage, or one started after  *)
(* it for the same URL is: a kill of the worker cannot lose it             *)
(* (startConversion awaits persistActiveJobs before it answers).           *)
StartedIsDurable ==
    \A n \in Starts : start[n] = "answered" =>
        /\ stored[urlOf[n]] # NoJob
        /\ stored[urlOf[n]].job = n \/ PlacedAfter(stored[urlOf[n]].job, n)

(* Storage never loses an entry, never brings back a replaced job and      *)
(* never takes a finished job back to processing, although every write     *)
(* replaces the whole table and writers, kills and restores interleave.    *)
TableNeverForgets ==
    [][\A u \in Urls : stored[u] # NoJob =>
          /\ stored'[u] # NoJob
          /\ \/ /\ stored'[u].job = stored[u].job
                /\ stored[u].status \in Terminal => stored'[u].status = stored[u].status
             \/ PlacedAfter(stored'[u].job, stored[u].job)]_stored

(* An interval runs for exactly the jobs still processing, replaced and    *)
(* restored ones included: none is left behind, none goes unwatched.  The  *)
(* job whose start is still being written has none yet.                    *)
PolledIffProcessing ==
    restored => timers = {n \in Processing(activeJobs) : start[n] # "persist"}

(* What the table, in memory and in storage, calls ended has ended that    *)
(* way at the backend: no late answer of another job of the URL is shown   *)
(* as this one's.                                                          *)
TableIsTrue ==
    \A n \in Starts : \A table \in {activeJobs, stored} :
        (Tracked(table, n) /\ table[urlOf[n]].status \in Terminal) =>
            /\ server[n] \in DOMAIN EntryStatus
            /\ EntryStatus[server[n]] = table[urlOf[n]].status

(* A job in storage does not stay processing for ever, however often the   *)
(* worker is killed.                                                       *)
TrackedSettles ==
    \A n \in Starts : (n \in Processing(stored)) ~> (n \notin Processing(stored))

(* "True between the moment the user clicks cancel and the moment the      *)
(* backend acknowledges", while "the request is in flight" (JobState): a   *)
(* job processing with the flag has a cancellation on its way or on        *)
(* record, until a kill of the worker takes the request and leaves the     *)
(* flag in storage.                                                        *)
CancelFlagIsHonest ==
    kills = 0 =>
        \A n \in Processing(activeJobs) :
            activeJobs[urlOf[n]].cancelRequested => cancel[n] # "idle" \/ n \in asked
=============================================================================
