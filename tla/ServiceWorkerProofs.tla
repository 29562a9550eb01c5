-------------------------- MODULE ServiceWorkerProofs --------------------------
(***************************************************************************)
(* The extension's worker, for any number of conversions, URLs, overlapping*)
(* polls, cancels and kills.                                               *)
(***************************************************************************)
EXTENDS ServiceWorker, TLAPS

(* Steps that leave the tables, the intervals and the history alone.       *)
Quiet ==
    \/ Wake
    \/ \E n \in Starts :
          \/ ServerAccepts(n) \/ ServerEnds(n) \/ PollServed(n) \/ CancelServed(n)
          \/ StartRequest(n) \/ StartFails(n) \/ CancelRequest(n) \/ CancelAnswer(n)
          \/ \E s \in {"sent"} \cup DOMAIN EntryStatus : PollDropped(n, s)
    \/ UNCHANGED vars

LEMMA PersistType ==
    ASSUME TypeOK, NEW o \in Owners, NEW t \in Tables, Persist(o, t)
    PROVE  writes' \in Seq(WriteCalls)
<1>1. [owner |-> o, table |-> t] \in WriteCalls
  BY DEF WriteCalls
<1> QED BY <1>1 DEF Persist, TypeOK

LEMMA WriteType ==
    ASSUME TypeOK, NEW i \in 1 .. Len(writes)
    PROVE  writes[i] \in WriteCalls /\ writes[i].table \in Tables
<1>1. writes \in Seq(WriteCalls)
  BY DEF TypeOK
<1>2. writes[i] \in WriteCalls
  BY <1>1
<1> QED BY <1>2 DEF WriteCalls

LEMMA EntryType ==
    ASSUME TypeOK, NEW t \in Tables, NEW n \in Starts, Tracked(t, n)
    PROVE  t[urlOf[n]] \in Entries
BY DEF Tracked, TypeOK, Tables

LEMMA PutType ==
    ASSUME NEW t \in Tables, NEW u \in Urls, NEW e \in Entries
    PROVE  [t EXCEPT ![u] = e] \in Tables
BY DEF Tables

LEMMA TypeStep == TypeOK /\ [Next]_vars => TypeOK'
<1> SUFFICES ASSUME TypeOK, [Next]_vars PROVE TypeOK'
  OBVIOUS
<1> USE NoEntry DEF TypeOK
<1>1. CASE Quiet
  <2> USE DEF workerVars, tableVars, pollVars, handlerVars, backendVars
  <2>1. CASE Wake \/ UNCHANGED vars
    BY <2>1 DEF Wake, vars
  <2>2. ASSUME NEW n \in Starts, ServerAccepts(n) \/ ServerEnds(n) \/ CancelServed(n)
        PROVE  TypeOK'
    BY <2>2 DEF ServerAccepts, ServerEnds, CancelServed
  <2>3. ASSUME NEW n \in Starts, NEW s \in {"sent"} \cup DOMAIN EntryStatus,
               PollServed(n) \/ PollDropped(n, s)
        PROVE  TypeOK'
    BY <2>3 DEF PollServed, PollDropped
  <2>4. ASSUME NEW n \in Starts,
               StartRequest(n) \/ StartFails(n) \/ CancelRequest(n) \/ CancelAnswer(n)
        PROVE  TypeOK'
    BY <2>4 DEF StartRequest, StartFails, CancelRequest, CancelAnswer
  <2> QED BY <1>1, <2>1, <2>2, <2>3, <2>4 DEF Quiet
<1>2. CASE Kill
  <2>1. stored' \in Tables
    BY <1>2, WriteType DEF Kill
  <2>2. writes' \in Seq(WriteCalls) /\ activeJobs' \in Tables
    BY <1>2 DEF Kill, Tables
  <2>3. /\ UNCHANGED <<urlOf, server, asked, placed>>
        /\ timers' = {} /\ polls' = {}
    BY <1>2 DEF Kill, backendVars
  <2>5. awake' \in BOOLEAN /\ restored' \in BOOLEAN
    BY <1>2 DEF Kill
  <2>6. kills' \in Nat
    BY <1>2 DEF Kill
  <2>4. /\ start' \in [Starts -> {"new", "request", "persist", "answered", "failed", "killed"}]
        /\ cancel' \in [Starts -> {"idle", "persist", "request", "accepted", "refused"}]
    BY <1>2 DEF Kill
  <2> QED BY <2>1, <2>2, <2>3, <2>4, <2>5, <2>6
<1>3. CASE Restore
  BY <1>3 DEF Restore, Tables, Processing, Tracked, handlerVars, backendVars
<1>4. CASE WriteDone
  <2>1. stored' \in Tables /\ writes' \in Seq(WriteCalls)
    BY <1>4, WriteType DEF WriteDone
  <2> QED BY <1>4, <2>1 DEF WriteDone, workerVars, pollVars, handlerVars, backendVars
<1>5. ASSUME NEW n \in Starts, StartAnswer(n) PROVE TypeOK'
  <2>1. activeJobs' \in Tables
    BY <1>5 DEF StartAnswer, Tables, Entries
  <2>2. writes' \in Seq(WriteCalls)
    <3>1. <<"start", n>> \in Owners
      BY DEF Owners
    <3> QED BY <1>5, <2>1, <3>1, PersistType DEF StartAnswer
  <2> QED BY <1>5, <2>1, <2>2 DEF StartAnswer, workerVars, backendVars
<1>6. ASSUME NEW n \in Starts, StartDone(n) PROVE TypeOK'
  BY <1>6 DEF StartDone, workerVars, tableVars, backendVars
<1>7. ASSUME NEW n \in Starts, Tick(n) PROVE TypeOK'
  BY <1>7 DEF Tick, workerVars, tableVars, handlerVars, backendVars
<1>8. ASSUME NEW n \in Starts, NEW s \in {"sent"} \cup DOMAIN EntryStatus, PollAnswer(n, s)
      PROVE TypeOK'
  <2>1. activeJobs' \in Tables
    <3> DEFINE e == [job |-> n, status |-> EntryStatus[s],
                     cancelRequested |-> IF s = "cancelled" THEN FALSE
                                         ELSE activeJobs[urlOf[n]].cancelRequested]
    <3>1. e \in Entries
      <4>1. activeJobs[urlOf[n]].cancelRequested \in BOOLEAN
        BY <1>8, EntryType DEF PollAnswer, Entries
      <4>2. EntryStatus[s] \in Terminal
        BY <1>8 DEF PollAnswer, EntryStatus, Terminal
      <4> QED BY <4>1, <4>2 DEF Entries
    <3>2. activeJobs' = [activeJobs EXCEPT ![urlOf[n]] = e]
      BY <1>8 DEF PollAnswer, Tables
    <3> QED BY <3>1, <3>2, PutType
  <2>2. writes' \in Seq(WriteCalls)
    <3>1. <<"poll", n>> \in Owners
      BY DEF Owners
    <3> QED BY <1>8, <2>1, <3>1, PersistType DEF PollAnswer
  <2> QED BY <1>8, <2>1, <2>2 DEF PollAnswer, workerVars, handlerVars, backendVars
<1>9. ASSUME NEW n \in Starts, CancelMessage(n) PROVE TypeOK'
  <2>1. activeJobs' \in Tables
    <3> DEFINE e == [activeJobs[urlOf[n]] EXCEPT !.cancelRequested = TRUE]
    <3>1. e \in Entries
      BY <1>9, EntryType DEF CancelMessage, Entries, Processing
    <3>2. activeJobs' = [activeJobs EXCEPT ![urlOf[n]] = e]
      BY <1>9 DEF CancelMessage, Tables
    <3> QED BY <3>1, <3>2, PutType
  <2>2. writes' \in Seq(WriteCalls)
    <3>1. <<"cancel", n>> \in Owners
      BY DEF Owners
    <3> QED BY <1>9, <2>1, <3>1, PersistType DEF CancelMessage
  <2> QED BY <1>9, <2>1, <2>2 DEF CancelMessage, workerVars, pollVars, backendVars
<1>10. ASSUME NEW n \in Starts, CancelRollback(n) PROVE TypeOK'
  <2>1. activeJobs' \in Tables
    <3> DEFINE e == [activeJobs[urlOf[n]] EXCEPT !.cancelRequested = FALSE]
    <3>1. CASE Tracked(activeJobs, n)
      <4>1. e \in Entries
        BY <3>1, EntryType DEF Entries
      <4>2. activeJobs' = [activeJobs EXCEPT ![urlOf[n]] = e]
        BY <1>10, <3>1 DEF CancelRollback, Tables
      <4> QED BY <4>1, <4>2, PutType
    <3> QED BY <1>10, <3>1 DEF CancelRollback
  <2>2. writes' \in Seq(WriteCalls)
    <3>1. <<"rollback", n>> \in Owners
      BY DEF Owners
    <3> QED BY <1>10, <2>1, <3>1, PersistType DEF CancelRollback
  <2> QED BY <1>10, <2>1, <2>2 DEF CancelRollback, workerVars, pollVars, backendVars
<1> QED
  BY <1>1, <1>2, <1>3, <1>4, <1>5, <1>6, <1>7, <1>8, <1>9, <1>10
  DEF Next, Quiet, Backend, Conversions, Polling, Cancels

LEMMA TypeInit == Init => TypeOK
<1> SUFFICES ASSUME Init PROVE TypeOK
  OBVIOUS
<1>1. activeJobs \in Tables /\ stored \in Tables
  BY DEF Init, Tables
<1>2. awake \in BOOLEAN /\ restored \in BOOLEAN
  BY DEF Init
<1>3. writes \in Seq(WriteCalls) /\ placed \in Seq(Starts) /\ kills \in Nat
  BY DEF Init
<1>4. /\ urlOf \in [Starts -> Urls] /\ timers = {} /\ asked = {} /\ polls = {}
      /\ start \in [Starts -> {"new"}] /\ cancel \in [Starts -> {"idle"}]
      /\ server \in [Starts -> {"none"}]
  BY DEF Init
<1> QED BY <1>1, <1>2, <1>3, <1>4 DEF TypeOK

(* The tables, timers, polls and handlers always have their types: no      *)
(* backend status and no foreign record gets into the table.               *)
THEOREM TypeCorrect == Spec => []TypeOK
BY TypeInit, TypeStep, PTL DEF Spec

-----------------------------------------------------------------------------
(* What a step does to the backend's jobs, the URLs and the history.       *)

Ends == DOMAIN EntryStatus
Placed == {placed[i] : i \in 1 .. Len(placed)}

LEMMA PlacedAppend ==
    ASSUME placed \in Seq(Starts), NEW n \in Starts, placed' = Append(placed, n)
    PROVE  Placed' = Placed \cup {n}
<1>1. Len(placed') = Len(placed) + 1 /\ Len(placed) \in Nat
  OBVIOUS
<1>2. \A i \in 1 .. Len(placed') :
         placed'[i] = IF i <= Len(placed) THEN placed[i] ELSE n
  OBVIOUS
<1>3. ASSUME NEW x \in Placed' PROVE x \in Placed \cup {n}
  BY <1>1, <1>2, <1>3 DEF Placed
<1>4. ASSUME NEW x \in Placed PROVE x \in Placed'
  <2>1. PICK i \in 1 .. Len(placed) : placed[i] = x
    BY <1>4 DEF Placed
  <2>2. i \in 1 .. Len(placed') /\ placed'[i] = x
    BY <2>1, <1>1, <1>2
  <2> QED BY <2>2 DEF Placed
<1>5. n \in Placed'
  <2>1. Len(placed') \in 1 .. Len(placed') /\ placed'[Len(placed')] = n
    BY <1>1, <1>2
  <2> QED BY <2>1 DEF Placed
<1> QED BY <1>3, <1>4, <1>5

LEMMA Surroundings ==
    ASSUME TypeOK, [Next]_vars
    PROVE  /\ urlOf' = urlOf /\ Placed \subseteq Placed'
           /\ \A n \in Starts : server[n] \in Ends => server'[n] = server[n]
<1> USE DEF TypeOK, workerVars, tableVars, pollVars, handlerVars, backendVars
<1> DEFINE P == /\ urlOf' = urlOf /\ Placed \subseteq Placed'
                /\ \A n \in Starts : server[n] \in Ends => server'[n] = server[n]
<1>0. urlOf' = urlOf /\ placed' = placed /\ server' = server => P
  BY DEF Placed
<1>1. ASSUME NEW n \in Starts, ServerAccepts(n) \/ ServerEnds(n) PROVE P
  BY <1>1 DEF ServerAccepts, ServerEnds, Placed, Ends, EntryStatus
<1>2. ASSUME NEW n \in Starts, StartAnswer(n) PROVE P
  BY <1>2, PlacedAppend DEF StartAnswer
<1>3. CASE Wake \/ Kill \/ Restore \/ WriteDone \/ UNCHANGED vars
  <2>1. urlOf' = urlOf /\ placed' = placed /\ server' = server
    BY <1>3 DEF Wake, Kill, Restore, WriteDone, vars
  <2> QED BY <2>1, <1>0
<1>4. ASSUME NEW n \in Starts, NEW s \in {"sent"} \cup DOMAIN EntryStatus,
             \/ PollServed(n) \/ CancelServed(n) \/ StartRequest(n) \/ StartFails(n)
             \/ StartDone(n) \/ Tick(n) \/ PollDropped(n, s) \/ PollAnswer(n, s)
             \/ CancelMessage(n) \/ CancelRequest(n) \/ CancelAnswer(n) \/ CancelRollback(n)
      PROVE P
  BY <1>0, <1>4 DEF PollServed, CancelServed, StartRequest, StartFails, StartDone, Tick,
      PollDropped, PollAnswer, CancelMessage, CancelRequest, CancelAnswer, CancelRollback
<1> QED
  BY <1>1, <1>2, <1>3, <1>4 DEF Next, Backend, Conversions, Polling, Cancels

-----------------------------------------------------------------------------
(* What a table says fits the rest of the state: an entry is under the URL *)
(* of its job, that job was placed, and an end is the backend's.           *)

Honest(e, sv) ==
    e.status \in Terminal => sv[e.job] \in Ends /\ EntryStatus[sv[e.job]] = e.status

Fits(t, of, on, sv) ==
    \A u \in Urls : t[u] # NoJob =>
        of[t[u].job] = u /\ t[u].job \in on /\ Honest(t[u], sv)

LEMMA FitsLater ==
    ASSUME NEW t \in Tables, NEW of, NEW on, NEW sv, Fits(t, of, on, sv),
           NEW on2, on \subseteq on2,
           NEW sv2, \A n \in Starts : sv[n] \in Ends => sv2[n] = sv[n]
    PROVE  Fits(t, of, on2, sv2)
<1>1. ASSUME NEW u \in Urls, t[u] # NoJob PROVE t[u].job \in Starts
  BY <1>1 DEF Tables, Entries
<1> QED BY <1>1 DEF Fits, Honest

LEMMA FitsPut ==
    ASSUME NEW t \in Tables, NEW of, NEW on, NEW sv, Fits(t, of, on, sv),
           NEW u \in Urls, NEW e \in Entries, of[e.job] = u, e.job \in on, Honest(e, sv)
    PROVE  Fits([t EXCEPT ![u] = e], of, on, sv)
BY DEF Fits, Tables

(* Before its restore a worker has nothing and does nothing.               *)
Asleep ==
    ~restored =>
        /\ activeJobs = [u \in Urls |-> NoJob] /\ writes = <<>>
        /\ timers = {} /\ polls = {}
        /\ \A n \in Starts : start[n] \notin {"request", "persist"} /\ cancel[n] = "idle"

(* A job is placed by the answer to its start, and polled once that is     *)
(* written; an answered poll tells how the job ended.                      *)
InOrder ==
    /\ \A n \in Placed : start[n] \in {"persist", "answered", "killed"}
    /\ \A n \in Starts : start[n] \in {"persist", "answered"} => n \in Placed
    /\ \A n \in Starts, s \in {"sent"} \cup Ends : <<n, s>> \in polls =>
          /\ start[n] \in {"answered", "killed"}
          /\ s \in Ends => server[n] = s
    /\ \A n \in Starts : start[n] = "persist" /\ Tracked(activeJobs, n) =>
          activeJobs[urlOf[n]].status = "processing"

TablesFit ==
    /\ Fits(activeJobs, urlOf, Placed, server)
    /\ Fits(stored, urlOf, Placed, server)
    /\ \A i \in 1 .. Len(writes) : Fits(writes[i].table, urlOf, Placed, server)

WorkerInv == TypeOK /\ Asleep /\ InOrder /\ TablesFit /\ PolledIffProcessing

-----------------------------------------------------------------------------
(* The invariant, one conjunct at a time.                                  *)

LEMMA AsleepStep == TypeOK /\ Asleep /\ [Next]_vars => Asleep'
<1> SUFFICES ASSUME TypeOK, Asleep, [Next]_vars PROVE Asleep'
  OBVIOUS
<1> USE DEF TypeOK, Asleep, workerVars, tableVars, pollVars, handlerVars, backendVars
<1>1. CASE Wake \/ Kill \/ Restore \/ WriteDone \/ UNCHANGED vars
  <2>1. CASE Kill
    BY <2>1 DEF Kill
  <2>2. CASE Wake \/ UNCHANGED vars
    BY <2>2 DEF Wake, vars
  <2>3. CASE Restore
    BY <2>3 DEF Restore
  <2>4. CASE WriteDone
    BY <2>4 DEF WriteDone
  <2> QED BY <1>1, <2>1, <2>2, <2>3, <2>4
<1>2. ASSUME NEW n \in Starts,
             ServerAccepts(n) \/ ServerEnds(n) \/ PollServed(n) \/ CancelServed(n)
      PROVE  Asleep'
  BY <1>2 DEF ServerAccepts, ServerEnds, PollServed, CancelServed
<1>3. ASSUME NEW n \in Starts,
             StartRequest(n) \/ StartAnswer(n) \/ StartFails(n) \/ StartDone(n) \/ Tick(n)
      PROVE  Asleep'
  BY <1>3 DEF StartRequest, StartAnswer, StartFails, StartDone, Tick
<1>4. ASSUME NEW n \in Starts, NEW s \in {"sent"} \cup DOMAIN EntryStatus,
             PollDropped(n, s) \/ PollAnswer(n, s)
      PROVE  Asleep'
  BY <1>4 DEF PollDropped, PollAnswer
<1>5. ASSUME NEW n \in Starts,
             CancelMessage(n) \/ CancelRequest(n) \/ CancelAnswer(n) \/ CancelRollback(n)
      PROVE  Asleep'
  BY <1>5 DEF CancelMessage, Processing, Tracked, CancelRequest, CancelAnswer, CancelRollback
<1> QED
  BY <1>1, <1>2, <1>3, <1>4, <1>5 DEF Next, Backend, Conversions, Polling, Cancels

LEMMA InOrderStep ==
    WorkerInv /\ [Next]_vars => InOrder'
<1> SUFFICES ASSUME TypeOK, Asleep, InOrder, TablesFit, PolledIffProcessing, [Next]_vars
             PROVE  InOrder'
  BY DEF WorkerInv
<1> USE DEF TypeOK, workerVars, tableVars, pollVars, handlerVars, backendVars
<1>s. Placed \subseteq Starts /\ (placed' = placed => Placed' = Placed)
  BY DEF Placed
<1>1. ASSUME NEW n \in Starts, StartAnswer(n) PROVE InOrder'
  <2>1. Placed' = Placed \cup {n}
    BY <1>1, PlacedAppend DEF StartAnswer
  <2>2. n \notin Placed
    BY <1>1 DEF StartAnswer, InOrder
  <2>3. \A m \in Starts : m # n /\ Tracked(activeJobs, m)' => Tracked(activeJobs, m)
    BY <1>1 DEF StartAnswer, Tracked, Tables
  <2>4. activeJobs'[urlOf[n]].status = "processing"
    BY <1>1 DEF StartAnswer, Tables
  <2>5. \A m \in Starts : m # n /\ Tracked(activeJobs, m)' =>
            activeJobs'[urlOf[m]] = activeJobs[urlOf[m]]
    BY <1>1 DEF StartAnswer, Tracked, Tables
  <2>6. UNCHANGED <<urlOf, polls, server>> /\ start' = [start EXCEPT ![n] = "persist"]
        /\ start[n] = "request"
    BY <1>1 DEF StartAnswer
  <2>7. \A m \in Starts, s \in {"sent"} \cup Ends : <<m, s>> \in polls => m # n
    BY <2>6 DEF InOrder
  <2>8. /\ \A m \in Placed' : start'[m] \in {"persist", "answered", "killed"}
        /\ \A m \in Starts : start'[m] \in {"persist", "answered"} => m \in Placed'
    BY <1>s, <2>1, <2>6 DEF InOrder
  <2>9. \A m \in Starts, s \in {"sent"} \cup Ends : <<m, s>> \in polls' =>
           start'[m] \in {"answered", "killed"} /\ (s \in Ends => server'[m] = s)
    BY <2>6, <2>7 DEF InOrder
  <2>10. \A m \in Starts : start'[m] = "persist" /\ Tracked(activeJobs, m)' =>
            activeJobs'[urlOf'[m]].status = "processing"
    BY <2>3, <2>4, <2>5, <2>6 DEF InOrder
  <2> QED BY <2>8, <2>9, <2>10 DEF InOrder, Ends
<1>2. ASSUME NEW n \in Starts, StartDone(n) PROVE InOrder'
  BY <1>2, <1>s DEF StartDone, InOrder, Tracked, Ends, EntryStatus
<1>3. ASSUME NEW n \in Starts, NEW s \in {"sent"} \cup DOMAIN EntryStatus, PollAnswer(n, s)
      PROVE  InOrder'
  <2>1. start[n] # "persist"
    BY <1>3 DEF PollAnswer, InOrder, Ends
  <2>2. \A m \in Starts : m # n /\ Tracked(activeJobs, m)' =>
            Tracked(activeJobs, m) /\ activeJobs'[urlOf[m]] = activeJobs[urlOf[m]]
    BY <1>3 DEF PollAnswer, Tracked, Tables
  <2>3. UNCHANGED <<urlOf, start, server, placed>> /\ polls' \subseteq polls
    BY <1>3 DEF PollAnswer
  <2> QED BY <1>s, <2>1, <2>2, <2>3 DEF InOrder
<1>4. ASSUME NEW n \in Starts, CancelMessage(n) \/ CancelRollback(n) PROVE InOrder'
  <2>1. \A m \in Starts : Tracked(activeJobs, m)' =>
            /\ Tracked(activeJobs, m)
            /\ activeJobs'[urlOf[m]].status = activeJobs[urlOf[m]].status
    BY <1>4, NoEntry, EntryType
    DEF CancelMessage, CancelRollback, Processing, Tracked, Tables, Entries
  <2>2. UNCHANGED <<urlOf, start, server, placed, polls>>
    BY <1>4 DEF CancelMessage, CancelRollback
  <2> QED BY <1>s, <2>1, <2>2 DEF InOrder
<1>5. ASSUME NEW n \in Starts, Tick(n) PROVE InOrder'
  <2>1. start[n] # "persist"
    BY <1>5 DEF Tick, Asleep, PolledIffProcessing
  <2>2. CASE Tracked(activeJobs, n)
    <3>1. start[n] \in {"answered", "killed"}
      BY <2>1, <2>2 DEF TablesFit, Fits, Tracked, InOrder
    <3>2. polls' = polls \cup {<<n, "sent">>} /\ "sent" \notin Ends
      BY <1>5, <2>2 DEF Tick, Ends, EntryStatus
    <3>3. UNCHANGED <<urlOf, start, server, placed, activeJobs>>
      BY <1>5 DEF Tick
    <3> QED BY <1>s, <3>1, <3>2, <3>3 DEF InOrder, Tracked
  <2>3. CASE ~Tracked(activeJobs, n)
    BY <1>5, <1>s, <2>3 DEF Tick, InOrder, Tracked
  <2> QED BY <2>2, <2>3
<1>6. CASE Restore
  <2>1. \A m \in Starts : start[m] # "persist"
    BY <1>6 DEF Restore, Asleep
  <2>2. \A m \in Starts : Tracked(stored, m) => m \in Placed
    BY DEF TablesFit, Fits, Tracked
  <2>3. polls' = Processing(activeJobs') \X {"sent"} /\ activeJobs' = stored
    BY <1>6 DEF Restore, Asleep, Tables
  <2>4. \A m \in Processing(activeJobs') : start[m] \in {"answered", "killed"}
    BY <1>6, <2>1, <2>2, <2>3 DEF Restore, Processing, Tracked, InOrder
  <2>5. UNCHANGED <<urlOf, start, server, placed>> /\ "sent" \notin Ends
    BY <1>6 DEF Restore, Ends, EntryStatus
  <2> QED BY <1>s, <2>1, <2>3, <2>4, <2>5 DEF InOrder
<1>7. CASE Kill
  BY <1>7, <1>s DEF Kill, InOrder
<1>8. ASSUME NEW n \in Starts,
             ServerAccepts(n) \/ ServerEnds(n) \/ PollServed(n) \/ CancelServed(n)
      PROVE  InOrder'
  <2>1. CASE ServerAccepts(n) \/ ServerEnds(n) \/ CancelServed(n)
    <3>1. UNCHANGED <<urlOf, start, placed, polls, activeJobs>>
      BY <2>1 DEF ServerAccepts, ServerEnds, CancelServed
    <3> QED BY <1>s, <3>1, Surroundings DEF InOrder, Tracked
  <2>2. CASE PollServed(n)
    BY <2>2, <1>s DEF PollServed, InOrder, Tracked, Ends
  <2> QED BY <1>8, <2>1, <2>2
<1>9. ASSUME NEW n \in Starts, NEW s \in {"sent"} \cup DOMAIN EntryStatus,
             \/ StartRequest(n) \/ StartFails(n) \/ CancelRequest(n) \/ CancelAnswer(n)
             \/ PollDropped(n, s)
      PROVE  InOrder'
  BY <1>9, <1>s DEF StartRequest, StartFails, CancelRequest, CancelAnswer, PollDropped, InOrder,
                    Tracked
<1>10. CASE Wake \/ WriteDone \/ UNCHANGED vars
  <2>1. UNCHANGED <<urlOf, start, placed, polls, activeJobs, server>>
    BY <1>10 DEF Wake, WriteDone, vars
  <2> QED BY <1>s, <2>1 DEF InOrder, Tracked
<1> QED
  BY <1>1, <1>2, <1>3, <1>4, <1>5, <1>6, <1>7, <1>8, <1>9, <1>10
  DEF Next, Backend, Conversions, Polling, Cancels

LEMMA PersistFits ==
    ASSUME TypeOK, NEW o, NEW t, Persist(o, t), NEW of, NEW on, NEW sv,
           \A i \in 1 .. Len(writes) : Fits(writes[i].table, of, on, sv),
           Fits(t, of, on, sv)
    PROVE  \A i \in 1 .. Len(writes') : Fits(writes'[i].table, of, on, sv)
<1>1. writes \in Seq(WriteCalls)
  BY DEF TypeOK
<1>2. writes' = Append(writes, [owner |-> o, table |-> t])
  BY DEF Persist
<1>3. /\ Len(writes') = Len(writes) + 1 /\ Len(writes) \in Nat
      /\ \A i \in 1 .. Len(writes) : writes'[i] = writes[i]
      /\ writes'[Len(writes) + 1].table = t
  BY <1>1, <1>2
<1>4. ASSUME NEW i \in 1 .. Len(writes') PROVE Fits(writes'[i].table, of, on, sv)
  <2>1. CASE i \in 1 .. Len(writes)
    BY <1>3, <2>1
  <2>2. CASE i = Len(writes) + 1
    BY <1>3, <2>2
  <2> QED BY <1>3, <2>1, <2>2
<1> QED BY <1>4

LEMMA TablesFitStep == WorkerInv /\ [Next]_vars => TablesFit'
<1> SUFFICES ASSUME TypeOK, Asleep, InOrder, TablesFit, [Next]_vars PROVE TablesFit'
  BY DEF WorkerInv
<1> USE DEF workerVars, tableVars, pollVars, handlerVars, backendVars
<1> DEFINE Now(t) == Fits(t, urlOf, Placed, server)
           Next1(t) == Fits(t, urlOf', Placed', server')
<1>l. ASSUME NEW t \in Tables, Now(t) PROVE Next1(t)
  BY <1>l, FitsLater, Surroundings
<1>a. Next1(activeJobs) /\ Next1(stored)
  BY <1>l DEF TablesFit, TypeOK
<1>w. \A i \in 1 .. Len(writes) : Next1(writes[i].table)
  BY <1>l, WriteType DEF TablesFit
<1>p. ASSUME NEW o, Persist(o, activeJobs'), Next1(activeJobs'), stored' = stored
      PROVE  TablesFit'
  BY <1>p, <1>a, <1>w, PersistFits DEF TablesFit
<1> HIDE DEF Now, Next1
<1>1. ASSUME NEW n \in Starts, StartAnswer(n) PROVE TablesFit'
  <2> DEFINE e == [job |-> n, status |-> "processing", cancelRequested |-> FALSE]
  <2>1. e \in Entries /\ urlOf' = urlOf /\ urlOf[n] \in Urls
    BY <1>1 DEF Entries, StartAnswer, TypeOK
  <2>2. e.job \in Placed' /\ Honest(e, server')
    BY <1>1, PlacedAppend DEF StartAnswer, Honest, Terminal, TypeOK
  <2>3. Next1([activeJobs EXCEPT ![urlOf[n]] = e])
    BY <1>a, <2>1, <2>2, FitsPut DEF Next1, TypeOK
  <2> QED BY <1>1, <1>p, <2>3 DEF StartAnswer
<1>2. ASSUME NEW n \in Starts, NEW s \in {"sent"} \cup DOMAIN EntryStatus, PollAnswer(n, s)
      PROVE  TablesFit'
  <2> DEFINE e == [job |-> n, status |-> EntryStatus[s],
                   cancelRequested |-> IF s = "cancelled" THEN FALSE
                                       ELSE activeJobs[urlOf[n]].cancelRequested]
  <2>1. e \in Entries
    <3>1. activeJobs[urlOf[n]].cancelRequested \in BOOLEAN
      BY <1>2, EntryType DEF PollAnswer, Entries, TypeOK
    <3>2. EntryStatus[s] \in Terminal
      BY <1>2 DEF PollAnswer, EntryStatus, Terminal
    <3> QED BY <3>1, <3>2 DEF Entries
  <2>2. urlOf' = urlOf /\ urlOf[n] \in Urls /\ server' = server /\ server[n] = s /\ s \in Ends
    BY <1>2 DEF PollAnswer, InOrder, Ends, TypeOK
  <2>3. e.job \in Placed' /\ Honest(e, server')
    <3>1. n \in Placed'
      BY <1>2, <1>a, <2>2 DEF Next1, Fits, PollAnswer, Tracked
    <3> QED BY <2>2, <3>1 DEF Honest
  <2>4. activeJobs' = [activeJobs EXCEPT ![urlOf[n]] = e]
    BY <1>2, <2>2 DEF PollAnswer, TypeOK, Tables
  <2>5. Next1(activeJobs')
    BY <1>a, <2>1, <2>2, <2>3, <2>4, FitsPut DEF Next1, TypeOK
  <2> QED BY <1>2, <1>p, <2>5 DEF PollAnswer
<1>3. ASSUME NEW n \in Starts, CancelMessage(n) \/ CancelRollback(n) PROVE TablesFit'
  <2>1. urlOf' = urlOf /\ stored' = stored
    BY <1>3 DEF CancelMessage, CancelRollback
  <2>2. \A u \in Urls : activeJobs'[u] # NoJob =>
           /\ activeJobs[u] # NoJob /\ activeJobs'[u].job = activeJobs[u].job
           /\ activeJobs'[u].status = activeJobs[u].status
    BY <1>3, NoEntry DEF CancelMessage, CancelRollback, Processing, Tracked, Tables, Entries,
                         TypeOK
  <2>3. Next1(activeJobs')
    BY <1>a, <2>2 DEF Next1, Fits, Honest
  <2> QED BY <1>3, <1>p, <2>1, <2>3 DEF CancelMessage, CancelRollback
<1>4. CASE WriteDone
  <2>1. /\ stored' = writes[1].table /\ activeJobs' = activeJobs /\ writes' = Tail(writes)
        /\ 1 \in 1 .. Len(writes)
    BY <1>4 DEF WriteDone, TypeOK
  <2>2. \A i \in 1 .. Len(writes') : writes'[i] = writes[i + 1] /\ i + 1 \in 1 .. Len(writes)
    BY <2>1 DEF TypeOK
  <2> QED BY <1>a, <1>w, <2>1, <2>2 DEF TablesFit, Next1
<1>5. CASE Kill
  <2>1. Next1(activeJobs') /\ writes' = <<>>
    BY <1>5 DEF Kill, Next1, Fits
  <2>2. stored' = stored \/ \E k \in 1 .. Len(writes) : stored' = writes[k].table
    <3>1. PICK k \in 0 .. Len(writes) : stored' = IF k = 0 THEN stored ELSE writes[k].table
      BY <1>5 DEF Kill
    <3> QED BY <3>1
  <2> QED BY <1>a, <1>w, <2>1, <2>2 DEF TablesFit, Next1
<1>6. CASE Restore
  <2>1. activeJobs' = stored /\ UNCHANGED <<stored, writes>>
    BY <1>6 DEF Restore, Asleep, Tables, TypeOK
  <2> QED BY <1>a, <1>w, <2>1 DEF TablesFit, Next1
<1>7. UNCHANGED <<activeJobs, stored, writes>> => TablesFit'
  BY <1>a, <1>w DEF TablesFit, Next1
<1>8. CASE Quiet
  BY <1>7, <1>8 DEF Quiet, Wake, ServerAccepts, ServerEnds, PollServed, CancelServed,
      StartRequest, StartFails, CancelRequest, CancelAnswer, PollDropped, vars
<1>9. ASSUME NEW n \in Starts, StartDone(n) \/ Tick(n) PROVE TablesFit'
  BY <1>7, <1>9 DEF StartDone, Tick
<1> QED
  BY <1>1, <1>2, <1>3, <1>4, <1>5, <1>6, <1>8, <1>9
  DEF Next, Quiet, Backend, Conversions, Polling, Cancels

LEMMA SamePut ==
    ASSUME NEW t \in Tables, NEW u \in Urls, t[u] \in Entries,
           NEW e \in Entries, e.job = t[u].job, e.status = t[u].status,
           NEW t2, t2 = [t EXCEPT ![u] = e], NEW v \in Urls
    PROVE  /\ t2[v] # NoJob <=> t[v] # NoJob
           /\ t[v] # NoJob => t2[v].job = t[v].job /\ t2[v].status = t[v].status
<1>1. e # NoJob /\ t[u] # NoJob
  BY NoEntry
<1>2. t2[v] = IF v = u THEN e ELSE t[v]
  BY DEF Tables
<1> QED BY <1>1, <1>2

(* A cancel changes the flag of an entry and nothing else.                 *)
LEMMA CancelKeeps ==
    ASSUME TypeOK, NEW n \in Starts, CancelMessage(n) \/ CancelRollback(n)
    PROVE  \A u \in Urls :
             /\ activeJobs'[u] # NoJob <=> activeJobs[u] # NoJob
             /\ activeJobs[u] # NoJob => /\ activeJobs'[u].job = activeJobs[u].job
                                         /\ activeJobs'[u].status = activeJobs[u].status
<1>1. CASE CancelMessage(n)
  <2> DEFINE e == [activeJobs[urlOf[n]] EXCEPT !.cancelRequested = TRUE]
  <2>1. activeJobs[urlOf[n]] \in Entries /\ activeJobs \in Tables /\ urlOf[n] \in Urls
    BY <1>1, EntryType DEF CancelMessage, Processing, TypeOK
  <2>2. /\ e \in Entries /\ e.job = activeJobs[urlOf[n]].job
        /\ e.status = activeJobs[urlOf[n]].status
    BY <2>1 DEF Entries
  <2>3. activeJobs' = [activeJobs EXCEPT ![urlOf[n]] = e]
    BY <1>1, <2>1 DEF CancelMessage, Tables
  <2> HIDE DEF e
  <2> QED BY <2>1, <2>2, <2>3, SamePut
<1>2. CASE CancelRollback(n) /\ Tracked(activeJobs, n)
  <2> DEFINE e == [activeJobs[urlOf[n]] EXCEPT !.cancelRequested = FALSE]
  <2>1. activeJobs[urlOf[n]] \in Entries /\ activeJobs \in Tables /\ urlOf[n] \in Urls
    BY <1>2, EntryType DEF TypeOK
  <2>2. /\ e \in Entries /\ e.job = activeJobs[urlOf[n]].job
        /\ e.status = activeJobs[urlOf[n]].status
    BY <2>1 DEF Entries
  <2>3. activeJobs' = [activeJobs EXCEPT ![urlOf[n]] = e]
    BY <1>2, <2>1 DEF CancelRollback, Tables
  <2> HIDE DEF e
  <2> QED BY <2>1, <2>2, <2>3, SamePut
<1>3. CASE CancelRollback(n) /\ ~Tracked(activeJobs, n)
  BY <1>3 DEF CancelRollback
<1> QED BY <1>1, <1>2, <1>3

LEMMA PolledStep == WorkerInv /\ [Next]_vars => PolledIffProcessing'
<1> SUFFICES ASSUME TypeOK, Asleep, InOrder, TablesFit, PolledIffProcessing, [Next]_vars
             PROVE  PolledIffProcessing'
  BY DEF WorkerInv
<1> USE DEF workerVars, tableVars, pollVars, handlerVars, backendVars
<1> DEFINE Due == {n \in Starts : n \in Processing(activeJobs) /\ start[n] # "persist"}
<1>0. timers \subseteq Starts /\ (PolledIffProcessing <=> (restored => timers = Due))
  BY DEF PolledIffProcessing, Processing, TypeOK
<1>00. PolledIffProcessing' <=> (restored' => timers' = Due')
  BY DEF PolledIffProcessing, Processing
<1>r. timers # {} \/ writes # <<>> \/ polls # {} => restored
  BY DEF Asleep
<1>1. ASSUME NEW n \in Starts, StartAnswer(n) PROVE PolledIffProcessing'
  <2>1. /\ restored /\ UNCHANGED <<restored, urlOf>>
        /\ start' = [start EXCEPT ![n] = "persist"]
        /\ timers' = timers \ {m \in Starts : urlOf[m] = urlOf[n] /\ Tracked(activeJobs, m)}
    BY <1>1 DEF StartAnswer, Asleep, TypeOK
  <2>2. \A m \in Starts : m # n =>
           (m \in Processing(activeJobs)' <=>
               m \in Processing(activeJobs) /\ urlOf[m] # urlOf[n])
    BY <1>1 DEF StartAnswer, Processing, Tracked, Tables, TypeOK
  <2>3. ASSUME NEW m \in Starts, m # n PROVE m \in timers' <=> m \in Due'
    <3>1. m \in timers => Tracked(activeJobs, m)
      BY <2>1, <1>0 DEF Processing
    <3>2. m \in timers' <=> m \in timers /\ urlOf[m] # urlOf[n]
      BY <2>1, <3>1
    <3>3. start'[m] = start[m]
      BY <2>1, <2>3 DEF TypeOK
    <3> QED BY <2>1, <2>2, <2>3, <3>2, <3>3, <1>0
  <2>4. n \notin timers' /\ n \notin Due'
    <3>1. n \notin Processing(activeJobs)
      BY <1>1 DEF StartAnswer, InOrder, TablesFit, Fits, Processing, Tracked, TypeOK
    <3> QED BY <2>1, <3>1, <1>0 DEF TypeOK
  <2> QED BY <2>3, <2>4, <2>1, <1>0, <1>00
<1>2. ASSUME NEW n \in Starts, StartDone(n) PROVE PolledIffProcessing'
  <2>1. /\ restored /\ UNCHANGED <<restored, urlOf, activeJobs>>
        /\ start[n] = "persist" /\ start' = [start EXCEPT ![n] = "answered"]
        /\ timers' = IF Tracked(activeJobs, n) THEN timers \cup {n} ELSE timers
    BY <1>2 DEF StartDone, Asleep, TypeOK
  <2>2. n \in Processing(activeJobs) <=> Tracked(activeJobs, n)
    BY <2>1 DEF InOrder, Processing
  <2> QED BY <2>1, <2>2, <1>0, <1>00 DEF TypeOK, Processing, Tracked
<1>3. ASSUME NEW n \in Starts, NEW s \in {"sent"} \cup DOMAIN EntryStatus, PollAnswer(n, s)
      PROVE  PolledIffProcessing'
  <2>1. restored /\ UNCHANGED <<restored, urlOf, start>> /\ timers' = timers \ {n}
    BY <1>3, <1>r DEF PollAnswer
  <2>2. n \notin Processing(activeJobs)'
    BY <1>3 DEF PollAnswer, Processing, Tracked, Tables, TypeOK, EntryStatus
  <2>3. \A m \in Starts : m # n =>
           (m \in Processing(activeJobs)' <=> m \in Processing(activeJobs))
    BY <1>3 DEF PollAnswer, Processing, Tracked, Tables, TypeOK
  <2> QED BY <2>1, <2>2, <2>3, <1>0, <1>00
<1>4. ASSUME NEW n \in Starts, CancelMessage(n) \/ CancelRollback(n)
      PROVE  PolledIffProcessing'
  <2>1. UNCHANGED <<restored, urlOf, start, timers>>
    BY <1>4 DEF CancelMessage, CancelRollback
  <2>2. Processing(activeJobs)' = Processing(activeJobs)
    <3>1. \A u \in Urls :
             /\ activeJobs'[u] # NoJob <=> activeJobs[u] # NoJob
             /\ activeJobs[u] # NoJob => /\ activeJobs'[u].job = activeJobs[u].job
                                         /\ activeJobs'[u].status = activeJobs[u].status
      BY <1>4, CancelKeeps
    <3> QED BY <2>1, <3>1 DEF Processing, Tracked, TypeOK
  <2> QED BY <2>1, <2>2, <1>0, <1>00
<1>5. ASSUME NEW n \in Starts, Tick(n) PROVE PolledIffProcessing'
  <2>1. Tracked(activeJobs, n)
    BY <1>5, <1>r, <1>0 DEF Tick, Processing
  <2> QED BY <1>5, <2>1, <1>0, <1>00 DEF Tick, Processing, Tracked
<1>6. CASE Restore
  <2>1. timers' = Processing(activeJobs') /\ start' = start
    BY <1>6 DEF Restore, Asleep
  <2>2. \A m \in Starts : start[m] # "persist"
    BY <1>6 DEF Restore, Asleep
  <2>3. urlOf' = urlOf
    BY <1>6 DEF Restore
  <2> QED BY <2>1, <2>2, <2>3, <1>00 DEF Processing, Tracked
<1>7. CASE Kill
  BY <1>7, <1>00 DEF Kill
<1>8. ASSUME UNCHANGED <<restored, urlOf, activeJobs, timers>>,
             \A m \in Starts : start'[m] = "persist" <=> start[m] = "persist"
      PROVE  PolledIffProcessing'
  BY <1>8, <1>0, <1>00 DEF Processing, Tracked
<1>9. CASE WriteDone
  BY <1>8, <1>9 DEF WriteDone
<1>10. CASE Quiet
  <2>1. CASE Wake \/ UNCHANGED vars
    BY <1>8, <2>1 DEF Wake, vars
  <2>2. ASSUME NEW n \in Starts, NEW s \in {"sent"} \cup DOMAIN EntryStatus,
               \/ ServerAccepts(n) \/ ServerEnds(n) \/ PollServed(n) \/ CancelServed(n)
               \/ CancelRequest(n) \/ CancelAnswer(n) \/ PollDropped(n, s)
        PROVE  PolledIffProcessing'
    BY <1>8, <2>2 DEF ServerAccepts, ServerEnds, PollServed, CancelServed, CancelRequest,
                      CancelAnswer, PollDropped
  <2>3. ASSUME NEW n \in Starts, StartRequest(n) \/ StartFails(n) PROVE PolledIffProcessing'
    BY <1>8, <2>3 DEF StartRequest, StartFails, TypeOK
  <2> QED BY <1>10, <2>1, <2>2, <2>3 DEF Quiet
<1> QED
  BY <1>1, <1>2, <1>3, <1>4, <1>5, <1>6, <1>7, <1>9, <1>10
  DEF Next, Quiet, Backend, Conversions, Polling, Cancels

LEMMA WorkerAlways == Spec => []WorkerInv
<1>1. Init => WorkerInv
  <2> SUFFICES ASSUME Init PROVE WorkerInv
    OBVIOUS
  <2>1. Asleep
    BY DEF Init, Asleep
  <2>2. Placed = {}
    BY DEF Init, Placed
  <2>3. InOrder
    BY <2>2 DEF Init, InOrder
  <2>4. TablesFit
    BY DEF Init, TablesFit, Fits
  <2>5. PolledIffProcessing
    BY DEF Init, PolledIffProcessing
  <2> QED BY <2>1, <2>3, <2>4, <2>5, TypeInit DEF WorkerInv
<1>2. WorkerInv /\ [Next]_vars => WorkerInv'
  BY TypeStep, AsleepStep, InOrderStep, TablesFitStep, PolledStep DEF WorkerInv
<1> QED BY <1>1, <1>2, PTL DEF Spec

(* An interval runs for exactly the jobs still processing: polling starts  *)
(* when a start is written and on restore, and stops with the answer that  *)
(* ends a job or with its replacement (startPolling, stopPolling).         *)
THEOREM EachIsPolled == Spec => []PolledIffProcessing
BY WorkerAlways, PTL DEF WorkerInv

(* An end shown by the table, in memory or in storage, is how the job      *)
(* ended at the backend (pollJobStatus looks at the entry again after its  *)
(* await).                                                                 *)
THEOREM TableTellsTruth == Spec => []TableIsTrue
<1>1. WorkerInv => TableIsTrue
  BY DEF WorkerInv, TablesFit, Fits, Honest, TableIsTrue, Tracked, TypeOK, Ends
<1> QED BY <1>1, WorkerAlways, PTL

-----------------------------------------------------------------------------
(* Tables move forward: an entry is kept, or replaced by a later one of    *)
(* its URL, and an end stays.                                              *)

After(m, n, pl) == \E i, k \in 1 .. Len(pl) : pl[i] = n /\ pl[k] = m /\ i < k

Forward(t1, t2, pl) ==
    \A u \in Urls : t1[u] # NoJob =>
        /\ t2[u] # NoJob
        /\ \/ /\ t2[u].job = t1[u].job
              /\ t1[u].status \in Terminal => t2[u].status = t1[u].status
           \/ After(t2[u].job, t1[u].job, pl)

LEMMA AfterLater ==
    ASSUME NEW pl \in Seq(Starts), NEW n \in Starts, NEW a, NEW b, After(a, b, pl)
    PROVE  After(a, b, Append(pl, n))
<1>1. PICK i, k \in 1 .. Len(pl) : pl[i] = b /\ pl[k] = a /\ i < k
  BY DEF After
<1> DEFINE pl2 == Append(pl, n)
<1>2. /\ i \in 1 .. Len(pl2) /\ k \in 1 .. Len(pl2) /\ pl2[i] = b /\ pl2[k] = a
  BY <1>1
<1> HIDE DEF pl2
<1>3. After(a, b, pl2)
  BY <1>1, <1>2 DEF After
<1> QED BY <1>3 DEF pl2

LEMMA AfterAll ==
    ASSUME placed \in Seq(Starts), NEW n \in Starts, NEW a \in Placed
    PROVE  After(n, a, Append(placed, n))
<1> DEFINE pl2 == Append(placed, n)
<1>1. PICK i \in 1 .. Len(placed) : placed[i] = a
  BY DEF Placed
<1>2. /\ i \in 1 .. Len(pl2) /\ Len(placed) + 1 \in 1 .. Len(pl2) /\ i < Len(placed) + 1
      /\ pl2[i] = a /\ pl2[Len(placed) + 1] = n
  BY <1>1
<1> HIDE DEF pl2
<1>3. After(n, a, pl2)
  BY <1>2 DEF After
<1> QED BY <1>3 DEF pl2

(* Storage is behind the writes under way, in their order, and those are   *)
(* behind the table in memory.                                             *)
InLine ==
    /\ \A i \in 1 .. Len(writes) : Forward(stored, writes[i].table, placed)
    /\ \A i, k \in 1 .. Len(writes) :
          i < k => Forward(writes[i].table, writes[k].table, placed)
    /\ restored =>
          /\ Forward(stored, activeJobs, placed)
          /\ \A i \in 1 .. Len(writes) : Forward(writes[i].table, activeJobs, placed)

(* A table that is behind the one in memory is behind the next one.        *)
LEMMA MemoryMoves ==
    ASSUME WorkerInv, NEW n \in Starts,
           \/ StartAnswer(n) \/ CancelMessage(n) \/ CancelRollback(n)
           \/ \E s \in {"sent"} \cup DOMAIN EntryStatus : PollAnswer(n, s),
           NEW t \in Tables, Fits(t, urlOf, Placed, server), Forward(t, activeJobs, placed)
    PROVE  Forward(t, activeJobs', placed')
<1> USE DEF WorkerInv, TypeOK
<1>1. CASE StartAnswer(n)
  <2>1. placed' = Append(placed, n) /\ placed \in Seq(Starts)
    BY <1>1 DEF StartAnswer
  <2>2. \A u \in Urls : activeJobs'[u] =
           IF u = urlOf[n] THEN [job |-> n, status |-> "processing", cancelRequested |-> FALSE]
           ELSE activeJobs[u]
    BY <1>1 DEF StartAnswer, Tables
  <2>3. ASSUME NEW u \in Urls, t[u] # NoJob, u = urlOf[n]
        PROVE  activeJobs'[u] # NoJob /\ After(activeJobs'[u].job, t[u].job, placed')
    <3>1. [job |-> n, status |-> "processing", cancelRequested |-> FALSE] \in Entries
      BY DEF Entries
    <3>2. t[u].job \in Placed
      BY <2>3 DEF Fits
    <3>3. After(n, t[u].job, placed')
      BY <2>1, <3>2, AfterAll
    <3> QED BY <2>2, <2>3, <3>1, <3>3, NoEntry
  <2>4. ASSUME NEW u \in Urls, t[u] # NoJob, After(activeJobs[u].job, t[u].job, placed)
        PROVE  After(activeJobs[u].job, t[u].job, placed')
    BY <2>1, <2>4, AfterLater
  <2> QED BY <2>2, <2>3, <2>4 DEF Forward
<1>2. ASSUME NEW s \in {"sent"} \cup DOMAIN EntryStatus, PollAnswer(n, s)
      PROVE  Forward(t, activeJobs', placed')
  <2>1. placed' = placed /\ server[n] = s /\ s \in Ends /\ activeJobs[urlOf[n]] # NoJob
        /\ activeJobs[urlOf[n]].job = n
    BY <1>2 DEF PollAnswer, InOrder, Ends, Tracked, tableVars
  <2>2. \A u \in Urls : u # urlOf[n] => activeJobs'[u] = activeJobs[u]
    BY <1>2 DEF PollAnswer, Tables
  <2>3. /\ activeJobs'[urlOf[n]] # NoJob
        /\ activeJobs'[urlOf[n]].job = n /\ activeJobs'[urlOf[n]].status = EntryStatus[s]
    <3> DEFINE e == [job |-> n, status |-> EntryStatus[s],
                     cancelRequested |-> IF s = "cancelled" THEN FALSE
                                         ELSE activeJobs[urlOf[n]].cancelRequested]
    <3>1. activeJobs' = [activeJobs EXCEPT ![urlOf[n]] = e]
      BY <1>2 DEF PollAnswer, Tables
    <3>2. activeJobs[urlOf[n]].cancelRequested \in BOOLEAN /\ EntryStatus[s] \in Terminal
      BY <1>2, EntryType DEF PollAnswer, Entries, EntryStatus, Terminal
    <3>3. e \in Entries
      BY <3>2 DEF Entries
    <3> QED BY <3>1, <3>3, NoEntry DEF Tables
  <2>4. t[urlOf[n]] # NoJob /\ t[urlOf[n]].job = n /\ t[urlOf[n]].status \in Terminal
           => t[urlOf[n]].status = EntryStatus[s]
    BY <2>1 DEF Fits, Honest
  <2> QED BY <2>1, <2>2, <2>3, <2>4 DEF Forward
<1>3. CASE CancelMessage(n) \/ CancelRollback(n)
  <2>1. /\ placed' = placed
        /\ \A u \in Urls :
             /\ activeJobs'[u] # NoJob <=> activeJobs[u] # NoJob
             /\ activeJobs[u] # NoJob => /\ activeJobs'[u].job = activeJobs[u].job
                                         /\ activeJobs'[u].status = activeJobs[u].status
    BY <1>3, CancelKeeps DEF CancelMessage, CancelRollback, tableVars
  <2> QED BY <2>1 DEF Forward
<1> QED BY <1>1, <1>2, <1>3

(* The steps that append to the writes under way.                          *)
Appends(n) ==
    \/ StartAnswer(n) \/ CancelMessage(n) \/ CancelRollback(n)
    \/ \E s \in {"sent"} \cup DOMAIN EntryStatus : PollAnswer(n, s)

LEMMA AppendSteps ==
    ASSUME WorkerInv, NEW n \in Starts, Appends(n)
    PROVE  /\ restored /\ restored' = restored /\ stored' = stored
           /\ Len(writes) \in Nat /\ Len(writes') = Len(writes) + 1
           /\ \A i \in 1 .. Len(writes) : writes'[i] = writes[i]
           /\ writes'[Len(writes) + 1].table = activeJobs'
<1> USE DEF WorkerInv, TypeOK, Asleep, workerVars
<1>1. restored /\ restored' = restored /\ stored' = stored /\ \E o : Persist(o, activeJobs')
  BY DEF Appends, StartAnswer, PollAnswer, CancelMessage, CancelRollback, Processing, Tracked
<1>2. PICK o : writes' = Append(writes, [owner |-> o, table |-> activeJobs'])
  BY <1>1 DEF Persist
<1> QED BY <1>1, <1>2

(* The other steps that touch a table or a write.                          *)
LEMMA OtherSteps ==
    ASSUME WorkerInv, [Next]_vars, \A n \in Starts : ~Appends(n)
    PROVE  \/ UNCHANGED <<activeJobs, stored, writes, placed, restored>>
           \/ WriteDone \/ Kill \/ Restore
<1> USE DEF workerVars, tableVars
<1>1. CASE Quiet
  BY <1>1 DEF Quiet, Wake, ServerAccepts, ServerEnds, PollServed, CancelServed, StartRequest,
      StartFails, CancelRequest, CancelAnswer, PollDropped, vars
<1>2. ASSUME NEW n \in Starts, StartDone(n) \/ Tick(n)
      PROVE  UNCHANGED <<activeJobs, stored, writes, placed, restored>>
  BY <1>2 DEF StartDone, Tick
<1> QED
  BY <1>1, <1>2 DEF Next, Quiet, Backend, Conversions, Polling, Cancels, Appends

LEMMA InLineStep == WorkerInv /\ InLine /\ [Next]_vars => InLine'
<1> SUFFICES ASSUME WorkerInv, InLine, [Next]_vars PROVE InLine'
  OBVIOUS
<1>w. /\ \A i \in 1 .. Len(writes) : writes[i].table \in Tables
      /\ activeJobs \in Tables /\ stored \in Tables /\ writes \in Seq(WriteCalls)
  BY WriteType DEF WorkerInv, TypeOK
<1>1. ASSUME NEW n \in Starts, Appends(n) PROVE InLine'
  <2>1. \A t \in Tables : Fits(t, urlOf, Placed, server) /\ Forward(t, activeJobs, placed)
                             => Forward(t, activeJobs', placed')
    BY <1>1, MemoryMoves DEF Appends
  <2>2. \A t1, t2 \in Tables : Forward(t1, t2, placed) => Forward(t1, t2, placed')
    <3>1. placed' = placed \/ placed' = Append(placed, n)
      BY <1>1 DEF Appends, StartAnswer, PollAnswer, CancelMessage, CancelRollback
    <3>2. placed \in Seq(Starts)
      BY DEF WorkerInv, TypeOK
    <3>3. \A a, b : After(a, b, placed) => After(a, b, placed')
      BY <3>1, <3>2, AfterLater
    <3> QED BY <3>3 DEF Forward
  <2>3. /\ Forward(stored, activeJobs', placed')
        /\ \A i \in 1 .. Len(writes) : Forward(writes[i].table, activeJobs', placed')
    BY <1>1, <1>w, <2>1, AppendSteps DEF InLine, WorkerInv, TablesFit
  <2>4. Forward(activeJobs', activeJobs', placed')
    BY DEF Forward
  <2>5. /\ stored' = stored /\ Len(writes) \in Nat /\ Len(writes') = Len(writes) + 1
        /\ \A i \in 1 .. Len(writes) : writes'[i] = writes[i]
        /\ writes'[Len(writes) + 1].table = activeJobs'
    BY <1>1, AppendSteps
  <2>6. \A i \in 1 .. Len(writes') : i \in 1 .. Len(writes) \/ i = Len(writes) + 1
    BY <2>5
  <2>7. \A i \in 1 .. Len(writes') :
           /\ Forward(stored', writes'[i].table, placed')
           /\ Forward(writes'[i].table, activeJobs', placed')
    BY <1>w, <2>2, <2>3, <2>4, <2>5, <2>6 DEF InLine
  <2>8. \A i, k \in 1 .. Len(writes') :
           i < k => Forward(writes'[i].table, writes'[k].table, placed')
    <3>1. ASSUME NEW i \in 1 .. Len(writes'), NEW k \in 1 .. Len(writes'), i < k
          PROVE  Forward(writes'[i].table, writes'[k].table, placed')
      <4>1. i \in 1 .. Len(writes)
        BY <2>5, <3>1
      <4>2. CASE k \in 1 .. Len(writes)
        BY <1>w, <2>2, <2>5, <3>1, <4>1, <4>2 DEF InLine
      <4>3. CASE k = Len(writes) + 1
        BY <2>3, <2>5, <4>1, <4>3
      <4> QED BY <2>6, <4>2, <4>3
    <3> QED BY <3>1
  <2> QED BY <2>3, <2>5, <2>7, <2>8 DEF InLine
<1>2. CASE WriteDone
  <2>1. /\ stored' = writes[1].table /\ UNCHANGED <<activeJobs, placed, restored>>
        /\ writes' = Tail(writes) /\ 1 \in 1 .. Len(writes)
    BY <1>2, <1>w DEF WriteDone, workerVars
  <2>2. \A i \in 1 .. Len(writes') : /\ writes'[i] = writes[i + 1]
                                     /\ i + 1 \in 1 .. Len(writes) /\ 1 < i + 1
    BY <1>w, <2>1
  <2> QED BY <2>1, <2>2 DEF InLine
<1>3. CASE Kill
  BY <1>3 DEF Kill, InLine
<1>4. CASE Restore
  <2>1. activeJobs' = stored /\ writes' = <<>> /\ stored' = stored
    BY <1>4, <1>w DEF Restore, WorkerInv, Asleep, Tables
  <2> QED BY <2>1 DEF InLine, Forward
<1>5. CASE UNCHANGED <<activeJobs, stored, writes, placed, restored>>
  BY <1>5 DEF InLine
<1> QED BY <1>1, <1>2, <1>3, <1>4, <1>5, OtherSteps

LEMMA StoredSteps ==
    ASSUME WorkerInv, InLine, [Next]_vars
    PROVE  Forward(stored, stored', placed)
<1>0. Forward(stored, stored, placed)
  BY DEF Forward
<1>1. stored' = stored \/ \E i \in 1 .. Len(writes) : stored' = writes[i].table
  <2>1. ASSUME NEW n \in Starts, Appends(n) PROVE stored' = stored
    BY <2>1, AppendSteps
  <2>2. CASE Kill
    <3>1. PICK k \in 0 .. Len(writes) : stored' = IF k = 0 THEN stored ELSE writes[k].table
      BY <2>2 DEF Kill
    <3> QED BY <3>1 DEF WorkerInv, TypeOK
  <2>3. CASE WriteDone
    BY <2>3 DEF WriteDone, WorkerInv, TypeOK
  <2>4. CASE Restore
    BY <2>4 DEF Restore
  <2> QED BY <2>1, <2>2, <2>3, <2>4, OtherSteps
<1> QED BY <1>0, <1>1 DEF InLine

LEMMA InLineAlways == Spec => []InLine
<1>1. Init => InLine
  BY DEF Init, InLine, Forward
<1> QED BY <1>1, InLineStep, WorkerAlways, PTL DEF Spec

(* Storage loses no entry, brings no replaced job back and reopens none    *)
(* that has ended: persistActiveJobs writes the whole table, so this rests *)
(* on the order of its calls and on the restore that precedes them.        *)
THEOREM StorageMovesForward == Spec => TableNeverForgets
<1> DEFINE F == \A u \in Urls : stored[u] # NoJob =>
                  /\ stored'[u] # NoJob
                  /\ \/ /\ stored'[u].job = stored[u].job
                        /\ stored[u].status \in Terminal => stored'[u].status = stored[u].status
                     \/ PlacedAfter(stored'[u].job, stored[u].job)
<1>1. WorkerInv /\ InLine /\ [Next]_vars => [F]_stored
  BY StoredSteps DEF Forward, After, PlacedAfter
<1> QED BY <1>1, InLineAlways, WorkerAlways, PTL DEF Spec, TableNeverForgets

-----------------------------------------------------------------------------
(* A job answered to be started is in storage, or a later one of its URL;  *)
(* one being written is on its way there.                                  *)

Distinct == \A i, k \in 1 .. Len(placed) : placed[i] = placed[k] => i = k

Holds(t, u, n, pl) == t[u] # NoJob /\ (t[u].job = n \/ After(t[u].job, n, pl))

Durable ==
    /\ Distinct
    /\ \A n \in Starts : start[n] = "answered" => Holds(stored, urlOf[n], n, placed)
    /\ \A n \in Starts : start[n] = "persist" =>
          \/ Holds(stored, urlOf[n], n, placed)
          \/ \E i \in 1 .. Len(writes) : /\ writes[i].owner = <<"start", n>>
                                         /\ Holds(writes[i].table, urlOf[n], n, placed)

LEMMA AfterAfter ==
    ASSUME Distinct, placed \in Seq(Starts), NEW a, NEW b, NEW c,
           After(a, b, placed), After(b, c, placed)
    PROVE  After(a, c, placed)
<1>1. PICK i, k \in 1 .. Len(placed) : placed[i] = b /\ placed[k] = a /\ i < k
  BY DEF After
<1>2. PICK g, h \in 1 .. Len(placed) : placed[g] = c /\ placed[h] = b /\ g < h
  BY DEF After
<1>3. h = i
  BY <1>1, <1>2 DEF Distinct
<1>4. g < k
  BY <1>1, <1>2, <1>3
<1> QED BY <1>1, <1>2, <1>4 DEF After

LEMMA HoldsForward ==
    ASSUME Distinct, placed \in Seq(Starts), NEW t1, NEW t2, NEW u \in Urls, NEW n,
           Holds(t1, u, n, placed), Forward(t1, t2, placed)
    PROVE  Holds(t2, u, n, placed)
<1>1. CASE t1[u].job = n
  BY <1>1 DEF Holds, Forward
<1>2. CASE After(t1[u].job, n, placed)
  <2>1. t2[u] # NoJob /\ (t2[u].job = t1[u].job \/ After(t2[u].job, t1[u].job, placed))
    BY DEF Holds, Forward
  <2>2. CASE t2[u].job = t1[u].job
    BY <1>2, <2>1, <2>2 DEF Holds
  <2>3. CASE After(t2[u].job, t1[u].job, placed)
    <3>1. After(t2[u].job, n, placed)
      BY <1>2, <2>3, AfterAfter
    <3> QED BY <2>1, <3>1 DEF Holds
  <2> QED BY <2>1, <2>2, <2>3
<1> QED BY <1>1, <1>2 DEF Holds

LEMMA DistinctStep == WorkerInv /\ Distinct /\ [Next]_vars => Distinct'
<1> SUFFICES ASSUME WorkerInv, Distinct, [Next]_vars PROVE Distinct'
  OBVIOUS
<1>1. ASSUME NEW n \in Starts, StartAnswer(n) PROVE Distinct'
  <2>1. placed' = Append(placed, n) /\ placed \in Seq(Starts)
    BY <1>1 DEF StartAnswer, WorkerInv, TypeOK
  <2>2. n \notin Placed
    BY <1>1 DEF StartAnswer, WorkerInv, InOrder
  <2>3. /\ Len(placed') = Len(placed) + 1 /\ Len(placed) \in Nat
        /\ \A i \in 1 .. Len(placed') : placed'[i] = IF i <= Len(placed) THEN placed[i] ELSE n
    BY <2>1
  <2>4. \A i \in 1 .. Len(placed) : placed[i] # n
    BY <2>2 DEF Placed
  <2> QED BY <2>3, <2>4 DEF Distinct
<1>2. placed' = placed => Distinct'
  BY DEF Distinct
<1>3. ASSUME NEW n \in Starts, Appends(n), ~StartAnswer(n) PROVE placed' = placed
  BY <1>3 DEF Appends, PollAnswer, CancelMessage, CancelRollback
<1>4. WriteDone \/ Kill \/ Restore => placed' = placed
  BY DEF WriteDone, Kill, Restore
<1> QED BY <1>1, <1>2, <1>3, <1>4, OtherSteps

LEMMA DurableStep == WorkerInv /\ InLine /\ Durable /\ [Next]_vars => Durable'
<1> SUFFICES ASSUME WorkerInv, InLine, Durable, [Next]_vars PROVE Durable'
  OBVIOUS
<1> USE DEF workerVars, tableVars, handlerVars
<1>d. Distinct' /\ Distinct /\ placed \in Seq(Starts) /\ urlOf \in [Starts -> Urls]
      /\ urlOf' = urlOf /\ start \in [Starts -> {"new", "request", "persist", "answered",
                                                 "failed", "killed"}]
  BY DistinctStep, Surroundings DEF Durable, WorkerInv, TypeOK
<1>s. \A n \in Starts : Holds(stored, urlOf[n], n, placed) => Holds(stored', urlOf[n], n, placed)
  BY <1>d, StoredSteps, HoldsForward
<1>1. ASSUME NEW n \in Starts, Appends(n) PROVE Durable'
  <2>1. stored' = stored /\ \A i \in 1 .. Len(writes) : writes'[i] = writes[i]
        /\ i \in 1 .. Len(writes')
    BY <1>1, AppendSteps
  <2>2. \A t, m, u : Holds(t, u, m, placed) => Holds(t, u, m, placed')
    <3>1. placed' = placed \/ placed' = Append(placed, n)
      BY <1>1 DEF Appends, StartAnswer, PollAnswer, CancelMessage, CancelRollback
    <3> QED BY <1>d, <3>1, AfterLater DEF Holds
  <2>3. ASSUME NEW m \in Starts, start'[m] = "answered"
        PROVE  Holds(stored', urlOf'[m], m, placed')
    <3>1. start[m] = "answered"
      BY <1>1, <1>d, <2>3 DEF Appends, StartAnswer, PollAnswer, CancelMessage, CancelRollback
    <3> QED BY <1>d, <2>1, <2>2, <3>1 DEF Durable
  <2>4. ASSUME NEW m \in Starts, start'[m] = "persist"
        PROVE  \/ Holds(stored', urlOf'[m], m, placed')
               \/ \E i \in 1 .. Len(writes') :
                     /\ writes'[i].owner = <<"start", m>>
                     /\ Holds(writes'[i].table, urlOf'[m], m, placed')
    <3>1. CASE start[m] = "persist"
      BY <1>d, <2>1, <2>2, <3>1 DEF Durable
    <3>2. CASE start[m] # "persist"
      <4>1. m = n /\ StartAnswer(n)
        BY <1>1, <1>d, <2>4, <3>2
        DEF Appends, StartAnswer, PollAnswer, CancelMessage, CancelRollback
      <4>2. writes' = Append(writes, [owner |-> <<"start", n>>, table |-> activeJobs'])
        BY <4>1 DEF StartAnswer, Persist
      <4>3. Len(writes') \in 1 .. Len(writes') /\ writes'[Len(writes')].owner = <<"start", n>>
            /\ writes'[Len(writes')].table = activeJobs'
        BY <4>2 DEF WorkerInv, TypeOK
      <4>4. Holds(activeJobs', urlOf[n], n, placed')
        <5> DEFINE e == [job |-> n, status |-> "processing", cancelRequested |-> FALSE]
        <5>1. e \in Entries
          BY DEF Entries
        <5>2. activeJobs'[urlOf[n]] = e
          BY <4>1 DEF StartAnswer, WorkerInv, TypeOK, Tables
        <5>3. e # NoJob /\ e.job = n
          BY <5>1, NoEntry
        <5> HIDE DEF e
        <5> QED BY <5>2, <5>3 DEF Holds
      <4> QED BY <1>d, <4>1, <4>3, <4>4
    <3> QED BY <3>1, <3>2
  <2> QED BY <1>d, <2>3, <2>4 DEF Durable
<1>2. ASSUME NEW n \in Starts, StartDone(n) PROVE Durable'
  <2>1. UNCHANGED <<stored, writes, placed, urlOf>> /\ start' = [start EXCEPT ![n] = "answered"]
        /\ start[n] = "persist"
    BY <1>2 DEF StartDone
  <2>2. Holds(stored, urlOf[n], n, placed)
    BY <1>2 DEF StartDone, Durable, Awaiting
  <2> QED BY <1>d, <2>1, <2>2 DEF Durable
<1>3. CASE WriteDone
  <2>1. /\ UNCHANGED <<start, placed, urlOf>> /\ stored' = writes[1].table
        /\ writes' = Tail(writes) /\ writes \in Seq(WriteCalls) /\ writes # <<>>
    BY <1>3 DEF WriteDone, WorkerInv, TypeOK
  <2>2. \A i \in 1 .. Len(writes) : i = 1 \/ (i - 1 \in 1 .. Len(writes') /\ writes'[i - 1] = writes[i])
    BY <2>1
  <2>3. ASSUME NEW m \in Starts, start'[m] = "persist",
               NEW i \in 1 .. Len(writes), writes[i].owner = <<"start", m>>,
               Holds(writes[i].table, urlOf[m], m, placed)
        PROVE  \/ Holds(stored', urlOf'[m], m, placed')
               \/ \E k \in 1 .. Len(writes') :
                     /\ writes'[k].owner = <<"start", m>>
                     /\ Holds(writes'[k].table, urlOf'[m], m, placed')
    BY <1>d, <2>1, <2>2, <2>3
  <2> QED BY <1>d, <1>s, <2>1, <2>3 DEF Durable
<1>4. CASE Kill
  <2>1. /\ \A m \in Starts : start'[m] # "persist" /\ (start'[m] = "answered" => start[m] = "answered")
        /\ placed' = placed
    BY <1>4 DEF Kill
  <2> QED BY <1>d, <1>s, <2>1 DEF Durable
<1>5. CASE Restore
  BY <1>5, <1>d DEF Restore, Durable
<1>6. ASSUME UNCHANGED <<stored, writes, placed>>,
             \A m \in Starts : start'[m] \in {"persist", "answered"} => start'[m] = start[m]
      PROVE  Durable'
  BY <1>6, <1>d DEF Durable
<1>7. CASE Quiet
  <2>1. CASE Wake \/ UNCHANGED vars
    BY <1>6, <2>1 DEF Wake, vars
  <2>2. ASSUME NEW n \in Starts, NEW s \in {"sent"} \cup DOMAIN EntryStatus,
               \/ ServerAccepts(n) \/ ServerEnds(n) \/ PollServed(n) \/ CancelServed(n)
               \/ CancelRequest(n) \/ CancelAnswer(n) \/ PollDropped(n, s)
        PROVE  Durable'
    BY <1>6, <2>2 DEF ServerAccepts, ServerEnds, PollServed, CancelServed, CancelRequest,
                      CancelAnswer, PollDropped
  <2>3. ASSUME NEW n \in Starts, StartRequest(n) \/ StartFails(n) PROVE Durable'
    BY <1>6, <1>d, <2>3 DEF StartRequest, StartFails
  <2> QED BY <1>7, <2>1, <2>2, <2>3 DEF Quiet
<1>8. ASSUME NEW n \in Starts, Tick(n) PROVE Durable'
  BY <1>6, <1>8 DEF Tick
<1> QED
  BY <1>1, <1>2, <1>3, <1>4, <1>5, <1>7, <1>8
  DEF Next, Quiet, Backend, Conversions, Polling, Cancels, Appends

(* What was answered with success survives any number of kills: the answer *)
(* waits for the write of the table (startConversion).                     *)
THEOREM StartsAreKept == Spec => []StartedIsDurable
<1>1. Init => Durable
  BY DEF Init, Durable, Distinct
<1>2. WorkerInv /\ InLine /\ Durable /\ [Next]_vars => Durable'
  BY DurableStep
<1>3. Durable => StartedIsDurable
  BY DEF Durable, Holds, After, StartedIsDurable, PlacedAfter
<1> QED BY <1>1, <1>2, <1>3, InLineAlways, WorkerAlways, PTL DEF Spec

-----------------------------------------------------------------------------
(* The cancel flag.  Before the first kill every flagged entry was made by *)
(* this worker: it restored nothing.                                       *)

FlagInv ==
    /\ \A n \in Starts : cancel[n] = "accepted" => n \in asked
    /\ kills = 0 /\ ~restored => stored = [u \in Urls |-> NoJob]
    /\ CancelFlagIsHonest

LEMMA FlagStep == WorkerInv /\ FlagInv /\ [Next]_vars => FlagInv'
<1> SUFFICES ASSUME WorkerInv, FlagInv, [Next]_vars PROVE FlagInv'
  OBVIOUS
<1> USE DEF FlagInv, CancelFlagIsHonest, workerVars, tableVars, pollVars, handlerVars, backendVars
<1>t. TypeOK /\ urlOf' = urlOf
  BY Surroundings DEF WorkerInv
<1>0. ASSUME UNCHANGED <<activeJobs, stored, restored, kills>>,
             \A n \in Starts : cancel'[n] = "accepted" => n \in asked',
             asked \subseteq asked',
             \A n \in Starts : cancel[n] # "idle" => cancel'[n] # "idle" \/ n \in asked'
      PROVE  FlagInv'
  BY <1>0, <1>t DEF Processing, Tracked
<1>1. CASE Wake \/ UNCHANGED vars
  BY <1>0, <1>1 DEF Wake, vars
<1>2. CASE Kill
  <2>1. kills' # 0 /\ \A n \in Starts : cancel'[n] # "accepted"
    BY <1>2, <1>t DEF Kill, TypeOK
  <2> QED BY <2>1
<1>3. CASE WriteDone
  BY <1>3, <1>t DEF WriteDone, WorkerInv, Asleep, Processing, Tracked
<1>4. CASE Restore
  <2>1. UNCHANGED <<cancel, asked, kills, urlOf>> /\ restored'
    BY <1>4 DEF Restore
  <2>2. kills = 0 => activeJobs' = [u \in Urls |-> NoJob]
    BY <1>4 DEF Restore, WorkerInv, Asleep
  <2>3. kills = 0 => Processing(activeJobs)' = {}
    BY <2>1, <2>2, <1>t DEF Processing, Tracked, TypeOK
  <2> QED BY <2>1, <2>3
<1>5. ASSUME NEW n \in Starts, NEW s \in {"sent"} \cup DOMAIN EntryStatus,
             \/ ServerAccepts(n) \/ ServerEnds(n) \/ PollServed(n) \/ PollDropped(n, s)
             \/ StartRequest(n) \/ StartFails(n) \/ StartDone(n) \/ Tick(n)
      PROVE  FlagInv'
  BY <1>0, <1>5 DEF ServerAccepts, ServerEnds, PollServed, PollDropped, StartRequest,
     StartFails, StartDone, Tick
<1>6. ASSUME NEW n \in Starts, CancelServed(n) \/ CancelRequest(n) \/ CancelAnswer(n)
      PROVE  FlagInv'
  BY <1>0, <1>6, <1>t DEF TypeOK, CancelServed, CancelRequest, CancelAnswer
<1>7. ASSUME NEW n \in Starts, StartAnswer(n) PROVE FlagInv'
  BY <1>7, <1>t DEF StartAnswer, TypeOK, Processing, Tracked, Tables
<1>8. ASSUME NEW n \in Starts, NEW s \in {"sent"} \cup DOMAIN EntryStatus, PollAnswer(n, s)
      PROVE FlagInv'
  BY <1>8, <1>t DEF PollAnswer, TypeOK, Processing, Tracked, Tables, EntryStatus
<1>9. ASSUME NEW n \in Starts, CancelMessage(n) PROVE FlagInv'
  BY <1>9, <1>t DEF CancelMessage, TypeOK, Processing, Tracked, Tables
<1>10. ASSUME NEW n \in Starts, CancelRollback(n) PROVE FlagInv'
  BY <1>10, <1>t DEF CancelRollback, TypeOK, Processing, Tracked, Tables
<1> QED
  BY <1>1, <1>2, <1>3, <1>4, <1>5, <1>6, <1>7, <1>8, <1>9, <1>10
  DEF Next, Backend, Conversions, Polling, Cancels

(* While the worker has not been killed, a flagged job has a cancellation  *)
(* on its way or on record: a failed request takes the flag back.          *)
THEOREM FlagsAreHonest == Spec => []CancelFlagIsHonest
<1>1. Init => FlagInv
  BY DEF Init, FlagInv, CancelFlagIsHonest, Processing, Tracked
<1>2. FlagInv => CancelFlagIsHonest
  BY DEF FlagInv
<1> QED BY <1>1, <1>2, FlagStep, WorkerAlways, PTL DEF Spec
=============================================================================
