------------------------------ MODULE PopupProofs ------------------------------
(***************************************************************************)
(* The popup, for any number of submissions, cancels and overlapping       *)
(* polls, opened and closed at will.                                       *)
(***************************************************************************)
EXTENDS Popup, FiniteSetTheorems, TLAPS

(* A closed popup has no state.                                            *)
ClosedIsEmpty ==
    ~open => /\ currentJobId = NoJob /\ interval = NoJob /\ polls = {} /\ waiting = {}
             /\ sections = {} /\ ~submitEnabled /\ ~cancelGrey /\ disturbed = {}

(* What the popup and the worker have heard of a job is true of it, and    *)
(* who awaits the answer to a cancel will get one.                         *)
Heard ==
    /\ \A n \in Starts : start[n] = "accepted" <=> server[n] # "none"
    /\ currentJobId # NoJob => server[currentJobId] # "none"
    /\ entry.job # NoJob =>
          server[entry.job] # "none" /\ (entry.end \in Ends => server[entry.job] = entry.end)
    /\ \A p \in polls : server[p[1]] # "none" /\ (p[2] \in Ends => server[p[1]] = p[2])
    /\ \A n \in Starts : cancel[n] = "accepted" => n \in asked
    /\ \A n \in Starts : <<"cancel", n>> \in waiting => cancel[n] # "none"

(* What is told of a download is true of its job; an end that is not late  *)
(* meets no START under way, so the download is of the current job, and no *)
(* end is told twice over.                                                 *)
DownloadInv ==
    /\ "download" \in sections => download \in Starts /\ server[download] = "completed"
    /\ "late" \notin disturbed =>
          /\ Starting => {"download", "cancelled"} \cap sections = {}
          /\ interval # NoJob => {"download", "cancelled"} \cap sections = {}
          /\ ~({"download", "cancelled"} \subseteq sections)
          /\ "download" \in sections => download = currentJobId

(* While a job is polled, and nothing came out of turn, it has no outcome. *)
OutcomeInv ==
    disturbed \cap {"late", "covered"} = {} =>
        /\ Starting => sections = {"progress"}
        /\ interval # NoJob => sections \cap Outcomes = {}
        /\ \A a, b \in sections \cap Outcomes : a = b

(* The worker flags an entry only while the POST is under way, or once it  *)
(* is on record.                                                           *)
FlagInv ==
    (entry.cancelRequested /\ entry.end = "processing")
        => entry.job # NoJob /\ (entry.job \in asked \/ cancel[entry.job] = "posting")

(* A START finds the cancel button enabled and leaves it so; a grey one    *)
(* is the doing of a cancel of this very job that is awaited, under way or *)
(* on record.                                                              *)
GreyInv ==
    /\ "crossed" \notin disturbed /\ Starting => ~cancelGrey
    /\ disturbed \cap {"crossed", "orphaned"} = {} /\ cancelGrey =>
          /\ currentJobId # NoJob
          /\ \/ currentJobId \in asked
             \/ <<"cancel", currentJobId>> \in waiting
             \/ cancel[currentJobId] = "posting"

PopupInv ==
    /\ TypeOK /\ ClosedIsEmpty /\ Heard
    /\ DownloadInv /\ OutcomeInv /\ SubmittedOnce /\ FlagInv /\ GreyInv

LEMMA PollParts ==
    ASSUME TypeOK, NEW p \in polls
    PROVE  p[1] \in Starts /\ p[2] \in {"sent"} \cup Ends
BY DEF TypeOK

LEMMA PopupInit == Init => PopupInv
<1> SUFFICES ASSUME Init PROVE PopupInv
  OBVIOUS
<1> USE PopupConstants DEF Init, Starting
<1>1. TypeOK
  BY DEF NoEntry, TypeOK, Ends
<1>2. ClosedIsEmpty /\ Heard
  BY DEF ClosedIsEmpty, Heard, NoEntry
<1>3. DownloadInv /\ OutcomeInv /\ SubmittedOnce /\ FlagInv /\ GreyInv
  BY DEF DownloadInv, OutcomeInv, SubmittedOnce, FlagInv, GreyInv, NoEntry, Outcomes
<1> QED BY <1>1, <1>2, <1>3 DEF PopupInv

(* Every step keeps the types.                                             *)
LEMMA TypeStep == TypeOK /\ [Next]_vars => TypeOK'
<1> SUFFICES ASSUME TypeOK, [Next]_vars PROVE TypeOK'
  OBVIOUS
<1> USE PopupConstants DEF TypeOK, jobView, buttons, dom, worker, backend, Ends, Outcomes
<1>1. CASE Open
  BY <1>1 DEF Open
<1>2. CASE Close
  BY <1>2 DEF Close
<1>3. CASE UrlInput
  BY <1>3 DEF UrlInput
<1>4. CASE WorkerLearns
  BY <1>4 DEF WorkerLearns
<1>5. ASSUME NEW n \in Starts, Submit(n) PROVE TypeOK'
  <2>1. sections' \subseteq Outcomes \cup {"progress"} /\ submitEnabled' = FALSE /\ cancelGrey' = FALSE
    BY <1>5 DEF Submit
  <2>2. waiting' \subseteq {"start", "cancel"} \X Starts
    BY <1>5 DEF Submit
  <2>3. start' \in [Starts -> {"new", "sent", "accepted", "failed"}]
    BY <1>5 DEF Submit
  <2>4. disturbed' \subseteq {"edited", "late", "covered", "crossed", "orphaned"}
    BY <1>5 DEF Submit
  <2> QED BY <1>5, <2>1, <2>2, <2>3, <2>4 DEF Submit
<1>6. ASSUME NEW n \in Starts, StartServed(n) PROVE TypeOK'
  BY <1>6 DEF StartServed, NoEntry
<1>7. ASSUME NEW n \in Starts, StartRefused(n) PROVE TypeOK'
  BY <1>7 DEF StartRefused
<1>8. ASSUME NEW n \in Starts, StartAnswer(n) PROVE TypeOK'
  BY <1>8 DEF StartAnswer
<1>9. ASSUME NEW n \in Starts, StartFails(n) PROVE TypeOK'
  BY <1>9 DEF StartFails, ShowError
<1>10. ASSUME NEW n \in Starts, Cancel(n) PROVE TypeOK'
  BY <1>10 DEF Cancel
<1>11. ASSUME NEW n \in Starts, CancelServed(n) PROVE TypeOK'
  <2>1. cancel' \in [Starts -> {"none", "sent", "posting", "accepted", "refused"}]
    BY <1>11 DEF CancelServed, Answer
  <2>2. entry' \in [job : Starts \cup {NoJob}, end : {"processing"} \cup Ends,
                   cancelRequested : BOOLEAN]
    <3>1. entry' = [entry EXCEPT !.cancelRequested = TRUE] \/ entry' = entry
      BY <1>11 DEF CancelServed
    <3> QED BY <3>1
  <2> QED BY <1>11, <2>1, <2>2 DEF CancelServed
<1>12. ASSUME NEW n \in Starts, CancelPosted(n) PROVE TypeOK'
  <2>1. cancel' \in [Starts -> {"none", "sent", "posting", "accepted", "refused"}]
    BY <1>12 DEF CancelPosted, Answer
  <2>2. asked' \subseteq Starts
    BY <1>12 DEF CancelPosted
  <2>3. entry' \in [job : Starts \cup {NoJob}, end : {"processing"} \cup Ends,
                   cancelRequested : BOOLEAN]
    BY <1>12 DEF CancelPosted
  <2> QED BY <1>12, <2>1, <2>2, <2>3 DEF CancelPosted
<1>13. ASSUME NEW n \in Starts, CancelAnswer(n) PROVE TypeOK'
  BY <1>13 DEF CancelAnswer, ShowError
<1>14. ASSUME NEW n \in Starts, Tick(n) PROVE TypeOK'
  BY <1>14 DEF Tick
<1>15. ASSUME NEW n \in Starts, ServerEnds(n) PROVE TypeOK'
  BY <1>15 DEF ServerEnds
<1>16. ASSUME NEW p \in polls, PollServed(p) PROVE TypeOK'
  BY <1>16, PollParts DEF PollServed
<1>17. ASSUME NEW p \in polls, PollDropped(p) PROVE TypeOK'
  BY <1>17, PollParts DEF PollDropped
<1>18. ASSUME NEW p \in polls, PollAnswer(p) PROVE TypeOK'
  <2>1. polls' \subseteq polls /\ UNCHANGED <<open, currentJobId, cancelGrey, waiting, worker, backend>>
    BY <1>18 DEF PollAnswer
  <2>2. CASE Shows(p)
    <3>1. p[1] \in Starts /\ Section(p[2]) \in Outcomes
      BY <2>2, PollParts DEF Shows, Section
    <3>2. sections' \subseteq sections \cup {Section(p[2])} /\ download' \in {download, p[1]}
      BY <1>18, <2>2 DEF PollAnswer
    <3>3. interval' = NoJob /\ submitEnabled' = TRUE
      BY <1>18, <2>2 DEF PollAnswer
    <3>4. disturbed' \subseteq disturbed \cup {"late"}
      BY <1>18, <2>2 DEF PollAnswer
    <3> QED BY <2>1, <3>1, <3>2, <3>3, <3>4
  <2>3. CASE ~Shows(p)
    BY <1>18, <2>1, <2>3 DEF PollAnswer
  <2> QED BY <2>2, <2>3
<1>19. CASE UNCHANGED vars
  BY <1>19 DEF vars
<1> QED BY <1>1, <1>2, <1>3, <1>4, <1>5, <1>6, <1>7, <1>8, <1>9, <1>10, <1>11, <1>12,
           <1>13, <1>14, <1>15, <1>16, <1>17, <1>18, <1>19 DEF Next

(* Nothing happens in a closed popup.                                      *)
LEMMA ClosedStep == TypeOK /\ ClosedIsEmpty /\ [Next]_vars => ClosedIsEmpty'
<1> SUFFICES ASSUME TypeOK /\ ClosedIsEmpty, [Next]_vars PROVE ClosedIsEmpty'
  OBVIOUS
<1> USE PopupConstants DEF TypeOK, ClosedIsEmpty, jobView, buttons, dom, worker, backend, Ends, Outcomes
<1>1. CASE Open
  BY <1>1 DEF Open
<1>2. CASE Close
  BY <1>2 DEF Close
<1>3. CASE UrlInput
  BY <1>3 DEF UrlInput
<1>4. CASE WorkerLearns
  BY <1>4 DEF WorkerLearns
<1>5. ASSUME NEW n \in Starts, Submit(n) PROVE ClosedIsEmpty'
  BY <1>5 DEF Submit
<1>6. ASSUME NEW n \in Starts, StartServed(n) PROVE ClosedIsEmpty'
  BY <1>6 DEF StartServed, NoEntry
<1>7. ASSUME NEW n \in Starts, StartRefused(n) PROVE ClosedIsEmpty'
  BY <1>7 DEF StartRefused
<1>8. ASSUME NEW n \in Starts, StartAnswer(n) PROVE ClosedIsEmpty'
  BY <1>8 DEF StartAnswer
<1>9. ASSUME NEW n \in Starts, StartFails(n) PROVE ClosedIsEmpty'
  BY <1>9 DEF StartFails, ShowError
<1>10. ASSUME NEW n \in Starts, Cancel(n) PROVE ClosedIsEmpty'
  BY <1>10 DEF Cancel
<1>11. ASSUME NEW n \in Starts, CancelServed(n) PROVE ClosedIsEmpty'
  BY <1>11 DEF CancelServed, Answer
<1>12. ASSUME NEW n \in Starts, CancelPosted(n) PROVE ClosedIsEmpty'
  BY <1>12 DEF CancelPosted, Answer
<1>13. ASSUME NEW n \in Starts, CancelAnswer(n) PROVE ClosedIsEmpty'
  BY <1>13 DEF CancelAnswer, ShowError
<1>14. ASSUME NEW n \in Starts, Tick(n) PROVE ClosedIsEmpty'
  BY <1>14 DEF Tick
<1>15. ASSUME NEW n \in Starts, ServerEnds(n) PROVE ClosedIsEmpty'
  BY <1>15 DEF ServerEnds
<1>16. ASSUME NEW p \in polls, PollServed(p) PROVE ClosedIsEmpty'
  BY <1>16, PollParts DEF PollServed
<1>17. ASSUME NEW p \in polls, PollDropped(p) PROVE ClosedIsEmpty'
  BY <1>17, PollParts DEF PollDropped
<1>18. ASSUME NEW p \in polls, PollAnswer(p) PROVE ClosedIsEmpty'
  BY <1>18, PollParts DEF PollAnswer, Shows, Section
<1>19. CASE UNCHANGED vars
  BY <1>19 DEF vars
<1> QED BY <1>1, <1>2, <1>3, <1>4, <1>5, <1>6, <1>7, <1>8, <1>9, <1>10, <1>11, <1>12,
           <1>13, <1>14, <1>15, <1>16, <1>17, <1>18, <1>19 DEF Next

(* Answers stay true: only a running job ends.                             *)
LEMMA HeardStep == TypeOK /\ Heard /\ [Next]_vars => Heard'
<1> SUFFICES ASSUME TypeOK /\ Heard, [Next]_vars PROVE Heard'
  OBVIOUS
<1> USE PopupConstants DEF TypeOK, Heard, jobView, buttons, dom, worker, backend, Ends, Outcomes
<1>1. CASE Open
  BY <1>1 DEF Open
<1>2. CASE Close
  BY <1>2 DEF Close
<1>3. CASE UrlInput
  BY <1>3 DEF UrlInput
<1>4. CASE WorkerLearns
  BY <1>4 DEF WorkerLearns
<1>5. ASSUME NEW n \in Starts, Submit(n) PROVE Heard'
  BY <1>5 DEF Submit
<1>6. ASSUME NEW n \in Starts, StartServed(n) PROVE Heard'
  BY <1>6 DEF StartServed, NoEntry
<1>7. ASSUME NEW n \in Starts, StartRefused(n) PROVE Heard'
  BY <1>7 DEF StartRefused
<1>8. ASSUME NEW n \in Starts, StartAnswer(n) PROVE Heard'
  BY <1>8 DEF StartAnswer
<1>9. ASSUME NEW n \in Starts, StartFails(n) PROVE Heard'
  BY <1>9 DEF StartFails, ShowError
<1>10. ASSUME NEW n \in Starts, Cancel(n) PROVE Heard'
  BY <1>10 DEF Cancel
<1>11. ASSUME NEW n \in Starts, CancelServed(n) PROVE Heard'
  BY <1>11 DEF CancelServed, Answer
<1>12. ASSUME NEW n \in Starts, CancelPosted(n) PROVE Heard'
  BY <1>12 DEF CancelPosted, Answer
<1>13. ASSUME NEW n \in Starts, CancelAnswer(n) PROVE Heard'
  BY <1>13 DEF CancelAnswer, ShowError
<1>14. ASSUME NEW n \in Starts, Tick(n) PROVE Heard'
  BY <1>14 DEF Tick
<1>15. ASSUME NEW n \in Starts, ServerEnds(n) PROVE Heard'
  BY <1>15 DEF ServerEnds
<1>16. ASSUME NEW p \in polls, PollServed(p) PROVE Heard'
  BY <1>16, PollParts DEF PollServed
<1>17. ASSUME NEW p \in polls, PollDropped(p) PROVE Heard'
  BY <1>17, PollParts DEF PollDropped
<1>18. ASSUME NEW p \in polls, PollAnswer(p) PROVE Heard'
  BY <1>18, PollParts DEF PollAnswer, Shows, Section
<1>19. CASE UNCHANGED vars
  BY <1>19 DEF vars
<1> QED BY <1>1, <1>2, <1>3, <1>4, <1>5, <1>6, <1>7, <1>8, <1>9, <1>10, <1>11, <1>12,
           <1>13, <1>14, <1>15, <1>16, <1>17, <1>18, <1>19 DEF Next

(* The end that is shown is true, and comes before the next START.         *)
LEMMA DownloadStep == PopupInv /\ [Next]_vars => DownloadInv'
<1> SUFFICES ASSUME PopupInv, [Next]_vars PROVE DownloadInv'
  OBVIOUS
<1> USE PopupConstants DEF PopupInv, TypeOK, ClosedIsEmpty, DownloadInv, jobView, buttons, dom, worker, backend, Ends, Outcomes
<1>1. CASE Open
  <2>1. ~Starting'
    BY <1>1 DEF Open, Starting
  <2>2. ~(entry.job # NoJob /\ entry.end = "processing") => interval' = NoJob
    BY <1>1 DEF Open
  <2>3. CASE entry.job # NoJob /\ entry.end = "completed"
    <3>1. sections' = {"progress", "download"} /\ download' = entry.job /\ currentJobId' = entry.job
      BY <1>1, <2>3 DEF Open
    <3>2. server'[entry.job] = "completed" /\ entry.job \in Starts
      BY <1>1, <2>3 DEF Open, Heard
    <3> QED BY <2>1, <2>2, <2>3, <3>1, <3>2
  <2>4. CASE ~(entry.job # NoJob /\ entry.end = "completed")
    <3>1. "download" \notin sections'
      BY <1>1, <2>4 DEF Open
    <3>2. interval' # NoJob => sections' = {"progress"}
      BY <1>1, <2>2 DEF Open
    <3> QED BY <2>1, <3>1, <3>2
  <2> QED BY <2>3, <2>4
<1>2. CASE Close
  BY <1>2 DEF Close, Starting
<1>3. CASE UrlInput
  BY <1>3 DEF UrlInput, Starting
<1>4. CASE WorkerLearns
  BY <1>4 DEF WorkerLearns, Starting
<1>5. ASSUME NEW n \in Starts, Submit(n) PROVE DownloadInv'
  BY <1>5 DEF Submit, Starting
<1>6. ASSUME NEW n \in Starts, StartServed(n) PROVE DownloadInv'
  <2>1. server[n] = "none" /\ server' = [server EXCEPT ![n] = "running"]
    BY <1>6 DEF StartServed, Heard
  <2>2. UNCHANGED <<disturbed, sections, download, currentJobId, interval, waiting>>
    BY <1>6 DEF StartServed
  <2> QED BY <2>1, <2>2 DEF Starting
<1>7. ASSUME NEW n \in Starts, StartRefused(n) PROVE DownloadInv'
  BY <1>7 DEF StartRefused, Starting
<1>8. ASSUME NEW n \in Starts, StartAnswer(n) PROVE DownloadInv'
  BY <1>8 DEF StartAnswer, Starting
<1>9. ASSUME NEW n \in Starts, StartFails(n) PROVE DownloadInv'
  BY <1>9 DEF StartFails, ShowError, Starting
<1>10. ASSUME NEW n \in Starts, Cancel(n) PROVE DownloadInv'
  BY <1>10 DEF Cancel, Starting
<1>11. ASSUME NEW n \in Starts, CancelServed(n) PROVE DownloadInv'
  BY <1>11 DEF CancelServed, Answer, Starting
<1>12. ASSUME NEW n \in Starts, CancelPosted(n) PROVE DownloadInv'
  BY <1>12 DEF CancelPosted, Answer, Starting
<1>13. ASSUME NEW n \in Starts, CancelAnswer(n) PROVE DownloadInv'
  <2>1. ("late" \in disturbed' <=> "late" \in disturbed) /\ (Starting' => Starting)
    <3>1. disturbed' = disturbed \/ disturbed' = disturbed \cup {"covered"}
      BY <1>13 DEF CancelAnswer
    <3>2. waiting' \subseteq waiting
      BY <1>13 DEF CancelAnswer
    <3> QED BY <3>1, <3>2 DEF Starting
  <2>2. \A x \in {"download", "cancelled"} : x \in sections' <=> x \in sections
    BY <1>13 DEF CancelAnswer, ShowError
  <2>3. UNCHANGED <<currentJobId, interval, download, server>>
    BY <1>13 DEF CancelAnswer
  <2> QED BY <2>1, <2>2, <2>3
<1>14. ASSUME NEW n \in Starts, Tick(n) PROVE DownloadInv'
  BY <1>14 DEF Tick, Starting
<1>15. ASSUME NEW n \in Starts, ServerEnds(n) PROVE DownloadInv'
  BY <1>15 DEF ServerEnds, Starting
<1>16. ASSUME NEW p \in polls, PollServed(p) PROVE DownloadInv'
  BY <1>16, PollParts DEF PollServed, Starting
<1>17. ASSUME NEW p \in polls, PollDropped(p) PROVE DownloadInv'
  BY <1>17, PollParts DEF PollDropped, Starting
<1>18. ASSUME NEW p \in polls, PollAnswer(p) PROVE DownloadInv'
  <2>1. CASE Shows(p)
    <3>1. p[1] = currentJobId /\ p[1] \in Starts /\ server[p[1]] = p[2] /\ p[2] \in Ends
      BY <2>1, PollParts DEF Shows, Heard
    <3>2. UNCHANGED <<currentJobId, server, waiting>> /\ (Starting' <=> Starting)
      BY <1>18 DEF PollAnswer, Starting
    <3>3. "late" \notin disturbed' =>
            /\ "late" \notin disturbed /\ ~Starting
            /\ interval # NoJob \/ Section(p[2]) \in sections
      BY <1>18, <2>1 DEF PollAnswer
    <3>4. interval' = NoJob
      BY <1>18, <2>1 DEF PollAnswer
    <3>5. CASE p[2] = "completed"
      <4>1. download' = p[1] /\ sections' = sections \cup {"download"} /\ Section(p[2]) = "download"
        BY <1>18, <2>1, <3>5 DEF PollAnswer, Section
      <4> QED BY <3>1, <3>2, <3>3, <3>4, <3>5, <4>1
    <3>6. CASE p[2] # "completed"
      <4>1. download' = download /\ sections' = (sections \ {"progress"}) \cup {p[2]} /\ Section(p[2]) = p[2]
        BY <1>18, <2>1, <3>6 DEF PollAnswer, Section
      <4> QED BY <3>1, <3>2, <3>3, <3>4, <3>6, <4>1
    <3> QED BY <3>5, <3>6
  <2>2. CASE ~Shows(p)
    BY <1>18, <2>2, PollParts DEF PollAnswer, Starting
  <2> QED BY <2>1, <2>2
<1>19. CASE UNCHANGED vars
  BY <1>19 DEF vars, Starting
<1> QED BY <1>1, <1>2, <1>3, <1>4, <1>5, <1>6, <1>7, <1>8, <1>9, <1>10, <1>11, <1>12,
           <1>13, <1>14, <1>15, <1>16, <1>17, <1>18, <1>19 DEF Next

(* An outcome ends the polling, and a submission clears the outcomes.      *)
LEMMA OutcomeStep == PopupInv /\ [Next]_vars => OutcomeInv'
<1> SUFFICES ASSUME PopupInv, [Next]_vars PROVE OutcomeInv'
  OBVIOUS
<1> USE PopupConstants DEF PopupInv, TypeOK, ClosedIsEmpty, OutcomeInv, jobView, buttons, dom, worker, backend, Ends, Outcomes
<1>1. CASE Open
  BY <1>1 DEF Open, Starting, Heard
<1>2. CASE Close
  BY <1>2 DEF Close, Starting
<1>3. CASE UrlInput
  BY <1>3 DEF UrlInput, Starting
<1>4. CASE WorkerLearns
  BY <1>4 DEF WorkerLearns, Starting
<1>5. ASSUME NEW n \in Starts, Submit(n) PROVE OutcomeInv'
  BY <1>5 DEF Submit, Starting
<1>6. ASSUME NEW n \in Starts, StartServed(n) PROVE OutcomeInv'
  BY <1>6 DEF StartServed, NoEntry, Starting
<1>7. ASSUME NEW n \in Starts, StartRefused(n) PROVE OutcomeInv'
  BY <1>7 DEF StartRefused, Starting
<1>8. ASSUME NEW n \in Starts, StartAnswer(n) PROVE OutcomeInv'
  BY <1>8 DEF StartAnswer, Starting
<1>9. ASSUME NEW n \in Starts, StartFails(n) PROVE OutcomeInv'
  BY <1>9 DEF StartFails, ShowError, Starting
<1>10. ASSUME NEW n \in Starts, Cancel(n) PROVE OutcomeInv'
  BY <1>10 DEF Cancel, Starting
<1>11. ASSUME NEW n \in Starts, CancelServed(n) PROVE OutcomeInv'
  BY <1>11 DEF CancelServed, Answer, Starting
<1>12. ASSUME NEW n \in Starts, CancelPosted(n) PROVE OutcomeInv'
  BY <1>12 DEF CancelPosted, Answer, Starting
<1>13. ASSUME NEW n \in Starts, CancelAnswer(n) PROVE OutcomeInv'
  BY <1>13 DEF CancelAnswer, ShowError, Starting
<1>14. ASSUME NEW n \in Starts, Tick(n) PROVE OutcomeInv'
  BY <1>14 DEF Tick, Starting
<1>15. ASSUME NEW n \in Starts, ServerEnds(n) PROVE OutcomeInv'
  BY <1>15 DEF ServerEnds, Starting
<1>16. ASSUME NEW p \in polls, PollServed(p) PROVE OutcomeInv'
  BY <1>16, PollParts DEF PollServed, Starting
<1>17. ASSUME NEW p \in polls, PollDropped(p) PROVE OutcomeInv'
  BY <1>17, PollParts DEF PollDropped, Starting
<1>18. ASSUME NEW p \in polls, PollAnswer(p) PROVE OutcomeInv'
  <2>1. CASE Shows(p)
    <3>1. (Starting' <=> Starting) /\ interval' = NoJob /\ p[2] \in Ends
      BY <1>18, <2>1 DEF PollAnswer, Shows, Section, Starting
    <3>2. disturbed' \cap {"late", "covered"} = {} =>
            /\ disturbed \cap {"late", "covered"} = {}
            /\ ~Starting /\ (interval # NoJob \/ Section(p[2]) \in sections)
      BY <1>18, <2>1 DEF PollAnswer
    <3>3. sections' \subseteq sections \cup {Section(p[2])}
      BY <1>18, <2>1 DEF PollAnswer
    <3>4. ASSUME sections \cap Outcomes = {}
          PROVE  \A a, b \in sections' \cap Outcomes : a = b
      <4>1. \A a \in sections' \cap Outcomes : a \notin sections
        BY <3>4
      <4> QED BY <3>3, <4>1
    <3>5. ASSUME Section(p[2]) \in sections
          PROVE  sections' \subseteq sections
      BY <3>3, <3>5
    <3> QED BY <3>1, <3>2, <3>4, <3>5
  <2>2. CASE ~Shows(p)
    BY <1>18, <2>2, PollParts DEF PollAnswer, Starting
  <2> QED BY <2>1, <2>2
<1>19. CASE UNCHANGED vars
  BY <1>19 DEF vars, Starting
<1> QED BY <1>1, <1>2, <1>3, <1>4, <1>5, <1>6, <1>7, <1>8, <1>9, <1>10, <1>11, <1>12,
           <1>13, <1>14, <1>15, <1>16, <1>17, <1>18, <1>19 DEF Next

(* What enables the button ends the polling, or is on record.              *)
LEMMA OnceStep == PopupInv /\ [Next]_vars => SubmittedOnce'
<1> SUFFICES ASSUME PopupInv, [Next]_vars PROVE SubmittedOnce'
  OBVIOUS
<1> USE PopupConstants DEF PopupInv, TypeOK, ClosedIsEmpty, SubmittedOnce, jobView, buttons, dom, worker, backend, Ends, Outcomes
<1>1. CASE Open
  BY <1>1 DEF Open, Starting
<1>2. CASE Close
  BY <1>2 DEF Close, Starting
<1>3. CASE UrlInput
  BY <1>3 DEF UrlInput, Starting
<1>4. CASE WorkerLearns
  BY <1>4 DEF WorkerLearns, Starting
<1>5. ASSUME NEW n \in Starts, Submit(n) PROVE SubmittedOnce'
  BY <1>5 DEF Submit, Starting
<1>6. ASSUME NEW n \in Starts, StartServed(n) PROVE SubmittedOnce'
  BY <1>6 DEF StartServed, NoEntry, Starting
<1>7. ASSUME NEW n \in Starts, StartRefused(n) PROVE SubmittedOnce'
  BY <1>7 DEF StartRefused, Starting
<1>8. ASSUME NEW n \in Starts, StartAnswer(n) PROVE SubmittedOnce'
  BY <1>8 DEF StartAnswer, Starting
<1>9. ASSUME NEW n \in Starts, StartFails(n) PROVE SubmittedOnce'
  BY <1>9 DEF StartFails, ShowError, Starting
<1>10. ASSUME NEW n \in Starts, Cancel(n) PROVE SubmittedOnce'
  BY <1>10 DEF Cancel, Starting
<1>11. ASSUME NEW n \in Starts, CancelServed(n) PROVE SubmittedOnce'
  BY <1>11 DEF CancelServed, Answer, Starting
<1>12. ASSUME NEW n \in Starts, CancelPosted(n) PROVE SubmittedOnce'
  BY <1>12 DEF CancelPosted, Answer, Starting
<1>13. ASSUME NEW n \in Starts, CancelAnswer(n) PROVE SubmittedOnce'
  BY <1>13 DEF CancelAnswer, ShowError, Starting
<1>14. ASSUME NEW n \in Starts, Tick(n) PROVE SubmittedOnce'
  BY <1>14 DEF Tick, Starting
<1>15. ASSUME NEW n \in Starts, ServerEnds(n) PROVE SubmittedOnce'
  BY <1>15 DEF ServerEnds, Starting
<1>16. ASSUME NEW p \in polls, PollServed(p) PROVE SubmittedOnce'
  BY <1>16, PollParts DEF PollServed, Starting
<1>17. ASSUME NEW p \in polls, PollDropped(p) PROVE SubmittedOnce'
  BY <1>17, PollParts DEF PollDropped, Starting
<1>18. ASSUME NEW p \in polls, PollAnswer(p) PROVE SubmittedOnce'
  BY <1>18, PollParts DEF PollAnswer, Shows, Section, Starting
<1>19. CASE UNCHANGED vars
  BY <1>19 DEF vars, Starting
<1> QED BY <1>1, <1>2, <1>3, <1>4, <1>5, <1>6, <1>7, <1>8, <1>9, <1>10, <1>11, <1>12,
           <1>13, <1>14, <1>15, <1>16, <1>17, <1>18, <1>19 DEF Next

(* The flag of an entry is set with the request and taken back when it     *)
(* fails.                                                                  *)
LEMMA FlagStep == PopupInv /\ [Next]_vars => FlagInv'
<1> SUFFICES ASSUME PopupInv, [Next]_vars PROVE FlagInv'
  OBVIOUS
<1> USE PopupConstants DEF PopupInv, TypeOK, ClosedIsEmpty, FlagInv, jobView, buttons, dom, worker, backend, Ends, Outcomes
<1>1. CASE Open
  BY <1>1 DEF Open
<1>2. CASE Close
  BY <1>2 DEF Close
<1>3. CASE UrlInput
  BY <1>3 DEF UrlInput
<1>4. CASE WorkerLearns
  BY <1>4 DEF WorkerLearns
<1>5. ASSUME NEW n \in Starts, Submit(n) PROVE FlagInv'
  BY <1>5 DEF Submit
<1>6. ASSUME NEW n \in Starts, StartServed(n) PROVE FlagInv'
  BY <1>6 DEF StartServed, NoEntry
<1>7. ASSUME NEW n \in Starts, StartRefused(n) PROVE FlagInv'
  BY <1>7 DEF StartRefused
<1>8. ASSUME NEW n \in Starts, StartAnswer(n) PROVE FlagInv'
  BY <1>8 DEF StartAnswer
<1>9. ASSUME NEW n \in Starts, StartFails(n) PROVE FlagInv'
  BY <1>9 DEF StartFails, ShowError
<1>10. ASSUME NEW n \in Starts, Cancel(n) PROVE FlagInv'
  BY <1>10 DEF Cancel
<1>11. ASSUME NEW n \in Starts, CancelServed(n) PROVE FlagInv'
  BY <1>11 DEF CancelServed, Answer
<1>12. ASSUME NEW n \in Starts, CancelPosted(n) PROVE FlagInv'
  BY <1>12 DEF CancelPosted, Answer
<1>13. ASSUME NEW n \in Starts, CancelAnswer(n) PROVE FlagInv'
  BY <1>13 DEF CancelAnswer
<1>14. ASSUME NEW n \in Starts, Tick(n) PROVE FlagInv'
  BY <1>14 DEF Tick
<1>15. ASSUME NEW n \in Starts, ServerEnds(n) PROVE FlagInv'
  BY <1>15 DEF ServerEnds
<1>16. ASSUME NEW p \in polls, PollServed(p) PROVE FlagInv'
  BY <1>16, PollParts DEF PollServed
<1>17. ASSUME NEW p \in polls, PollDropped(p) PROVE FlagInv'
  BY <1>17, PollParts DEF PollDropped
<1>18. ASSUME NEW p \in polls, PollAnswer(p) PROVE FlagInv'
  BY <1>18, PollParts DEF PollAnswer, Shows, Section
<1>19. CASE UNCHANGED vars
  BY <1>19 DEF vars
<1> QED BY <1>1, <1>2, <1>3, <1>4, <1>5, <1>6, <1>7, <1>8, <1>9, <1>10, <1>11, <1>12,
           <1>13, <1>14, <1>15, <1>16, <1>17, <1>18, <1>19 DEF Next

(* A START leaves the button enabled; a refusal enables it again.          *)
LEMMA GreyStep == PopupInv /\ [Next]_vars => GreyInv'
<1> SUFFICES ASSUME PopupInv, [Next]_vars PROVE GreyInv'
  OBVIOUS
<1> USE PopupConstants DEF PopupInv, TypeOK, ClosedIsEmpty, GreyInv, jobView, buttons, dom, worker, backend, Ends, Outcomes
<1>1. CASE Open
  BY <1>1 DEF Open, Starting, FlagInv
<1>2. CASE Close
  BY <1>2 DEF Close, Starting
<1>3. CASE UrlInput
  BY <1>3 DEF UrlInput, Starting
<1>4. CASE WorkerLearns
  BY <1>4 DEF WorkerLearns, Starting
<1>5. ASSUME NEW n \in Starts, Submit(n) PROVE GreyInv'
  BY <1>5 DEF Submit, Starting
<1>6. ASSUME NEW n \in Starts, StartServed(n) PROVE GreyInv'
  BY <1>6 DEF StartServed, NoEntry, Starting
<1>7. ASSUME NEW n \in Starts, StartRefused(n) PROVE GreyInv'
  BY <1>7 DEF StartRefused, Starting
<1>8. ASSUME NEW n \in Starts, StartAnswer(n) PROVE GreyInv'
  BY <1>8 DEF StartAnswer, Starting
<1>9. ASSUME NEW n \in Starts, StartFails(n) PROVE GreyInv'
  BY <1>9 DEF StartFails, ShowError, Starting
<1>10. ASSUME NEW n \in Starts, Cancel(n) PROVE GreyInv'
  BY <1>10 DEF Cancel, Starting
<1>11. ASSUME NEW n \in Starts, CancelServed(n) PROVE GreyInv'
  <2>1. cancel[n] # "posting" /\ \A m \in Starts : m # n => cancel'[m] = cancel[m]
    BY <1>11 DEF CancelServed, Answer
  <2>2. /\ Starting' <=> Starting
        /\ UNCHANGED <<waiting, currentJobId, cancelGrey, asked, disturbed>>
    BY <1>11 DEF CancelServed, Starting
  <2> QED BY <2>1, <2>2
<1>12. ASSUME NEW n \in Starts, CancelPosted(n) PROVE GreyInv'
  <2>1. \A m \in Starts : m # n => cancel'[m] = cancel[m]
    BY <1>12 DEF CancelPosted, Answer
  <2>2. (Starting' <=> Starting) /\ UNCHANGED <<waiting, currentJobId, cancelGrey>>
    BY <1>12 DEF CancelPosted, Starting
  <2>3. CASE asked' = asked \cup {n} /\ disturbed' = disturbed
    BY <2>1, <2>2, <2>3
  <2>4. CASE /\ asked' = asked
             /\ disturbed' = IF currentJobId = n /\ cancelGrey /\ <<"cancel", n>> \notin waiting
                             THEN disturbed \cup {"orphaned"} ELSE disturbed
    BY <2>1, <2>2, <2>4
  <2> QED BY <1>12, <2>3, <2>4 DEF CancelPosted
<1>13. ASSUME NEW n \in Starts, CancelAnswer(n) PROVE GreyInv'
  <2>1. CASE cancel[n] = "accepted"
    <3>1. n \in asked /\ UNCHANGED <<currentJobId, cancelGrey, asked, disturbed>>
      BY <1>13, <2>1 DEF CancelAnswer, Heard
    <3>2. \A m \in Starts : m # n => cancel'[m] = cancel[m]
      BY <1>13 DEF CancelAnswer
    <3>3. waiting' = waiting \ {<<"cancel", n>>} /\ (Starting' => Starting)
      BY <1>13 DEF CancelAnswer, Starting
    <3> QED BY <3>1, <3>2, <3>3
  <2>2. CASE cancel[n] # "accepted"
    BY <1>13, <2>2 DEF CancelAnswer, ShowError, Starting, Heard
  <2> QED BY <2>1, <2>2
<1>14. ASSUME NEW n \in Starts, Tick(n) PROVE GreyInv'
  BY <1>14 DEF Tick, Starting
<1>15. ASSUME NEW n \in Starts, ServerEnds(n) PROVE GreyInv'
  BY <1>15 DEF ServerEnds, Starting
<1>16. ASSUME NEW p \in polls, PollServed(p) PROVE GreyInv'
  BY <1>16, PollParts DEF PollServed, Starting
<1>17. ASSUME NEW p \in polls, PollDropped(p) PROVE GreyInv'
  BY <1>17, PollParts DEF PollDropped, Starting
<1>18. ASSUME NEW p \in polls, PollAnswer(p) PROVE GreyInv'
  BY <1>18, PollParts DEF PollAnswer, Shows, Section, Starting
<1>19. CASE UNCHANGED vars
  BY <1>19 DEF vars, Starting
<1> QED BY <1>1, <1>2, <1>3, <1>4, <1>5, <1>6, <1>7, <1>8, <1>9, <1>10, <1>11, <1>12,
           <1>13, <1>14, <1>15, <1>16, <1>17, <1>18, <1>19 DEF Next

LEMMA PopupStep == PopupInv /\ [Next]_vars => PopupInv'
BY TypeStep, ClosedStep, HeardStep, DownloadStep, OutcomeStep, OnceStep, FlagStep, GreyStep
   DEF PopupInv

LEMMA PopupAlways == Spec => []PopupInv
BY PopupInit, PopupStep, PTL DEF Spec

(* Two members at most one apart are one.                                  *)
LEMMA OneAtMost ==
    ASSUME NEW S, \A a, b \in S : a = b
    PROVE  Cardinality(S) <= 1
<1>1. CASE S = {}
  BY <1>1, FS_EmptySet
<1>2. CASE S # {}
  <2>1. PICK a \in S : S = {a}
    BY <1>2
  <2> QED BY <2>1, FS_Singleton
<1> QED BY <1>1, <1>2

(* The state of the popup keeps its type: it polls the current job or none.*)
THEOREM TypeCorrect == Spec => []TypeOK
<1>1. PopupInv => TypeOK
  BY DEF PopupInv
<1> QED BY <1>1, PopupAlways, PTL

(* The download button opens the ZIP of a completed job, and of the        *)
(* current one unless an end was shown during a START or after the polling *)
(* had stopped, since the popup was opened or last submitted.              *)
THEOREM DownloadsCurrent == Spec => []DownloadIsCurrent
<1>1. PopupInv => DownloadIsCurrent
  BY PopupConstants DEF PopupInv, DownloadInv, DownloadIsCurrent
<1> QED BY <1>1, PopupAlways, PTL

(* Unless an end was shown late in that sense, a download and a            *)
(* cancellation are not told together nor during a START; and unless an    *)
(* error was put over a job, no two outcomes are, and no outcome is told   *)
(* during a START.                                                         *)
THEOREM OutcomesAlone == Spec => []OneOutcome
<1>1. PopupInv => OneOutcome
  BY OneAtMost DEF PopupInv, DownloadInv, OutcomeInv, OneOutcome
<1> QED BY <1>1, PopupAlways, PTL

(* A job is not submitted a second time while it is started or polled,     *)
(* unless the URL was edited, or an error put over the job or a late end   *)
(* enabled the button.                                                     *)
THEOREM SubmitsOnce == Spec => []SubmittedOnce
<1>1. PopupInv => SubmittedOnce
  BY DEF PopupInv
<1> QED BY <1>1, PopupAlways, PTL

(* A grey cancel button stands for a request to cancel the current job,    *)
(* through closing and reopening, unless the request failed with the popup *)
(* that made it closed, or was made while a START was under way.           *)
THEOREM GreyIsAsked == Spec => []GreyMeansAsked
<1>1. PopupInv => GreyMeansAsked
  BY DEF PopupInv, TypeOK, Heard, GreyInv, GreyMeansAsked
<1> QED BY <1>1, PopupAlways, PTL
=============================================================================
