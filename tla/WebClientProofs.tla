---------------------------- MODULE WebClientProofs ----------------------------
(***************************************************************************)
(* The web page, for any number of submissions and of overlapping polls.   *)
(***************************************************************************)
EXTENDS WebClient, TLAPS

(* The POST of a submission is under way.                                  *)
Posting(n) == submit[n] \in {"sent", "accepted"}

(* What the page has heard of a job is true of it, and stays so: a job     *)
(* ends once.                                                              *)
Heard ==
    /\ \A n \in Submits : submit[n] \in {"new", "sent"} => server[n] = "none"
    /\ \A n \in Submits : submit[n] = "accepted" => server[n] # "none"
    /\ jobId # NoJob => server[jobId] # "none"
    /\ \A p \in polls : server[p[1]] # "none" /\ (p[2] \in Ends => server[p[1]] = p[2])
    /\ \A n \in Submits : cancel[n] = "accepted" => n \in asked

Asked(m) == m \in asked \/ cancel[m] # "none"

(* A job that has not lost the page is shown with its progress, or         *)
(* completed by an end on the page.                                        *)
ShownInPlace ==
    (jobId # NoJob /\ jobId \notin displaced) =>
        \/ appState = "processing"
        \/ appState = "completed" /\ "completed" \in ends

(* A submission that has not lost the page is the only one, is made beside *)
(* no job but one that has, and a button grey since is of such a job.      *)
PostedInPlace ==
    \A n \in Submits : (Posting(n) /\ n \notin displaced) =>
        /\ appState = "processing"
        /\ jobId \in displaced \cup {NoJob}
        /\ \A m \in Submits : Posting(m) => m = n \/ m \in displaced
        /\ cancelInFlight => \E m \in displaced : Asked(m)

WebInv ==
    /\ TypeOK /\ Heard /\ ShownInPlace /\ PostedInPlace
    /\ EndIsOwn /\ StoppedMeansShown /\ GreyMeansAsked

LEMMA PollParts ==
    ASSUME TypeOK, NEW p \in polls
    PROVE  p[1] \in Submits /\ p[2] \in {"sent", "running"} \cup Ends
BY DEF TypeOK

LEMMA WebInit == Init => WebInv
BY WebClientConstants DEF Init, WebInv, TypeOK, Heard, ShownInPlace, PostedInPlace, Posting, Ends,
   EndIsOwn, StoppedMeansShown, GreyMeansAsked

(* Every step keeps the types, by what the answers under way are true of. *)
LEMMA TypeStep == TypeOK /\ Heard /\ [Next]_vars => TypeOK'
<1> SUFFICES ASSUME TypeOK, Heard, [Next]_vars PROVE TypeOK'
  OBVIOUS
<1> USE WebClientConstants DEF TypeOK, page, hook, backend, mixed, history, Ends
<1>1. CASE Reset
  BY <1>1 DEF Reset, Away
<1>2. ASSUME NEW n \in Submits, Submit(n) PROVE TypeOK'
  BY <1>2 DEF Submit, Rendered, Away
<1>3. ASSUME NEW n \in Submits, SubmitServed(n) PROVE TypeOK'
  BY <1>3 DEF SubmitServed, Heard
<1>4. ASSUME NEW n \in Submits, SubmitAnswer(n) PROVE TypeOK'
  BY <1>4 DEF SubmitAnswer
<1>5. ASSUME NEW n \in Submits, SubmitFails(n) PROVE TypeOK'
  BY <1>5 DEF SubmitFails, Away
<1>6. ASSUME NEW n \in Submits, Cancel(n) PROVE TypeOK'
  BY <1>6 DEF Cancel
<1>7. ASSUME NEW n \in Submits, CancelServed(n) PROVE TypeOK'
  BY <1>7 DEF CancelServed
<1>8. ASSUME NEW n \in Submits, CancelAnswer(n) \/ CancelFails(n) PROVE TypeOK'
  BY <1>8 DEF CancelAnswer, CancelFails
<1>9. ASSUME NEW n \in Submits, Tick(n) PROVE TypeOK'
  BY <1>9 DEF Tick
<1>10. ASSUME NEW n \in Submits, ServerEnds(n) PROVE TypeOK'
  BY <1>10 DEF ServerEnds
<1>11. ASSUME NEW p \in polls, PollServed(p) PROVE TypeOK'
  BY <1>11, PollParts DEF PollServed, Heard
<1>12. ASSUME NEW p \in polls, PollDropped(p) PROVE TypeOK'
  BY <1>12 DEF PollDropped
<1>13. ASSUME NEW p \in polls, PollAnswer(p) PROVE TypeOK'
  <2>1. p[1] \in Submits /\ p[2] \in {"running"} \cup Ends
    BY <1>13, PollParts DEF PollAnswer
  <2>2. download' \in {NoJob} \cup {n \in Submits : server'[n] = "completed"}
    BY <1>13, <2>1 DEF PollAnswer, Heard
  <2>3. polls' \subseteq polls /\ strays' \subseteq Submits /\ overtaken' \subseteq Submits
    BY <1>13, <2>1 DEF PollAnswer
  <2>4. displaced' \subseteq Submits
    BY <1>13 DEF PollAnswer, Away
  <2>5. ends' \subseteq Ends /\ appState' \in {"idle", "processing", "completed"}
    BY <1>13, <2>1 DEF PollAnswer, Flags, Rendered
  <2>6. interval' \in {NoJob, jobId} /\ UNCHANGED <<jobId, cancelInFlight, submit, cancel, server, asked>>
    BY <1>13 DEF PollAnswer
  <2> QED BY <2>2, <2>3, <2>4, <2>5, <2>6
<1>14. CASE UNCHANGED vars
  BY <1>14 DEF vars
<1> QED BY <1>1, <1>2, <1>3, <1>4, <1>5, <1>6, <1>7, <1>8, <1>9, <1>10, <1>11, <1>12,
           <1>13, <1>14 DEF Next

(* Answers stay true: only a running job ends.                             *)
LEMMA HeardStep == TypeOK /\ Heard /\ [Next]_vars => Heard'
<1> SUFFICES ASSUME TypeOK, Heard, [Next]_vars PROVE Heard'
  OBVIOUS
<1> USE WebClientConstants DEF TypeOK, Heard, page, hook, backend, mixed, history, Ends
<1>1. CASE Reset
  BY <1>1 DEF Reset
<1>2. ASSUME NEW n \in Submits, Submit(n) PROVE Heard'
  BY <1>2 DEF Submit
<1>3. ASSUME NEW n \in Submits, SubmitServed(n) PROVE Heard'
  BY <1>3, PollParts DEF SubmitServed
<1>4. ASSUME NEW n \in Submits, SubmitAnswer(n) PROVE Heard'
  BY <1>4 DEF SubmitAnswer
<1>5. ASSUME NEW n \in Submits, SubmitFails(n) PROVE Heard'
  BY <1>5 DEF SubmitFails
<1>6. ASSUME NEW n \in Submits, Cancel(n) PROVE Heard'
  BY <1>6 DEF Cancel
<1>7. ASSUME NEW n \in Submits, CancelServed(n) PROVE Heard'
  BY <1>7 DEF CancelServed
<1>8. ASSUME NEW n \in Submits, CancelAnswer(n) \/ CancelFails(n) PROVE Heard'
  BY <1>8 DEF CancelAnswer, CancelFails
<1>9. ASSUME NEW n \in Submits, Tick(n) PROVE Heard'
  BY <1>9 DEF Tick
<1>10. ASSUME NEW n \in Submits, ServerEnds(n) PROVE Heard'
  BY <1>10, PollParts DEF ServerEnds
<1>11. ASSUME NEW p \in polls, PollServed(p) PROVE Heard'
  BY <1>11, PollParts DEF PollServed
<1>12. ASSUME NEW p \in polls, PollDropped(p) PROVE Heard'
  BY <1>12 DEF PollDropped
<1>13. ASSUME NEW p \in polls, PollAnswer(p) PROVE Heard'
  BY <1>13 DEF PollAnswer
<1>14. CASE UNCHANGED vars
  BY <1>14 DEF vars
<1> QED BY <1>1, <1>2, <1>3, <1>4, <1>5, <1>6, <1>7, <1>8, <1>9, <1>10, <1>11, <1>12,
           <1>13, <1>14 DEF Next

(* The end an answer adds is true of its job: the page's, or now a stray.  *)
LEMMA OwnStep == WebInv /\ [Next]_vars => EndIsOwn'
<1> SUFFICES ASSUME WebInv, [Next]_vars PROVE EndIsOwn'
  OBVIOUS
<1> USE WebClientConstants DEF WebInv, TypeOK, EndIsOwn, page, hook, backend, mixed, history, Ends
<1>1. CASE Reset
  BY <1>1 DEF Reset
<1>2. ASSUME NEW n \in Submits, Submit(n) PROVE EndIsOwn'
  BY <1>2 DEF Submit
<1>3. ASSUME NEW n \in Submits, SubmitServed(n) PROVE EndIsOwn'
  BY <1>3 DEF SubmitServed, Heard
<1>4. ASSUME NEW n \in Submits, SubmitAnswer(n) PROVE EndIsOwn'
  BY <1>4 DEF SubmitAnswer, Heard
<1>5. ASSUME NEW n \in Submits, SubmitFails(n) PROVE EndIsOwn'
  BY <1>5 DEF SubmitFails
<1>6. ASSUME NEW n \in Submits, Cancel(n) PROVE EndIsOwn'
  BY <1>6 DEF Cancel
<1>7. ASSUME NEW n \in Submits, CancelServed(n) PROVE EndIsOwn'
  BY <1>7 DEF CancelServed
<1>8. ASSUME NEW n \in Submits, CancelAnswer(n) \/ CancelFails(n) PROVE EndIsOwn'
  BY <1>8 DEF CancelAnswer, CancelFails
<1>9. ASSUME NEW n \in Submits, Tick(n) PROVE EndIsOwn'
  BY <1>9 DEF Tick
<1>10. ASSUME NEW n \in Submits, ServerEnds(n) PROVE EndIsOwn'
  <2>1. server[n] = "running" /\ UNCHANGED <<ends, strays, jobId>>
    BY <1>10 DEF ServerEnds
  <2>2. \A m \in Submits : m # n => server'[m] = server[m]
    BY <1>10 DEF ServerEnds
  <2> QED BY <2>1, <2>2
<1>11. ASSUME NEW p \in polls, PollServed(p) PROVE EndIsOwn'
  BY <1>11, PollParts DEF PollServed
<1>12. ASSUME NEW p \in polls, PollDropped(p) PROVE EndIsOwn'
  BY <1>12, PollParts DEF PollDropped
<1>13. ASSUME NEW p \in polls, PollAnswer(p) PROVE EndIsOwn'
  BY <1>13, PollParts DEF PollAnswer, Heard, Flags
<1>14. CASE UNCHANGED vars
  BY <1>14 DEF vars
<1> QED BY <1>1, <1>2, <1>3, <1>4, <1>5, <1>6, <1>7, <1>8, <1>9, <1>10, <1>11, <1>12,
           <1>13, <1>14 DEF Next

(* The answer that stops the interval puts an end on the page.             *)
LEMMA StoppedStep == WebInv /\ [Next]_vars => StoppedMeansShown'
<1> SUFFICES ASSUME WebInv, [Next]_vars PROVE StoppedMeansShown'
  OBVIOUS
<1> USE WebClientConstants DEF WebInv, TypeOK, StoppedMeansShown, page, hook, backend,
        mixed, history, Ends
<1>1. CASE Reset
  BY <1>1 DEF Reset
<1>2. ASSUME NEW n \in Submits, Submit(n) PROVE StoppedMeansShown'
  BY <1>2 DEF Submit
<1>3. ASSUME NEW n \in Submits, SubmitServed(n) PROVE StoppedMeansShown'
  BY <1>3 DEF SubmitServed
<1>4. ASSUME NEW n \in Submits, SubmitAnswer(n) PROVE StoppedMeansShown'
  BY <1>4 DEF SubmitAnswer
<1>5. ASSUME NEW n \in Submits, SubmitFails(n) PROVE StoppedMeansShown'
  BY <1>5 DEF SubmitFails
<1>6. ASSUME NEW n \in Submits, Cancel(n) PROVE StoppedMeansShown'
  BY <1>6 DEF Cancel
<1>7. ASSUME NEW n \in Submits, CancelServed(n) PROVE StoppedMeansShown'
  BY <1>7 DEF CancelServed
<1>8. ASSUME NEW n \in Submits, CancelAnswer(n) \/ CancelFails(n) PROVE StoppedMeansShown'
  BY <1>8 DEF CancelAnswer, CancelFails
<1>9. ASSUME NEW n \in Submits, Tick(n) PROVE StoppedMeansShown'
  BY <1>9 DEF Tick
<1>10. ASSUME NEW n \in Submits, ServerEnds(n) PROVE StoppedMeansShown'
  BY <1>10 DEF ServerEnds
<1>11. ASSUME NEW p \in polls, PollServed(p) PROVE StoppedMeansShown'
  BY <1>11, PollParts DEF PollServed
<1>12. ASSUME NEW p \in polls, PollDropped(p) PROVE StoppedMeansShown'
  BY <1>12, PollParts DEF PollDropped
<1>13. ASSUME NEW p \in polls, PollAnswer(p) PROVE StoppedMeansShown'
  BY <1>13, PollParts DEF PollAnswer, Flags
<1>14. CASE UNCHANGED vars
  BY <1>14 DEF vars
<1> QED BY <1>1, <1>2, <1>3, <1>4, <1>5, <1>6, <1>7, <1>8, <1>9, <1>10, <1>11, <1>12,
           <1>13, <1>14 DEF Next

(* A page leaves "processing" with its job in place only for a completed    *)
(* one: the failure of another POST displaces the job.                     *)
LEMMA ShownStep == WebInv /\ [Next]_vars => ShownInPlace'
<1> SUFFICES ASSUME WebInv, [Next]_vars PROVE ShownInPlace'
  OBVIOUS
<1> USE WebClientConstants DEF WebInv, TypeOK, ShownInPlace, page, hook, backend, mixed, history, Ends
<1>1. CASE Reset
  BY <1>1 DEF Reset, Away
<1>2. ASSUME NEW n \in Submits, Submit(n) PROVE ShownInPlace'
  BY <1>2 DEF Submit, Rendered, Away
<1>3. ASSUME NEW n \in Submits, SubmitServed(n) PROVE ShownInPlace'
  BY <1>3 DEF SubmitServed
<1>4. ASSUME NEW n \in Submits, SubmitAnswer(n) PROVE ShownInPlace'
  BY <1>4 DEF SubmitAnswer, PostedInPlace, Posting
<1>5. ASSUME NEW n \in Submits, SubmitFails(n) PROVE ShownInPlace'
  BY <1>5 DEF SubmitFails, Away
<1>6. ASSUME NEW n \in Submits, Cancel(n) PROVE ShownInPlace'
  BY <1>6 DEF Cancel
<1>7. ASSUME NEW n \in Submits, CancelServed(n) PROVE ShownInPlace'
  BY <1>7 DEF CancelServed
<1>8. ASSUME NEW n \in Submits, CancelAnswer(n) \/ CancelFails(n) PROVE ShownInPlace'
  BY <1>8 DEF CancelAnswer, CancelFails
<1>9. ASSUME NEW n \in Submits, Tick(n) PROVE ShownInPlace'
  BY <1>9 DEF Tick
<1>10. ASSUME NEW n \in Submits, ServerEnds(n) PROVE ShownInPlace'
  BY <1>10 DEF ServerEnds
<1>11. ASSUME NEW p \in polls, PollServed(p) PROVE ShownInPlace'
  BY <1>11, PollParts DEF PollServed
<1>12. ASSUME NEW p \in polls, PollDropped(p) PROVE ShownInPlace'
  BY <1>12, PollParts DEF PollDropped
<1>13. ASSUME NEW p \in polls, PollAnswer(p) PROVE ShownInPlace'
  BY <1>13, PollParts DEF PollAnswer, Flags, Rendered, Away
<1>14. CASE UNCHANGED vars
  BY <1>14 DEF vars
<1> QED BY <1>1, <1>2, <1>3, <1>4, <1>5, <1>6, <1>7, <1>8, <1>9, <1>10, <1>11, <1>12,
           <1>13, <1>14 DEF Next

(* The form submits only from a page that is not "processing": every POST  *)
(* under way by then has lost the page, and so has the job shown, or else  *)
(* it is completed and the new submission has.                             *)
LEMMA PostedStep == WebInv /\ [Next]_vars => PostedInPlace'
<1> SUFFICES ASSUME WebInv, [Next]_vars PROVE PostedInPlace'
  OBVIOUS
<1> USE WebClientConstants DEF WebInv, TypeOK, PostedInPlace, Posting, Asked, page, hook, backend,
        mixed, history, Ends
<1>1. CASE Reset
  BY <1>1 DEF Reset, Away
<1>2. ASSUME NEW n \in Submits, Submit(n) PROVE PostedInPlace'
  BY <1>2 DEF Submit, ShownInPlace, Rendered, Away
<1>3. ASSUME NEW n \in Submits, SubmitServed(n) PROVE PostedInPlace'
  BY <1>3 DEF SubmitServed
<1>4. ASSUME NEW n \in Submits, SubmitAnswer(n) PROVE PostedInPlace'
  BY <1>4 DEF SubmitAnswer
<1>5. ASSUME NEW n \in Submits, SubmitFails(n) PROVE PostedInPlace'
  BY <1>5 DEF SubmitFails, Away
<1>6. ASSUME NEW n \in Submits, Cancel(n) PROVE PostedInPlace'
  BY <1>6 DEF Cancel
<1>7. ASSUME NEW n \in Submits, CancelServed(n) PROVE PostedInPlace'
  BY <1>7 DEF CancelServed
<1>8. ASSUME NEW n \in Submits, CancelAnswer(n) \/ CancelFails(n) PROVE PostedInPlace'
  BY <1>8 DEF CancelAnswer, CancelFails, Heard
<1>9. ASSUME NEW n \in Submits, Tick(n) PROVE PostedInPlace'
  BY <1>9 DEF Tick
<1>10. ASSUME NEW n \in Submits, ServerEnds(n) PROVE PostedInPlace'
  BY <1>10 DEF ServerEnds
<1>11. ASSUME NEW p \in polls, PollServed(p) PROVE PostedInPlace'
  BY <1>11, PollParts DEF PollServed
<1>12. ASSUME NEW p \in polls, PollDropped(p) PROVE PostedInPlace'
  BY <1>12, PollParts DEF PollDropped
<1>13. ASSUME NEW p \in polls, PollAnswer(p) PROVE PostedInPlace'
  BY <1>13, PollParts DEF PollAnswer, Flags, Rendered, Away
<1>14. CASE UNCHANGED vars
  BY <1>14 DEF vars
<1> QED BY <1>1, <1>2, <1>3, <1>4, <1>5, <1>6, <1>7, <1>8, <1>9, <1>10, <1>11, <1>12,
           <1>13, <1>14 DEF Next

(* A button stays grey over a change of jobs only beside a displaced job.  *)
LEMMA GreyStep == WebInv /\ [Next]_vars => GreyMeansAsked'
<1> SUFFICES ASSUME WebInv, [Next]_vars PROVE GreyMeansAsked'
  OBVIOUS
<1> USE WebClientConstants DEF WebInv, TypeOK, GreyMeansAsked, page, hook, backend, mixed, history, Ends
<1>1. CASE Reset
  BY <1>1 DEF Reset
<1>2. ASSUME NEW n \in Submits, Submit(n) PROVE GreyMeansAsked'
  BY <1>2 DEF Submit
<1>3. ASSUME NEW n \in Submits, SubmitServed(n) PROVE GreyMeansAsked'
  BY <1>3 DEF SubmitServed
<1>4. ASSUME NEW n \in Submits, SubmitAnswer(n) PROVE GreyMeansAsked'
  BY <1>4 DEF SubmitAnswer, PostedInPlace, Posting, Asked
<1>5. ASSUME NEW n \in Submits, SubmitFails(n) PROVE GreyMeansAsked'
  BY <1>5 DEF SubmitFails
<1>6. ASSUME NEW n \in Submits, Cancel(n) PROVE GreyMeansAsked'
  BY <1>6 DEF Cancel
<1>7. ASSUME NEW n \in Submits, CancelServed(n) PROVE GreyMeansAsked'
  BY <1>7 DEF CancelServed
<1>8. ASSUME NEW n \in Submits, CancelAnswer(n) \/ CancelFails(n) PROVE GreyMeansAsked'
  BY <1>8 DEF CancelAnswer, CancelFails, Heard
<1>9. ASSUME NEW n \in Submits, Tick(n) PROVE GreyMeansAsked'
  BY <1>9 DEF Tick
<1>10. ASSUME NEW n \in Submits, ServerEnds(n) PROVE GreyMeansAsked'
  BY <1>10 DEF ServerEnds
<1>11. ASSUME NEW p \in polls, PollServed(p) PROVE GreyMeansAsked'
  BY <1>11, PollParts DEF PollServed
<1>12. ASSUME NEW p \in polls, PollDropped(p) PROVE GreyMeansAsked'
  BY <1>12, PollParts DEF PollDropped
<1>13. ASSUME NEW p \in polls, PollAnswer(p) PROVE GreyMeansAsked'
  BY <1>13, PollParts DEF PollAnswer
<1>14. CASE UNCHANGED vars
  BY <1>14 DEF vars
<1> QED BY <1>1, <1>2, <1>3, <1>4, <1>5, <1>6, <1>7, <1>8, <1>9, <1>10, <1>11, <1>12,
           <1>13, <1>14 DEF Next

LEMMA WebStep == WebInv /\ [Next]_vars => WebInv'
BY TypeStep, HeardStep, OwnStep, StoppedStep, ShownStep, PostedStep, GreyStep DEF WebInv

LEMMA WebAlways == Spec => []WebInv
BY WebInit, WebStep, PTL DEF Spec

(* The state of the page keeps its type: it polls no job but the one it    *)
(* follows, and a download it holds is of a completed job.                 *)
THEOREM TypeCorrect == Spec => []TypeOK
<1>1. WebInv => TypeOK
  BY DEF WebInv
<1> QED BY <1>1, WebAlways, PTL

(* The page shows no end but that of its own job or of a job whose late    *)
(* answer was applied to this very page.                                   *)
THEOREM EndsAreOwn == Spec => []EndIsOwn
<1>1. WebInv => EndIsOwn
  BY DEF WebInv
<1> QED BY <1>1, WebAlways, PTL

(* The page does not stop polling before it shows an end, unless an older  *)
(* answer took the error off it.                                           *)
THEOREM PollsUntilShown == Spec => []StoppedMeansShown
<1>1. WebInv => StoppedMeansShown
  BY DEF WebInv
<1> QED BY <1>1, WebAlways, PTL

(* A page without an end shows the progress of its job and the cancel      *)
(* button, unless the job lost the page: submitted from a completed page,  *)
(* by a late answer or a reset while it was posted, or by the failure of   *)
(* another POST.                                                           *)
THEOREM ProgressShown == Spec => []ProgressIsVisible
<1>1. WebInv => ProgressIsVisible
  BY DEF WebInv, ShownInPlace, ProgressIsVisible
<1> QED BY <1>1, WebAlways, PTL

(* A disabled cancel button stands for a job asked to stop: the job shown, *)
(* unless that job or the one asked lost the page in one of these ways.    *)
THEOREM GreyIsAsked == Spec => []GreyMeansAsked
<1>1. WebInv => GreyMeansAsked
  BY DEF WebInv
<1> QED BY <1>1, WebAlways, PTL
=============================================================================
