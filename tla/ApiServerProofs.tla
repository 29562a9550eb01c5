---------------------------- MODULE ApiServerProofs ----------------------------
(***************************************************************************)
(* The API process, for any number of requests, rotations and restarts.    *)
(***************************************************************************)
EXTENDS ApiServer, TLAPS

(* A request waits for the key set.                                        *)
Waiting(r) == step[r] \in {"sent", "served"}

(* What is cached or on its way was published since this process started,  *)
(* and a process that is down has and awaits nothing.                      *)
KeysInv ==
    /\ TypeOK
    /\ ~up => cache = NoKeys
    /\ cache # NoKeys => since <= cache
    /\ \A r \in Requests : Waiting(r) =>
        /\ up
        /\ step[r] = "served" => since <= fetched[r]
        /\ production /\ token[r].kind # "none"
        /\ token[r].kind = "genuine" => token[r].kid <= newest /\ since <= token[r].kid + 1

LEMMA VerdictType ==
    ASSUME NEW t \in Tokens, NEW k \in Nat
    PROVE  Verdict(t, k) \in Answers
BY DEF Verdict, Answers

LEMMA KeysInit == Init => KeysInv
<1> SUFFICES ASSUME Init PROVE KeysInv
  OBVIOUS
<1>1. [kind |-> "none", kid |-> 0] \in Tokens
  BY DEF Tokens
<1>2. TypeOK
  <2>1. token \in [Requests -> Tokens] /\ fetched \in [Requests -> 0 .. newest]
    BY <1>1 DEF Init
  <2>2. /\ step \in [Requests -> {"new", "sent", "served", "done"}]
        /\ answer \in [Requests -> Answers \cup {"none", "dropped"}]
    BY DEF Init
  <2>3. production \in BOOLEAN /\ up \in BOOLEAN /\ ready \in BOOLEAN
    BY DEF Init
  <2>4. cache \in (0 .. newest) \cup {NoKeys} /\ newest \in Nat /\ since \in 0 .. newest
        /\ restarts \in Nat
    BY DEF Init
  <2> QED BY <2>1, <2>2, <2>3, <2>4 DEF TypeOK
<1> QED BY <1>2 DEF Init, KeysInv, Waiting

(* Arrive, by the three ways it ends.                                      *)
LEMMA ArriveSteps ==
    ASSUME TypeOK, NEW r \in Requests, Arrive(r)
    PROVE  \E t \in Tokens :
              /\ t.kind = "genuine" => t.kid <= newest /\ newest <= t.kid + 1
              /\ token' = [token EXCEPT ![r] = t]
              /\ \/ /\ ~production \/ t.kind = "none"
                    /\ \E a \in {"run", "uninitialised", "401"} :
                        /\ a = "uninitialised" => ~ready
                        /\ a = "401" => production /\ t.kind = "none"
                        /\ production => a = "401"
                        /\ Done(r, a)
                 \/ production /\ t.kind # "none" /\ cache # NoKeys /\ Done(r, Verdict(t, cache))
                 \/ /\ production /\ t.kind # "none"
                    /\ step' = [step EXCEPT ![r] = "sent"] /\ UNCHANGED answer
<1>1. PICK t \in [kind : {"none", "bad", "genuine"}, kid : 0 .. newest] :
        /\ t.kind = "genuine" => t.kid \in KeySet(newest)
        /\ token' = [token EXCEPT ![r] = t]
        /\ CASE ~production -> Done(r, IF ready THEN "run" ELSE "uninitialised")
             [] production /\ t.kind = "none" -> Done(r, "401")
             [] production /\ t.kind # "none" /\ cache # NoKeys -> Done(r, Verdict(t, cache))
             [] OTHER -> step' = [step EXCEPT ![r] = "sent"] /\ UNCHANGED answer
  BY DEF Arrive
<1>2. t \in Tokens
  BY DEF TypeOK, Tokens
<1>3. t.kind = "genuine" => t.kid <= newest /\ newest <= t.kid + 1
  BY <1>1 DEF KeySet
<1>4. CASE ~production
  <2>1. Done(r, IF ready THEN "run" ELSE "uninitialised")
    BY <1>1, <1>4
  <2> QED BY <1>1, <1>2, <1>3, <1>4, <2>1
<1>5. CASE production /\ t.kind = "none"
  <2>1. Done(r, "401")
    BY <1>1, <1>5
  <2> QED BY <1>1, <1>2, <1>3, <1>5, <2>1
<1>6. CASE production /\ t.kind # "none" /\ cache # NoKeys
  <2>1. Done(r, Verdict(t, cache))
    BY <1>1, <1>6
  <2> QED BY <1>1, <1>2, <1>3, <1>6, <2>1
<1>7. CASE production /\ t.kind # "none" /\ cache = NoKeys
  <2>1. step' = [step EXCEPT ![r] = "sent"] /\ UNCHANGED answer
    BY <1>1, <1>7
  <2> QED BY <1>1, <1>2, <1>3, <1>7, <2>1
<1> QED BY <1>4, <1>5, <1>6, <1>7 DEF TypeOK

LEMMA KeysStep == KeysInv /\ [Next]_vars => KeysInv'
<1> SUFFICES ASSUME KeysInv, [Next]_vars PROVE KeysInv'
  OBVIOUS
<1> USE ServerConstants DEF KeysInv, TypeOK, Waiting, server
<1>1. CASE Boot
  BY <1>1 DEF Boot
<1>2. CASE Stop
  <2>1. UNCHANGED <<production, since, token, fetched, newest>> /\ cache' = NoKeys
    BY <1>2 DEF Stop
  <2>2. restarts' \in Nat /\ up' = FALSE /\ ready' = FALSE
    BY <1>2 DEF Stop
  <2>3. /\ step' \in [Requests -> {"new", "sent", "served", "done"}]
        /\ answer' \in [Requests -> Answers \cup {"none", "dropped"}]
    BY <1>2 DEF Stop
  <2>4. TypeOK'
    <3>1. up' \in BOOLEAN /\ ready' \in BOOLEAN
      BY <2>2
    <3> QED BY <2>1, <2>2, <2>3, <3>1
  <2>5. \A r \in Requests : ~Waiting(r)'
    BY <1>2 DEF Stop
  <2> QED BY <2>1, <2>4, <2>5
<1>3. CASE Rotate
  <2>1. newest' = newest + 1 /\ UNCHANGED <<server, cache, token, step, fetched, answer>>
    BY <1>3 DEF Rotate
  <2>2. 0 .. newest \subseteq 0 .. newest'
    BY <2>1
  <2>3. fetched' \in [Requests -> 0 .. newest'] /\ cache' \in (0 .. newest') \cup {NoKeys}
    BY <2>1, <2>2
  <2>4. TypeOK'
    BY <2>1, <2>2, <2>3
  <2>5. \A r \in Requests : Waiting(r)' <=> Waiting(r)
    BY <2>1
  <2>6. \A r \in Requests : token[r].kid \in Nat
    BY DEF Tokens
  <2>7. \A r \in Requests : (Waiting(r)' /\ token'[r].kind = "genuine") =>
          token'[r].kid <= newest' /\ since' <= token'[r].kid + 1
    BY <2>1, <2>5, <2>6
  <2> QED BY <2>1, <2>4, <2>5, <2>7
<1>4. ASSUME NEW r \in Requests, Arrive(r) PROVE KeysInv'
  <2>1. PICK t \in Tokens :
          /\ t.kind = "genuine" => t.kid <= newest /\ newest <= t.kid + 1
          /\ token' = [token EXCEPT ![r] = t]
          /\ \/ /\ ~production \/ t.kind = "none"
                /\ \E a \in {"run", "uninitialised", "401"} :
                    /\ a = "uninitialised" => ~ready
                    /\ a = "401" => production /\ t.kind = "none"
                    /\ production => a = "401"
                    /\ Done(r, a)
             \/ production /\ t.kind # "none" /\ cache # NoKeys /\ Done(r, Verdict(t, cache))
             \/ /\ production /\ t.kind # "none"
                /\ step' = [step EXCEPT ![r] = "sent"] /\ UNCHANGED answer
    BY <1>4, ArriveSteps
  <2>2. up /\ UNCHANGED <<server, cache, fetched, newest>>
    BY <1>4 DEF Arrive
  <2>3. token' \in [Requests -> Tokens]
    BY <2>1
  <2>4. cache # NoKeys => Verdict(t, cache) \in Answers
    BY VerdictType
  <2>5. /\ step' \in [Requests -> {"new", "sent", "served", "done"}]
        /\ answer' \in [Requests -> Answers \cup {"none", "dropped"}]
    BY <2>1, <2>4 DEF Done, Answers
  <2>6. TypeOK'
    BY <2>2, <2>3, <2>5
  <2>7. ASSUME NEW q \in Requests, Waiting(q)'
        PROVE  \/ q # r /\ step[q] = step'[q] /\ token'[q] = token[q]
               \/ q = r /\ step'[q] = "sent" /\ token'[q] = t /\ production /\ t.kind # "none"
    <3>1. CASE q = r
      BY <2>1, <2>7, <3>1 DEF Done
    <3>2. CASE q # r
      <4>1. step'[q] = step[q] /\ token'[q] = token[q]
        BY <2>1, <3>2 DEF Done
      <4> QED BY <3>2, <4>1
    <3> QED BY <3>1, <3>2
  <2>8. \A q \in Requests : Waiting(q)' =>
          /\ up'
          /\ step'[q] = "served" => since' <= fetched'[q]
          /\ production' /\ token'[q].kind # "none"
          /\ token'[q].kind = "genuine" => token'[q].kid <= newest' /\ since' <= token'[q].kid + 1
    <3> SUFFICES ASSUME NEW q \in Requests, Waiting(q)'
                 PROVE  /\ up'
                        /\ step'[q] = "served" => since' <= fetched'[q]
                        /\ production' /\ token'[q].kind # "none"
                        /\ token'[q].kind = "genuine" =>
                              token'[q].kid <= newest' /\ since' <= token'[q].kid + 1
      OBVIOUS
    <3>1. CASE q # r
      BY <2>2, <2>7, <3>1
    <3>2. CASE q = r
      <4>1. t.kid \in Nat
        BY DEF Tokens
      <4> QED BY <2>1, <2>2, <2>7, <3>2, <4>1
    <3> QED BY <3>1, <3>2
  <2> QED BY <2>2, <2>6, <2>8
<1>5. ASSUME NEW r \in Requests, FetchServed(r) PROVE KeysInv'
  BY <1>5 DEF FetchServed
<1>6. ASSUME NEW r \in Requests, FetchAnswer(r) PROVE KeysInv'
  <2>1. Verdict(token[r], fetched[r]) \in Answers
    BY VerdictType
  <2> QED BY <1>6, <2>1 DEF FetchAnswer, Done
<1>7. ASSUME NEW r \in Requests, FetchFails(r) PROVE KeysInv'
  BY <1>7 DEF FetchFails, Done, Answers
<1>8. ASSUME NEW r \in Requests, FetchGarbled(r) PROVE KeysInv'
  BY <1>8 DEF FetchGarbled, Done, Answers
<1>9. CASE UNCHANGED vars
  BY <1>9 DEF vars
<1> QED BY <1>1, <1>2, <1>3, <1>4, <1>5, <1>6, <1>7, <1>8, <1>9 DEF Next

LEMMA KeysAlways == Spec => []KeysInv
BY KeysInit, KeysStep, PTL DEF Spec

(* The state of the process keeps its type: the cached key set and those   *)
(* on their way are never newer than Cognito's.                            *)
THEOREM TypeCorrect == Spec => []TypeOK
<1>1. KeysInv => TypeOK
  BY DEF KeysInv
<1> QED BY <1>1, KeysAlways, PTL

-----------------------------------------------------------------------------
(* How a request can be answered: without a check, without a token, or by  *)
(* the verdict of a key set no older than the process.                     *)
Judged(r) ==
    \/ ~production /\ answer'[r] \in {"run", "uninitialised"} /\ (answer'[r] = "uninitialised" => ~ready)
    \/ production /\ token'[r].kind = "none" /\ answer'[r] = "401"
    \/ /\ production /\ token'[r].kind # "none"
       /\ token'[r].kid \in Nat
       /\ token'[r].kind = "genuine" => token'[r].kid <= newest /\ since <= token'[r].kid + 1
       /\ \E k \in since .. newest : answer'[r] = Verdict(token'[r], k)

LEMMA AnswerSteps ==
    ASSUME KeysInv, [Next]_vars, NEW r \in Requests,
           answer'[r] # answer[r], answer'[r] \in {"run", "401", "uninitialised"}
    PROVE  up /\ newest' = newest /\ since' = since /\ production' = production /\ Judged(r)
<1> USE ServerConstants DEF KeysInv, TypeOK, server
<1>1. CASE Stop
  <2>1. answer'[r] = answer[r] \/ answer'[r] = "dropped"
    BY <1>1 DEF Stop
  <2> QED BY <2>1
<1>2. ASSUME NEW q \in Requests, Arrive(q) PROVE q = r /\ up /\ UNCHANGED <<server, newest>> /\ Judged(r)
  <2>1. PICK t \in Tokens :
          /\ t.kind = "genuine" => t.kid <= newest /\ newest <= t.kid + 1
          /\ token' = [token EXCEPT ![q] = t]
          /\ \/ /\ ~production \/ t.kind = "none"
                /\ \E a \in {"run", "uninitialised", "401"} :
                    /\ a = "uninitialised" => ~ready
                    /\ a = "401" => production /\ t.kind = "none"
                    /\ production => a = "401"
                    /\ Done(q, a)
             \/ production /\ t.kind # "none" /\ cache # NoKeys /\ Done(q, Verdict(t, cache))
             \/ /\ production /\ t.kind # "none"
                /\ step' = [step EXCEPT ![q] = "sent"] /\ UNCHANGED answer
    BY <1>2, ArriveSteps
  <2>2. up /\ UNCHANGED <<server, newest>>
    BY <1>2 DEF Arrive
  <2>3. q = r
    BY <2>1 DEF Done
  <2>4. token'[r] = t /\ t.kid \in Nat
    BY <2>1, <2>3 DEF Tokens
  <2>5. t.kind = "genuine" => since <= t.kid + 1
    BY <2>1, <2>4
  <2>6. CASE ~production
    <3>1. PICK a \in {"run", "uninitialised", "401"} :
            (a = "uninitialised" => ~ready) /\ a # "401" /\ Done(q, a)
      BY <2>1, <2>6
    <3>2. answer'[r] = a
      BY <2>3, <3>1 DEF Done
    <3>3. Judged(r)
      BY <2>6, <3>1, <3>2 DEF Judged
    <3> QED BY <2>2, <2>3, <3>3
  <2>7. CASE production /\ t.kind = "none"
    <3>1. PICK a \in {"run", "uninitialised", "401"} : (production => a = "401") /\ Done(q, a)
      BY <2>1, <2>7
    <3>2. answer'[r] = "401"
      BY <2>3, <2>7, <3>1 DEF Done
    <3>3. token'[r].kind = "none"
      BY <2>4, <2>7
    <3>4. Judged(r)
      BY <2>7, <3>2, <3>3 DEF Judged
    <3> QED BY <2>2, <2>3, <3>4
  <2>8. CASE production /\ t.kind # "none"
    <3>1. cache # NoKeys /\ answer'[r] = Verdict(t, cache)
      BY <2>1, <2>3, <2>8 DEF Done
    <3>2. cache \in since .. newest
      BY <3>1
    <3>3. t.kind = "genuine" => t.kid <= newest
      BY <2>1
    <3>4. \E k \in since .. newest : answer'[r] = Verdict(token'[r], k)
      BY <2>4, <3>1, <3>2
    <3>5. /\ token'[r].kind # "none" /\ token'[r].kid \in Nat
          /\ token'[r].kind = "genuine" =>
                token'[r].kid <= newest /\ since <= token'[r].kid + 1
      BY <2>4, <2>5, <2>8, <3>3
    <3>6. Judged(r)
      BY <2>8, <3>4, <3>5 DEF Judged
    <3> QED BY <2>2, <2>3, <3>6
  <2> QED BY <2>2, <2>3, <2>6, <2>7, <2>8
<1>3. ASSUME NEW q \in Requests, FetchAnswer(q) PROVE q = r /\ up /\ UNCHANGED <<server, newest>> /\ Judged(r)
  <2>1. q = r /\ answer'[r] = Verdict(token[r], fetched[r]) /\ token'[r] = token[r] /\ Waiting(r)
    BY <1>3 DEF FetchAnswer, Done, Waiting
  <2>2. fetched[r] \in since .. newest
    BY <1>3, <2>1 DEF FetchAnswer
  <2>3. token[r].kid \in Nat
    BY DEF Tokens
  <2>4. UNCHANGED <<server, newest>>
    BY <1>3 DEF FetchAnswer
  <2> QED BY <2>1, <2>2, <2>3, <2>4 DEF Judged
<1>4. ASSUME NEW q \in Requests, FetchFails(q) \/ FetchGarbled(q) PROVE FALSE
  <2>1. answer'[r] = answer[r] \/ answer'[r] \in {"503", "unreadable"}
    BY <1>4 DEF FetchFails, FetchGarbled, Done
  <2> QED BY <2>1
<1>5. CASE Boot \/ Rotate \/ (\E q \in Requests : FetchServed(q)) \/ UNCHANGED vars
  BY <1>5 DEF Boot, Rotate, FetchServed, vars
<1> QED BY <1>1, <1>2, <1>3, <1>4, <1>5 DEF Next

(* In production a handler runs only for a token that verifies, of a key   *)
(* Cognito still published when this process started or of a later one.    *)
THEOREM OnlyLiveKeysRun == Spec => RunsForLiveKeys
<1>1. KeysInv /\ [Next]_vars =>
        [\A r \in Requests :
            (production /\ answer[r] # "run" /\ answer'[r] = "run") =>
                /\ token'[r].kind = "genuine"
                /\ since <= token'[r].kid + 1]_vars
  <2> SUFFICES ASSUME KeysInv, [Next]_vars, NEW r \in Requests,
                      production, answer[r] # "run", answer'[r] = "run"
               PROVE  token'[r].kind = "genuine" /\ since <= token'[r].kid + 1
    OBVIOUS
  <2>1. Judged(r)
    BY AnswerSteps
  <2>2. PICK k \in since .. newest : answer'[r] = Verdict(token'[r], k)
    BY <2>1 DEF Judged
  <2>3. k \in Nat
    BY DEF KeysInv, TypeOK
  <2>4. token'[r].kid \in KeySet(k) /\ token'[r].kind # "bad"
    BY <2>2 DEF Verdict
  <2>5. token'[r].kind # "none"
    BY <2>1 DEF Judged
  <2>6. token'[r].kind = "genuine"
    <3>1. token'[r] \in Tokens
      BY KeysStep DEF KeysInv, TypeOK
    <3> QED BY <2>4, <2>5, <3>1 DEF Tokens
  <2> QED BY <2>1, <2>6 DEF Judged
<1> QED BY <1>1, KeysAlways, PTL DEF Spec, RunsForLiveKeys

(* While Cognito's keys are those of the start of the process, no genuine  *)
(* token is turned away: a failed or overtaken fetch spoils no later check.*)
THEOREM OnlyRotationRefuses == Spec => RefusedOnlyAfterRotation
<1>1. KeysInv /\ [Next]_vars =>
        [\A r \in Requests :
            (answer[r] # "401" /\ answer'[r] = "401" /\ token'[r].kind = "genuine")
                => newest # since]_vars
  <2> SUFFICES ASSUME KeysInv, [Next]_vars, NEW r \in Requests,
                      answer[r] # "401", answer'[r] = "401", token'[r].kind = "genuine",
                      newest = since
               PROVE  FALSE
    OBVIOUS
  <2>1. Judged(r)
    BY AnswerSteps
  <2>2. PICK k \in since .. newest : answer'[r] = Verdict(token'[r], k)
    BY <2>1 DEF Judged
  <2>3. k = newest /\ newest \in Nat
    BY <2>2 DEF KeysInv, TypeOK
  <2>4. token'[r].kid \in KeySet(k)
    BY <2>1, <2>3 DEF Judged, KeySet
  <2> QED BY <2>2, <2>4 DEF Verdict
<1> QED BY <1>1, KeysAlways, PTL DEF Spec, RefusedOnlyAfterRotation

(* Where the lifespan runs, no handler meets an instance that is not set.  *)
THEOREM LifespanInitialises == Lifespan /\ Spec => []NeverUninitialised
<1> DEFINE ReadyInv == NeverUninitialised /\ (up => ready)
<1>1. Init => ReadyInv
  BY DEF Init, NeverUninitialised
<1>2. ASSUME Lifespan, KeysInv, ReadyInv, [Next]_vars PROVE ReadyInv'
  <2>1. up' => ready'
    BY <1>2 DEF Next, vars, server, Boot, Stop, Rotate, Arrive, FetchServed, FetchAnswer,
       FetchFails, FetchGarbled
  <2>2. ASSUME NEW r \in Requests PROVE answer'[r] # "uninitialised"
    <3> SUFFICES ASSUME answer'[r] = "uninitialised" PROVE FALSE
      OBVIOUS
    <3>1. answer[r] # "uninitialised"
      BY <1>2 DEF NeverUninitialised
    <3>2. up /\ Judged(r)
      BY <1>2, <3>1, AnswerSteps
    <3> QED BY <1>2, <3>2 DEF Judged, Verdict
  <2> QED BY <2>1, <2>2 DEF NeverUninitialised
<1>3. ASSUME Lifespan PROVE Spec => []NeverUninitialised
  <2>1. KeysInv /\ ReadyInv /\ [Next]_vars => ReadyInv'
    BY <1>2, <1>3
  <2>2. ReadyInv => NeverUninitialised
    OBVIOUS
  <2> QED BY <1>1, <2>1, <2>2, KeysAlways, PTL DEF Spec
<1> QED BY <1>3
=============================================================================
