------------------------------ MODULE ApiServer ------------------------------
(***************************************************************************)
(* A process of the API (backend/src/main.py, api/auth.py and the service  *)
(* instances of api/routes.py): its start under uvicorn or under Mangum,   *)
(* the cached key set of Cognito, and the check of a bearer token that     *)
(* precedes every handler.                                                 *)
(*                                                                         *)
(* Everything between two awaits is one step.  The only await of the check *)
(* is the request for the key set: it is served by Cognito at one moment   *)
(* and its answer is used at a later one, and the fetches of several       *)
(* requests overlap.  Cognito is the environment: it numbers its signing   *)
(* keys, signs with the newest and publishes the newest two.               *)
(***************************************************************************)
EXTENDS Naturals

CONSTANTS
    Requests,       \* HTTP requests to routes that need a user
    Lifespan,       \* the server runs the lifespan: uvicorn does, Mangum(lifespan="off") not
    NoKeys,         \* _jwks_cache is None
    MaxRotations,   \* bound on Cognito's key rotations
    MaxRestarts     \* bound on restarts of the process

ASSUME ServerConstants ==
    /\ Lifespan \in BOOLEAN
    /\ NoKeys \notin Nat
    /\ MaxRotations \in Nat
    /\ MaxRestarts \in Nat

(* An uninitialised instance and an unreadable key set are both answered   *)
(* 500.                                                                    *)
Answers == {"run", "401", "503", "uninitialised", "unreadable"}

(* A token says which key signed it.  "none" stands for a missing header   *)
(* and for one without readable kid, "bad" for a signature, expiry,        *)
(* audience or issuer that does not verify.                                *)
Tokens == [kind : {"none", "bad", "genuine"}, kid : Nat]

VARIABLES
    production, \* input: settings.is_production
    up,         \* the process serves requests
    ready,      \* _job_manager and _dispatcher are set
    cache,      \* _jwks_cache: the number of the newest key in it
    token,      \* the token of each request
    step,       \* "new", "sent" or "served" (the key set's request), "done"
    fetched,    \* the key set a request's fetch was served
    answer,     \* the answer of each request that is done
    newest,     \* Cognito's newest key
    since,      \* history: Cognito's newest key when this process started
    restarts

server == <<production, up, ready, restarts, since>>
vars == <<server, cache, token, step, fetched, answer, newest>>

TypeOK ==
    /\ production \in BOOLEAN /\ up \in BOOLEAN /\ ready \in BOOLEAN
    /\ cache \in (0 .. newest) \cup {NoKeys}
    /\ token \in [Requests -> Tokens]
    /\ step \in [Requests -> {"new", "sent", "served", "done"}]
    /\ fetched \in [Requests -> 0 .. newest]
    /\ answer \in [Requests -> Answers \cup {"none", "dropped"}]
    /\ newest \in Nat /\ since \in 0 .. newest /\ restarts \in Nat

Init ==
    /\ production \in BOOLEAN
    /\ up = FALSE /\ ready = FALSE
    /\ cache = NoKeys
    /\ token = [r \in Requests |-> [kind |-> "none", kid |-> 0]]
    /\ step = [r \in Requests |-> "new"]
    /\ fetched = [r \in Requests |-> 0]
    /\ answer = [r \in Requests |-> "none"]
    /\ newest = 0 /\ since = 0 /\ restarts = 0

-----------------------------------------------------------------------------
(* The process.                                                            *)

(* The keys of the set whose newest key is k.                              *)
KeySet(k) == {n \in Nat : n <= k /\ k <= n + 1}

(* Broken variant: the lifespan does not reach init_routes.                *)
Boot_NoRoutes ==
    /\ ~up
    /\ up' = TRUE
    /\ since' = newest
    /\ UNCHANGED <<production, ready, restarts, cache, token, step, fetched, answer, newest>>

(* The module is imported, and with a lifespan the instances are built and *)
(* handed to the routes before the first request.                          *)
Boot ==
    /\ ~up
    /\ up' = TRUE
    /\ ready' = Lifespan
    /\ since' = newest
    /\ UNCHANGED <<production, restarts, cache, token, step, fetched, answer, newest>>

(* Broken variant: the key set outlives the process.                       *)
Stop_KeepsKeys ==
    /\ up /\ restarts < MaxRestarts
    /\ restarts' = restarts + 1
    /\ up' = FALSE /\ ready' = FALSE
    /\ step' = [r \in Requests |-> IF step[r] \in {"sent", "served"} THEN "done" ELSE step[r]]
    /\ answer' = [r \in Requests |->
                    IF step[r] \in {"sent", "served"} THEN "dropped" ELSE answer[r]]
    /\ UNCHANGED <<production, since, cache, token, fetched, newest>>

(* The process ends, with its module variables and the requests under way. *)
Stop ==
    /\ up /\ restarts < MaxRestarts
    /\ restarts' = restarts + 1
    /\ up' = FALSE /\ ready' = FALSE
    /\ cache' = NoKeys
    /\ step' = [r \in Requests |-> IF step[r] \in {"sent", "served"} THEN "done" ELSE step[r]]
    /\ answer' = [r \in Requests |->
                    IF step[r] \in {"sent", "served"} THEN "dropped" ELSE answer[r]]
    /\ UNCHANGED <<production, since, token, fetched, newest>>

-----------------------------------------------------------------------------
(* get_current_user.                                                       *)

(* Broken variant: a token is taken at its word.                           *)
Verdict_Unverified(t, keys) ==
    IF t.kid \notin KeySet(keys) THEN "401"
    ELSE IF ready THEN "run" ELSE "uninitialised"

(* What follows the key set: the key is looked up, the token decoded, and  *)
(* the handler takes the shared instances.                                 *)
Verdict(t, keys) ==
    IF t.kid \notin KeySet(keys) \/ t.kind = "bad" THEN "401"
    ELSE IF ready THEN "run" ELSE "uninitialised"

Done(r, a) ==
    /\ step' = [step EXCEPT ![r] = "done"]
    /\ answer' = [answer EXCEPT ![r] = a]

(* A request arrives.  Its token was signed by a key published now, or     *)
(* names any key at all.                                                   *)
Arrive(r) ==
    /\ up /\ step[r] = "new"
    /\ \E t \in [kind : {"none", "bad", "genuine"}, kid : 0 .. newest] :
        /\ t.kind = "genuine" => t.kid \in KeySet(newest)
        /\ token' = [token EXCEPT ![r] = t]
        /\ CASE ~production -> Done(r, IF ready THEN "run" ELSE "uninitialised")
             [] production /\ t.kind = "none" -> Done(r, "401")
             [] production /\ t.kind # "none" /\ cache # NoKeys -> Done(r, Verdict(t, cache))
             [] OTHER -> step' = [step EXCEPT ![r] = "sent"] /\ UNCHANGED answer
    /\ UNCHANGED <<server, cache, fetched, newest>>

(* Cognito serves the key set.                                             *)
FetchServed(r) ==
    /\ step[r] = "sent"
    /\ step' = [step EXCEPT ![r] = "served"]
    /\ fetched' = [fetched EXCEPT ![r] = newest]
    /\ UNCHANGED <<server, cache, token, answer, newest>>

(* The answer replaces the cached set, whatever another request put there  *)
(* meanwhile, and the rest of the check uses it.                           *)
FetchAnswer(r) ==
    /\ step[r] = "served"
    /\ cache' = fetched[r]
    /\ Done(r, Verdict(token[r], fetched[r]))
    /\ UNCHANGED <<server, token, fetched, newest>>

(* Broken variant: the fetch is tried again without limit.                 *)
FetchFails_Retries(r) ==
    /\ step[r] \in {"sent", "served"}
    /\ step' = [step EXCEPT ![r] = "sent"]
    /\ UNCHANGED <<server, cache, token, fetched, answer, newest>>

(* The request for the key set fails or takes longer than ten seconds.     *)
FetchFails(r) ==
    /\ step[r] \in {"sent", "served"}
    /\ Done(r, "503")
    /\ UNCHANGED <<server, cache, token, fetched, newest>>

(* The body is no JSON: no httpx.HTTPError, so that nothing handles it.    *)
FetchGarbled(r) ==
    /\ step[r] = "served"
    /\ Done(r, "unreadable")
    /\ UNCHANGED <<server, cache, token, fetched, newest>>

(* Cognito starts to sign with a new key and withdraws the oldest.         *)
Rotate ==
    /\ newest < MaxRotations
    /\ newest' = newest + 1
    /\ UNCHANGED <<server, cache, token, step, fetched, answer>>

Fetching(r) == FetchServed(r) \/ FetchAnswer(r) \/ FetchFails(r) \/ FetchGarbled(r)

Next ==
    \/ Boot \/ Stop \/ Rotate
    \/ \E r \in Requests :
        Arrive(r) \/ FetchServed(r) \/ FetchAnswer(r) \/ FetchFails(r) \/ FetchGarbled(r)

Spec == Init /\ [][Next]_vars

(* The server is started again when it has stopped, and the HTTP client's  *)
(* timeout bounds every fetch.                                             *)
FairSpec == Spec /\ WF_vars(Boot) /\ \A r \in Requests : WF_vars(Fetching(r))

-----------------------------------------------------------------------------
(* Properties.                                                             *)

(* In production a handler runs only for a token that verifies, signed by  *)
(* a key Cognito still published when this process started or by a later   *)
(* one: a restart is enough to end the trust in a withdrawn key.           *)
RunsForLiveKeys ==
    [][\A r \in Requests :
        (production /\ answer[r] # "run" /\ answer'[r] = "run") =>
            /\ token'[r].kind = "genuine"
            /\ since <= token'[r].kid + 1]_vars

(* Only a rotation that this process did not see turns a genuine token     *)
(* away: while Cognito's keys are those of the process's start every 401   *)
(* is deserved, after failed and overlapping fetches too.                  *)
RefusedOnlyAfterRotation ==
    [][\A r \in Requests :
        (answer[r] # "401" /\ answer'[r] = "401" /\ token'[r].kind = "genuine")
            => newest # since]_vars

(* "Supports both uvicorn (local dev) and Mangum (AWS Lambda) execution":  *)
(* no handler of a running server meets an instance that is not set.       *)
NeverUninitialised == \A r \in Requests : answer[r] # "uninitialised"

(* A request that has arrived is answered, or dropped with the process.    *)
EveryRequestAnswered ==
    \A r \in Requests : step[r] = "sent" ~> step[r] = "done"
=============================================================================
