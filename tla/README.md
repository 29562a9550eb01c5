# arXiv Translator: a TLA+ model

The program turns an arXiv URL into a ZIP with the paper's Markdown, its
Japanese translation and a summary. Two clients (a React page and a Chrome
extension) call a FastAPI backend; the backend runs a five-stage pipeline per
job and reports through one DynamoDB row per job. Paths below are relative to
the repository's root.

Contents: [inventory](#inventory), [modules](#modules), [runs](#runs),
[fairness](#fairness), [proofs](#proofs), [disagreements](#disagreements),
[conditions](#conditions), [limits](#limits), [plan](#plan).

## Inventory

### Backend

**Job store** (`backend/src/services/job_manager.py`, `models/job.py`).
State: one row per job: `status`, `current_step`, `progress`, `download_url`,
`local_result_path`, `error`, `cancel_requested`, `ttl`. Operations: `create_job`
(put_item), `update_progress`, `set_result`, `set_error`, `request_cancel`,
`set_cancelled` (update_item each), `get_job`, `is_cancel_requested`. Every call is
one atomic DynamoDB operation and there is no lock; all but `request_cancel` are
unconditional, and `update_item` creates the row it does not find. Hard: writers of
one row do not know of each other; TTL deletion; a call that raises after it was
applied. Correct when no write loses the cancel flag, a terminal status stays, and a
row is never half a row.

**HTTP API** (`api/routes.py`). `POST /convert` creates the row and dispatches;
`POST /jobs/{id}/cancel` reads the row, answers 404 or 409, or raises the flag and
answers 200; `GET .../status` and `GET .../download` only read. Hard: the two calls of
a handler are not atomic. Correct when a 200 to a cancel is true.

**Start-up** (`main.py`, `config.py`) and **authentication** (`api/auth.py`). State of a
process: the service instances handed to the routes, and the cached key set (JWKS) of
Cognito. Hard: the instances exist only where the lifespan runs; fetches of the key set
overlap, fail, and answer in any order; keys rotate under the cache. Correct when no
handler meets an instance that is not set, and a token is judged by keys that were
valid.

**Dispatchers** (`services/pipeline_dispatcher.py`, `pipeline_handler.py`). Deployed:
an asynchronous invoke of a second Lambda, delivered at least once and retried after a
crash or a time-out. Local: an asyncio task in the server's own process. Hard: the same
pipeline code runs under two concurrency regimes. Locally the blocking boto3 calls
make everything between two suspensions atomic; in Lambda nothing is.

**Pipeline** (`agents/orchestrator.py`). State: the stage, and in an LLM stage two tasks,
the call and a poller of the cancel flag. Each stage is check flag, publish progress,
work. `except` clauses turn a cancel, a PDF-only paper, a pandoc error and everything
else into a status. Hard: call and poller end in either order or die; writes inside
`except` fail too. Correct when a cancel is noticed within one stage, a cancelled job
does not complete, and every job ends.

**Paper tools** (`tools/arxiv.py`, `tools/tex_to_markdown.py`, `tools/markdown_layout.py`,
`tools/image_convert.py`, `tools/packaging.py`), the deterministic stages. From the
archive: a main file is chosen, `\input` and `\bibliography` expanded, the title block
moved to where pandoc renders it, PDF figures converted to PNG. Then passes before and
after pandoc, and a ZIP. Hard: cycles and common inputs; marks in comments; nested
braces; lines counted instead of matched; three places that must agree on a figure's
name. Correct when no text is lost or doubled and each link shows its figure.

**Agents** (`agents/translation.py`, `summary.py`): prompts around a call of an LLM.

### Clients

**Extension service worker** (`frontend/chrome-extension/background/service-worker.ts`).
State: a table of jobs by URL in memory, persisted to `chrome.storage.local`, and a timer per
job. Operations: START, CANCEL, GET_STATUS messages, a poll every 3 s, restore after
the browser has killed the worker. Hard: overlapping polls, a kill between the answer of
the server and the persist, an optimistic flag that is rolled back. Correct when a
started job is never lost, each job in progress is polled and no other, and what the
table says of a job is what the backend says.

**Popup** (`popup/popup.tsx`). State: the current job, an interval, which of four sections
are hidden, two disabled buttons. It is destroyed whenever it loses focus, restored from
the worker's entry, and polls the backend on its own. Hard: two pollers of one job, answers
that meet a START under way, errors put over a running job. Correct when it shows one
outcome, of the current job, and a job is not submitted twice.

**Web client** (`useJobPolling.ts`, `HomePage.tsx`, `api.ts`). State: the page's state, the job
id, three end flags, an interval. Hard: polls that overlap, and that answer after the job
id has changed. Correct when the page shows the end of its own job and stops polling only
then.

### How they interact

```
 web page -------------------+                    +-- asyncio task (local) ----+
                             +-- HTTP --> API ----+                            +-- run_pipeline --> LLM, arXiv, S3
 popup <--> service worker --+             |      +-- invoke event --> Lambda -+        |
    \__________ polls __________/          +-------------> DynamoDB row <---------------+
```

The row is the only channel between the API and the pipeline: commands go down as
`cancel_requested`, results come up as status, step and URL. The clients see the row
through `/status`.

## Modules

| module | models | kind |
|---|---|---|
| `JobManager` | `job_manager.py`, `models/job.py`, `STAGES` | functions from the item a call finds to the item it leaves |
| `ConversionService` | `routes.py`, `pipeline_dispatcher.py`, `pipeline_handler.py`, `orchestrator.py` over the table | state machine, properties |
| `JobLifecycle` | what a client is promised of `status` and `cancel_requested` | abstract specification |
| `ApiServer` | `main.py`, `auth.py`, the instances of `routes.py` | state machine, properties |
| `ServiceWorker` | `service-worker.ts`, with the browser and the backend as its environment | state machine, properties |
| `Popup` | `popup.tsx`, with the worker as its environment | state machine, properties |
| `WebClient` | `HomePage.tsx`, `useJobPolling.ts` and the components and calls they use | state machine, properties |
| `Selections` | the items of a sequence at a set of positions | operators |
| `TexText` | rewritings of TeX text in `arxiv.py` and `tex_to_markdown.py` | functions on sequences of items |
| `TexSource` | `extract_source` and `_expand_inputs` of `arxiv.py` | state machine, properties |
| `Figures` | `image_convert.py`, the ZIP members, the links | state machine, properties |
| `MarkdownLines` | passes over the lines of pandoc's Markdown | functions, reference definitions |
| `PaperTools` | composes the four above into the two stages | state machine, properties |
| `MCPaperTools` | the papers of `paper_tools`; the other modules run as they are, under their `.cfg` | |
| `*Proofs` | theorems, see [Proofs](#proofs) | TLAPS |

### ConversionService and the code

*A step is what runs between two AWS calls.* `check`, `publish`, `work`, `setResult`, ...
are the values of `pc`, one per suspended or running place of `run_pipeline`; `llm`,
`joinWatch` and `joinRun` are the three `await`s of `_run_single_agent` and `llm[r]`,
`watch[r]` its two tasks. `raising` and `fallback` are the exception on its way out of
`run_pipeline` and the report of `InProcessPipelineDispatcher._run`.

| variable | code |
|---|---|
| `table` | the DynamoDB rows |
| `convert`, `cancel`, `ack` | local state of the handlers `create_conversion` and `cancel_job`, and the last answer to a cancel |
| `pc`, `stage`, `llm`, `watch` | control of each run, a run being a pair of job and delivery |
| `stored` | jobs whose ZIP has been built, and uploaded with a bucket |
| `faults`, `crashes` | budgets of the environment |
| `late` | history variable: stages reported by a run after the flag was up |

*Two schedulers.* `InProcess` selects the dispatcher. With it, `RunTurn` and `ApiTurn`
let a coroutine move only while no other one holds the event loop, and a coroutine
holds it from one suspension to the next (`Holding`, `HandlerHolding`). None of the
`JobManager` calls suspends, although they are written `await`: their bodies call boto3
without a thread or an `await` of their own. With the Lambda dispatcher everything
interleaves. A crashed Lambda is `Crash`, its retry a `Start` of the next delivery; a restarted
server is `Restart`, after which no run goes on.

*Failures.* Any AWS call may raise: `read`, `write` (not applied) or `ambiguous`
(applied, answer lost). `Expire` deletes a row with a `ttl`.

*Abstracted.* Texts are reduced to whether they are there. The fetch, pandoc and ZIP
calls are a step that succeeds or raises one of the exceptions `run_pipeline`
tells apart. The two branches `job_manager is None` are left out: no caller in
`src/` passes none. `update_status` has no caller.

### ApiServer and the code

*A step is what runs between two awaits*, and the only await of `get_current_user` before
the handler is the request for the key set. It is split: `FetchServed`, when Cognito reads
its keys, and `FetchAnswer`, when the process uses them. A key set is the number of its
newest key, and holds the newest two; a token has a kind and the number of the key that
signed it. A fetch that is served may also be unreadable (`FetchGarbled`: no `httpx.HTTPError`, so
500 where the other failures are 503). `Verdict` is what follows the key set: the look-up of the key and the decoding.
`cache` is `_jwks_cache`, which no step but a fetch and the end of the process changes.
`Boot` and `Stop` are the process, `ready` whether `init_routes` was called; `Lifespan` is
what tells uvicorn from `Mangum(app, lifespan="off")`.

### ServiceWorker and the code

*A step is what runs between two awaits.* `start` and `cancel` say where the handlers of
START_CONVERSION and CANCEL_CONVERSION wait: for the backend (`request`) or for
`chrome.storage.local` (`persist`). `activeJobs` is the map of that name, `timers` the keys
of `pollingIntervals`, `polls` the calls of `pollJobStatus` that wait for an answer, several for
one job when they overlap. `stored` and `writes` are the stored copy and the calls of
`set` on their way to it, in order. `Kill` takes everything but `stored` and a prefix of `writes`;
`Wake` and `Restore` are the start of the next worker. `server` and `asked` are the backend, of
which only what the worker can see is kept. A poll that is answered "running" is
dropped, since it changes the progress number only.

START_CONVERSION reads storage before it does anything else, and the restore has asked for
its own read earlier, so that it is done first; CANCEL_CONVERSION reads nothing, and finds no job
before the restore (no action: it changes no state). `urlOf` is an input chosen in `Init`: TLC
sees two conversions of one URL and of two.

### Popup and WebClient and the code

In both, a poll is a pair of its job and what the backend answered, or `"sent"`: it is served
at one moment and applied at another, and several of one job are under way when an answer takes
longer than the interval. Requests are lost before or after they are served. The backend is an
environment that ends each job once, and cancels none that was not asked to.

`Popup`: `sections` are the elements that are not hidden, `submitEnabled` and `cancelGrey` the
two `disabled` attributes. `Open` is `init`, which fills them from the worker's entry; `Close`
is the destruction of the document, with every awaited answer. `waiting` are the handlers of
this popup that await the worker; `start` and `cancel` are the same requests in the worker,
where they go on after `Close`. The worker is reduced to its entry for the one URL, and to the
order in which it flags the entry, posts and takes the flag back.

`WebClient`: a step includes the render and the effects a `setState` leads to (`Rendered` is the
effect that turns the page of a completed job; the hook's effect on a new `jobId` is part of
`SubmitAnswer` and `Reset`). The hook's `cleanup` on an end clears whatever interval runs, and
an answer is applied to whatever job is shown: both are modelled as they are.

Both keep history variables, which no step reads, for the ways in which the code's unguarded
callbacks spoil what is shown. The properties name the case under which they may fail, and none
lasts longer than the state it has spoiled:

| variable | member or value | recorded when | forgotten |
|---|---|---|---|
| `Popup.disturbed` | `"late"` | an end is shown during a START, or in a new section after the polling has stopped | with the next submission, and on `Close` |
| | `"covered"` | an error is put over a job: a refused cancel, or a failed START beside a job polled or started | |
| | `"edited"` | an edit of the URL enables the submit button | |
| | `"crossed"` | the cancel button is pressed during a START | |
| | `"orphaned"` | a cancel fails whose popup was closed, with the button grey in a later one | |
| `WebClient.strays` | a job | its end is put on the page of another job | with the state of the hook |
| `WebClient.overtaken` | a job | its answer "running" takes an error off the page | with the state of the hook |
| `WebClient.displaced` | a job | the page shows something else while it is posted or followed | never: it is about that job alone |

### The paper tools and the code

A TeX text is a sequence of items, the pieces the rewritings tell apart; `\title{`, `\centering{`
and their like include the brace. A path is a sequence of names. `TexText` has
`_match_balanced_brace`, `_is_in_line_comment`, `_find_command_inner`, `_strip_command`,
`_strip_environment`, `_strip_tex_line_comments`, `_extract_metadata_and_rewrite` and
`_unwrap_brace_swallowers`. `TexSource` runs `_expand_inputs` as a stack of calls with its two
passes, `seen` being the set that all calls share; an `\input` may name any text of the archive, a
`.bbl` too, and a `\bibliography` a list of names. `Figures` takes one step per file of
`convert_pdf_figures_to_png`, with every way `pdftoppm` and `unlink` fail, and `ZipMembers` and
`Link` are the two other places that name a figure. `MarkdownLines` has the two passes that
keep a count, next to reference definitions that match tags and look back.
`PaperTools` runs fetch, figures, conversion; pandoc is external: it answers with lines that
are an input, or fails.

*Broken variants.* A definition with a suffix (`CheckCancelled_NotLast`, placed before
the definition it varies) is the same handler with a plausible mistake. No
specification uses one; substituted for the real definition each makes a
property of a run fail, which is how the properties were shown to bite.

## Runs

`CHECK_DEADLOCK FALSE` appears where the system really stops: a finished run and an idle
client leave nothing to do, as does a worker or server that has been stopped as often as the
bound allows. `paper_tools` and `lambda_live` check for deadlock: no paper gets stuck between
its stages.

| run | setting | shows |
|---|---|---|
| `lambda_redelivery` | Lambda, 2 deliveries duplicated or retried, every fault, 1 crash | `CancelObservedWithinOneStage`: a run reports at most one stage after the flag is up; `FlagSurvives`; `FlagRaisedInFlight`; `RowsAreWhole` |
| `lambda_live` | Lambda, 2 deliveries, 1 crash, fair | `TypeOK`, `SettlesForGood`, `CancelSettles` |
| `inprocess_faults` | event loop, 2 faults of any kind, restart, TTL deletion | `CompletedNotCancelled`; `FallbackKeepsOutcome` |
| `inprocess_live` | event loop, 1 lost write, fair | `AckMeansFlag`, `CompletedHasResult`, `SettlesForGood`, and `RefinesLifecycle`: the stronger `JobLifecycle` in which a recorded cancel wins |
| `api_server` | 2 requests, 2 rotations, 1 restart, fetches that fail or are unreadable, fair | `RunsForLiveKeys`, `RefusedOnlyAfterRotation`: what the cached keys cost and what not; `NeverUninitialised`; `EveryRequestAnswered` |
| `service_worker` | 2 conversions, 1 kill, cancels of one job | `StartedIsDurable`: what was answered with success survives a kill; `PolledIffProcessing`; `TableIsTrue`; `CancelFlagIsHonest`; `TableNeverForgets`: the stored table only moves forward |
| `service_worker_live` | 2 conversions, 1 kill, failing polls, fair | `TrackedSettles` |
| `popup` | 2 starts, cancels of one, 2 polls of a job together, fair | `DownloadIsCurrent`, `OneOutcome`, `SubmittedOnce`, `GreyMeansAsked`, `OpenPopupSettles` |
| `web_client` | 2 submissions, 2 polls of a job together, fair | `EndIsOwn`, `StoppedMeansShown`, `ProgressIsVisible`, `GreyMeansAsked`, `PageSettles` |
| `paper_tools` | seven families of papers | `DocumentIsWhole` (`EachFileOnce` and `NothingIsLost`): the expansion doubles, loses and adds nothing; `TextIsKept`: pandoc renders the words of the title block, and the others, as often as a reader is meant to see them; `WrapperIsRefused`: an embedded PDF is found, wherever it stands; `NothingIsSwallowed`, `LinkShowsFigure`, `WrappersGoWhole`, `CaptionsAreNumbered` |
| `bug_packaging_cancel` | Lambda, nothing fails | a violation, see [Disagreements](#disagreements) |
| `bug_lifespan` | `api_server` without the lifespan | a violation |

*Bounds.* For the backend the bounds that matter are two deliveries (the smallest number that
races), one or two faults (one to lose a write, a second to lose the report of the first) and
one crash; rows share nothing, so one job is enough. For the server, a second request makes
fetches overlap, two rotations withdraw a key (two are published at a time), a restart shows
what it forgets. For the worker two conversions replace each other or share the table, and
after one kill a second worker meets what the first left. For the clients, a second job meets
what the first left behind, and two polls of one job are what it takes for an older answer to
come last, or for one to come after the end has stopped the polling. The theorems below cover
the safety properties without these bounds.

*Inputs of `paper_tools`* (`MCPaperTools`). *Nested*: a main file with every pair of seven
directives, two files that may name each other and the main file, a name that exists in two
directories, a bibliography that inputs, and `MaxInputDepth` 2 where the code has 10, so that the
limit is met. *Bibliographies*: two `.bbl` files in either order, each listed first, second, after
a missing one or not at all, and read by an `\input` before or after. *MainChoices*, *Others*: which file is taken, and payloads that are no archive of TeX.
*Titled*: every pair of preamble pieces and an author, with commented-out templates and an embedded
PDF among them, with every way `\maketitle` or an abstract opens the body and with swallowers
nested, closed or not. *WithFigures*: every list of up to three of eight files that share a name, a
stem, a directory or have two dots. *WithMarkdown*: every sequence of up to five lines of the kinds
the div pass tells apart, and of up to four for the captions.

## Fairness

A handler between its two calls goes on (`WF` on `ConvertDispatch`, `CancelWrite`). A
run and its watcher go on under `SF`: locally a ready callback of asyncio's FIFO loop
is run although others are run in between, so a step that is enabled again and again is
taken; in Lambda, where nothing disables a step of a run but the run, it says no more
than `WF`. Nothing obliges a client to cancel, Lambda to fail or the LLM to answer:
`SettlesForGood` names the last as its antecedent `LLMAnswers`, and `CancelSettles` does
without it, since ending a stuck call is what the watcher is for. A crash counts
against a bound below the number of deliveries, as Lambda's retries do.

For the worker, `TrackedSettles` assumes that the browser starts it again (the user opens the
popup some day: an interval does not wake a killed worker), that storage and intervals
work (`WF`), that a backend job ends (`SettlesForGood`), and that not every poll of a job
fails (`SF` on its answer): `pollJobStatus` promises to "keep retrying", which helps no
more than that. Kills are bounded.

For the server, a fetch of the key set ends (`WF` on `Fetching`: the HTTP client has a timeout
of ten seconds, so it is answered or fails), and a process that has ended is started again.
For the popup and the page, an interval fires while it runs and the backend serves a poll
(`WF`), and not every answer with an end is lost (`SF`); that a job ends is an antecedent, and
nothing is assumed of the user.

## Proofs

The theorems about the backend's jobs hold for every set of jobs and every number of deliveries,
faults and crashes. They rest on `ConstantsOK`, the types of the constants, and on what each line
names: `~Expiry`, no TTL deletion during the job (the rows live an hour), or `InProcess`, the
local dispatcher.

| theorem | property | under |
|---|---|---|
| `ConversionProofs!TypeCorrect` | `TypeOK` | |
| `CancelWins` | `CompletedNotCancelled` | `InProcess` |
| `FlagIsKept` | `FlagSurvives` | |
| `FlagOnlyInFlight` | `FlagRaisedInFlight` | |
| `OneStage` | `CancelObservedWithinOneStage` | `~Expiry` |
| `AckIsTrue` | `AckMeansFlag` | `InProcess`, `~Expiry` |
| `FallbackIsSafe` | `FallbackKeepsOutcome` | |
| `ResultIsThere` | `CompletedHasResult` | `~Expiry` |
| `RowsStayWhole` | `RowsAreWhole` | `~Expiry` |
| `ImplementsLifecycle` | `RefinesLifecycle` | `Mild` |

None of the properties is inductive. The invariants they rest on:

- `TypeInv`: `TypeOK`, and a run whose LLM call ends is at one of the two agent stages; without
  that `stage + 1` leaves `Stages`.
- `CancelInv`: between a run's last look at the flag and the write that completes the job
  (`PastLastCheck`) the flag is down. It is inductive because `CancelWrite` needs the event loop,
  and a run past its last check is holding it: the one step that uses `InProcess`, and
  `bug_packaging_cancel` is the same statement without it.
- `OwnerInv`: a run only exists for a job whose row has been created, so that `convert` never
  puts a row over one in use. With it `RowSteps` lists, for any step, the few ways a row changes;
  `FlagIsKept` and `FlagOnlyInFlight` follow from the list.
- `LateInv`: a run that is about to report a stage has reported none since the flag went up: one
  that has meets the flag, which is still there, at its next look. This is the whole
  argument for one stage.
- `AckInv`, `FallbackInv`: what a handler, or the dispatcher's error report, read is still so
  when it writes, since the event loop is not given up in between.
- `ResultInv`: a run that is about to announce its result has built it, and every row in use is
  there and whole.
- `PhaseInv` (under `Mild`): where a run is tells what its row's status can be. `Mild` is
  `~Expiry`, one delivery for each job and writes that fail unapplied; the disagreements below
  say what each of the three keeps out. `ImplementsLifecycle` covers both dispatchers; in-process
  it needs `CancelInv` too.

The theorems about the server and the clients hold for every number of requests, rotations and
restarts; of conversions, URLs, cancels and kills; of submissions and overlapping polls. They
rest on the types of the constants and on the placeholders being none of the values they
stand beside.

| module | theorem | property |
|---|---|---|
| `ApiServerProofs` | `TypeCorrect` | `TypeOK` |
| | `OnlyLiveKeysRun` | `RunsForLiveKeys` |
| | `OnlyRotationRefuses` | `RefusedOnlyAfterRotation` |
| | `LifespanInitialises` | `NeverUninitialised`, under `Lifespan` |
| `ServiceWorkerProofs` | `TypeCorrect` | `TypeOK` |
| | `EachIsPolled` | `PolledIffProcessing` |
| | `TableTellsTruth` | `TableIsTrue` |
| | `StorageMovesForward` | `TableNeverForgets` |
| | `StartsAreKept` | `StartedIsDurable` |
| | `FlagsAreHonest` | `CancelFlagIsHonest` |
| `PopupProofs` | `TypeCorrect` | `TypeOK` |
| | `DownloadsCurrent` | `DownloadIsCurrent` |
| | `OutcomesAlone` | `OneOutcome` |
| | `SubmitsOnce` | `SubmittedOnce` |
| | `GreyIsAsked` | `GreyMeansAsked` |
| `WebClientProofs` | `TypeCorrect` | `TypeOK` |
| | `EndsAreOwn` | `EndIsOwn` |
| | `PollsUntilShown` | `StoppedMeansShown` |
| | `ProgressShown` | `ProgressIsVisible` |
| | `GreyIsAsked` | `GreyMeansAsked` |

`TypeOK` of these modules is proved and no run lists it.

- `KeysInv`: what is cached or on its way was published since the process started, and a process
  that is down has no cache and awaits nothing. `Judged` says by which key set a request was
  answered; both action properties follow from it.
- `WorkerInv`: before its restore a worker has nothing and does nothing (`Asleep`); a job is placed
  by the answer to its start and polled only once that is written (`InOrder`); every table, those
  being written included, has each job under its own URL and only ends that are the
  backend's (`TablesFit`).
- `InLine`: the stored table is behind each write under way, those behind each other in their order,
  and all behind the table in memory, where "behind" is what `TableNeverForgets` says of two
  tables (`Forward`). It rests on `TablesFit`: two polls of one job tell the same end.
- `Durable`: a start that is being written is in storage or in a write that belongs to it.
- `FlagInv`: before the first kill nothing was restored, so that every flagged entry was flagged
  by a handler of this worker.
- `PopupInv`: a closed popup has no state (`ClosedIsEmpty`), what it heard is true of its job
  (`Heard`), and what the sections show beside a START, a polled job or a stopped interval depends on
  what has crossed (`DownloadInv`, `OutcomeInv`). `GreyInv` follows a grey button to a request of
  this popup, or to one on its way in the worker, whose entry says so (`FlagInv`): this is what
  holds through closing and reopening.
- `WebInv`: `Heard`; an end not in `strays` is that of the page's own job; `ShownInPlace` and
  `PostedInPlace`: a job that is shown, or posted, and not in `displaced` has the page, and so no two
  of them do. The last is what a single submission at a time would give: a late error lets the page
  be reset during a submission, two submissions are then under way, and the second takes over the
  cancel button of the first. TLC needs three submissions to see that.

### The paper tools

The theorems hold for every set of papers that meets `SourceConstants` and `PaperConstants`, for
every depth limit, every order in which a directory may list files of one name, and every outcome
of `pdftoppm`, `unlink` and pandoc. The two assumptions give the inputs their types and say that a
word which stands for a file stands in that file alone: the words are how the properties tell
which file a piece of text is from, and the code does not look at them.

| module | theorem | property |
|---|---|---|
| `PaperToolsProofs` | `PaperInvariant` | the invariant below |
| | `ExpansionIsWhole` | `DocumentIsWhole` |
| | `RewritingKeepsText` | `TextIsKept` |
| | `WrappersAreRefused` | `WrapperIsRefused` |
| | `SwallowersAreUnwrapped` | `NothingIsSwallowed` |
| | `LinksShowFigures` | `LinkShowsFigure` |
| | `WrappersAreStripped` | `WrappersGoWhole` |
| | `CaptionsGetNumbers` | `CaptionsAreNumbered` |

- `SourceInv` is about the stack of calls of `_expand_inputs` as a whole, since a step only moves
  text within it. Files that were taken up, and files a directive still to be read names, belong to
  the document (`OnlyDocument`). A directive of a file taken up names another such file, or some
  call has still to read it (`AllFound`); the case that makes this subtle is a `\bibliography` in
  the text an inner call hands back, which the second pass of an outer call reads again. Every other
  item is held by some call (`NothingDropped`), and the words of a file occur in all calls together
  as often as the file was taken up (`Counted`). When one call is left and has read everything,
  these are `EachFileOnce` and `NothingIsLost`, which make `DocumentIsWhole`. The document is
  defined as the least set closed under the names in its files, so that `OnlyDocument` is one half
  of it and `AllFound` the other; the depth limit breaks the second half, hence `cut`.
- `FiguresInv`: what is packed for a figure already dealt with shows it, and a file that
  shows a PDF other than itself is of one that was converted (`PngsAreDone`), so that the link to a PDF
  that was not converted meets none. A conversion may overwrite
  a PNG of the archive and remove its PDF; what it must not touch is the PNG of another PDF
  (`PngInjective`) and a figure that still waits.
- `Stages` ties the stages together: the source is a sequence of items (`RewrittenType`); the text
  taken up is the rewritten expansion, and that of an archive embeds no PDF (`Taken`); what pandoc
  was given and answered went through `Unwrapped` and `Passes`.

Under these lie results about the pure functions, for every input of the type; those about TeX text
are `TexProofs`. A position closes a group where the level of the braces is first back to what it
was (`ClosingIs`), so that groups nest (`Inside`), and `UnwrappedIs` goes down from the last
position to show that `Unwrapped` is the text at the positions that are neither commands nor their
braces. `StaysBalanced`, `WrappersGo` and `Captioned` in `PaperToolsProofs` are the same kind of
argument for the line scans: what the scan holds after `n` lines, against a definition that matches
tags or looks back.

*The title block.* With `Taken`, `RewritingKeepsText` and `WrappersAreRefused` are facts about one
text `s` and `Rewritten(s)` (`TextRewritten`, `WrapperKept`). Their argument counts, for a set `Y` of
items, the positions outside comments that hold one (`Shown`):

1. What `Without` returns is the text outside the spans it is given (`WithoutIs`), so that three
removals one after the other must be shown to find in the shorter text the spans they would find in
the whole one. They do when the parts stand apart (`PartsApart`): a group that is there as a whole
is closed by the same item (`ClosingMoved`), an abstract by the same `\end` (`AbstractLeft`). So
they leave exactly what stands in no part (`StripIs`). 2. A part that starts in a comment ends in
it, and one outside ends outside. What is left is therefore in a comment where it was before
(`CommentsKept`, `RestComments`), and in the body where it was before (`RestBody`). 3. The block
shows what the live parts showed, once (`BlockShown`): cleaning drops comments and starts none
(`CleanShown`), and the pieces put around the three parts open no comment either. 4. Each place for
the block is a cut between a text that ends outside comments and a rest (`PlacedParts`), and what
two such texts show adds up (`ShownConcat`). Placed in the body the block is rendered
(`PlacedText`); placed anywhere it is in the text (`PlacedRange`), which is all that
`_PDF_WRAPPER_DIRECTIVE` needs.

Each condition of `WholeBlock` and `Regular` is used in one of these steps, and
[Conditions](#conditions) says what the code does without it.

*Induction over data.* The library's induction theorems take an operator as parameter, which the
provers cannot instantiate. `SequenceProofs` does without: `LeastNat` (a set of naturals has a least
member), `Induction` for the members of a set, and `Recursion`, by which a function defined from
`f[n - 1]` exists. That is why the recursions of `TexText` and `MarkdownLines` are functions on
positions. The rest of the module is what the proofs need of sequences: counting, ranges,
selections in order, and the nesting of what opens and closes.

### Only model-checked

- The liveness properties (`SettlesForGood`, `CancelSettles`, `TrackedSettles`,
  `EveryRequestAnswered`, `PageSettles`, `OpenPopupSettles`): temporal proofs with fairness are out
  of the prover's reach.
- ENABLED, for the same reason: that no paper gets stuck between its stages is the deadlock check of
  `paper_tools`.

Every safety property that a passing run checks is proved.

## Disagreements

Each run ends with a counterexample.

| run | property | the code | says |
|---|---|---|---|
| `bug_packaging_cancel` | `CompletedNotCancelled` | Lambda: a cancel recorded while the ZIP is built is answered 200 and the job completes | `orchestrator.py:257`: a cancel during packaging "is observed when that stage ends" |
| `bug_lifespan` | `NeverUninitialised` | `main.py:122` builds the Lambda handler with `lifespan="off"`, and only the lifespan calls `init_routes`: every route but `/health` answers 500 | `main.py:5`: "Supports both uvicorn (local dev) and Mangum (AWS Lambda) execution" |

Five more were met. No run is kept for them: a property of the table above says the same under a
condition, and fails without it.

- `cancel_job` drops the result of `request_cancel` (`routes.py:181`) and answers 200 for a job
  that has just ended, where its docstring says 409 (`routes.py:163`). `AckMeansFlag` holds with
  `InProcess`, and fails with the Lambda dispatcher.
- A read error in the cancel watcher (`orchestrator.py:222`) ends the job as `cancelled`, which
  `set_cancelled` is to be called for "after it observes the flag" (`job_manager.py:276`).
  `RefinesLifecycle` fails with `"read"` in `Faults`.
- A Lambda that dies after its last write runs again and takes the finished job back to
  `tex_fetch` (`job_manager.py:141`; `job_manager.py:24` has it that atomic operations suffice).
  `RefinesLifecycle` fails with two deliveries. It fails with `"ambiguous"` in `Faults` too:
  when `set_result` is applied but raises, the generic `except` of `run_pipeline` turns the
  completed job into `error`.
- A write after the TTL deletion (`job_manager.py:240`) leaves a row without `ttl`, which nothing
  cleans up (`job_manager.py:5`). `RowsAreWhole` fails with `Expiry`.
- The worker is killed between storing `cancelRequested` and the POST (`service-worker.ts:314`):
  the restored job's button stays grey and the backend was never asked, although the flag is to be
  true "while the request is in flight" (`service-worker.ts:41`). `CancelFlagIsHonest` holds
  until the first kill.

## Conditions

Where the code is right only under a condition, the property states the condition. What it keeps
out happens:

- *Web page.* An answer of the previous job is applied to the new one and stops its polling
  (`strays`). A late "running" takes an error back after the polling has stopped: progress for ever
  (`overtaken`). A submission from a completed page counts as completed at once, and its progress is
  hidden; a page that is left while its job is posted or followed shows neither progress nor button,
  and the next job may find the button grey (`displaced`). A failed cancel of one job enables the
  button of another: a second request is then possible, of which no property speaks.
- *Popup.* An edit of the URL (`"edited"`), a refused cancel and a failed START (`"covered"`) enable
  the submit button while a job is polled. An end that arrives during a START is shown beside the
  new job's progress, with the old ZIP behind the button (`"late"`). A popup reopened during a cancel
  stays grey when that fails (`"orphaned"`), and the button pressed during a START asks for the job
  before (`"crossed"`). Each of the properties holds again from the next submission on.
- *Server.* After a rotation the process has not seen, genuine tokens are refused, and those of a
  withdrawn key accepted, until a restart.
- *Expansion.* The main file is in no `seen` set and comes twice when an input names it. A file
  that two files input is inlined once, though the comment speaks of cycles. A commented-out
  `\input` is expanded and only the first line stays commented. A plain `.tex` payload skips the
  expansion, the title block and the wrapper check; a gzipped single file is no tar and an error. A
  commented-out `\includepdf` makes the paper refused like any other.
- *Title block.* `_strip_tex_line_comments` cuts at `\%`, which `_is_in_line_comment` does not take
  for a comment. A `\maketitle` or an abstract in a comment misleads the placement, as does a second
  `\begin{document}` or one in a comment; an author without title and abstract is dropped, of two
  titles the second is. All titles are removed and the first live one is put back, so that an
  `\includepdf` in another goes unnoticed. An abstract that is not closed is left as it stands. A
  commented-out title that runs over its line takes the line break along, and what follows it ends
  up in the comment; a title within another leaves the end of the outer one behind.
- *Figures.* `fig.v2.pdf` is converted to `fig.v2.png` and looked for as `fig.png`. Figures of one
  name in two directories collide in `images/`. Of the other figures `LinkShowsFigure` says what each
  reference comes to, broken links included (`Resolves`): a link to an EPS, or to a PDF that was not
  converted, is rewritten to `.png`, which nothing makes; a reference without extension is taken to
  be `.png`, also when the file is a `.jpg`.
- *Markdown.* A wrapper around another `<div>` takes the closing tag of that one. A definition list
  right below a table is numbered like a caption: `Captions` does not tell the two apart.

## Limits

- In-process, a restart of the server leaves its jobs in flight for ever. No document
  promises otherwise, so no run states it; safety survives it (`inprocess_faults`).
- `GET /status` is a pure read and has no action. The watcher's poll is a step that may be
  taken at any time; the interval is not modelled.
- Reads of DynamoDB are taken as strongly consistent. `get_item` is called without
  `ConsistentRead`, so a deployed table may answer with an older row, and a flag be seen
  a moment later than written.
- `chrome.storage.local` answers in the order of the calls and does not fail; a failed restore
  is only logged by the code, which then writes its empty table over the stored one.
  Left out of `ServiceWorker`: the badge, DOWNLOAD_RESULT and GET_STATUS (reads), progress (which a
  late answer may lower, `service-worker.ts:428`), a CANCEL before the restore, which is answered
  "not found" (`service-worker.ts:468`), the 24 h limit on old jobs and the legacy key (lines 150 to
  175), each with one more write of the table during the restore. START_CONVERSION does not await the
  restore either (`service-worker.ts:462`): `StartRequest` comes after it because of the order of the
  two reads, and only because of that. A job is cancelled by one message at a time.
- Left out of `Popup`: the settings panel, the hints, submissions without key or URL, other
  tabs, and kills of the worker. Left out of `WebClient`: progress numbers (the button is hidden
  at 100, which the backend reports with the end only), messages, a second cancel of a job while the
  first is under way, and the double mount of development builds.
- `TexSource` compares paths as they stand, where `_resolve` follows links and `_replace_bibliography`
  does not (`arxiv.py:405`, `:429`): the same on a tree without symbolic links.
- Left out of the paper tools: the commands of the ICML style and `\thanks`, arXiv ids, the
  citation, spacing, cross-reference and display-math substitutions, which look at one match at a
  time, and the member names of the ZIP with the id in them.
- Not modelled: `html_to_markdown.py` and the HTML half of `arxiv.py`, which nothing in `src/`
  calls; the agents' prompts; the CDK stacks beyond retries, time-out and TTL; the
  styling and markup of the clients.

## Plan

Done: the service core, its life cycle and refinement; the server's start and authentication; the
three clients; the paper tools; the safety theorems of all of them. Left, in this
order:

1. `ServiceWorker` with a storage that fails, and with the pruning of old jobs.
2. `Popup` over `ServiceWorker` itself, with kills, in place of the reduced worker.
3. The citation and cross-reference passes, once they keep state between matches.
