# PromptCAD Studio in TLA+

PromptCAD Studio turns a prompt, an edited document, an image or a DXF drawing
into CAD sources, rendered artifacts and, on request, a manufacturing drawing
that people review. Two kinds of things are hard to test in it: what outlives a
request or is shared between processes (queue, workers, reviews, slots, the
page), and what must agree although it is computed in several places (planner,
validator, four compilers, the drawing). The modules are about both. They are
checked by TLC and, where it says so, proved by TLAPS. Paths are relative to the
repository; line numbers are in `PROJECT.json` (`map`).

## The system

| Component | State it keeps | Operations | Shared with |
|---|---|---|---|
| Durable job queue, `app/services/async_queue.py` | one SQLite table (WAL) | enqueue, get, list, claim (recovers expired leases), heartbeat, is_cancel_requested, cancel, complete, mark_cancelled, mark_failed, fail | API threads, CLI, every worker process |
| Queue worker, `app/worker.py` | main thread, one heartbeat thread per job | process_next, _process, _mark_cancelled_if_owned, _fail_if_owned, _heartbeat_loop, run_forever | queue table, job directories |
| Job pipeline, `app/services/job_service.py` | job directory, manifest | plan, generate, generate_from_spec, _materialize, mark_cancelled | worker, synchronous API |
| Manufacturing review, `job_service.py`, `manufacturing.py`, `models/manufacturing.py` | snapshots, PDFs, drawing specs, claim files, a lock per process and a file lock | create, get, transition, recovery of an expired claim, bundle | API processes, readers without a lock |
| Job storage, `app/services/storage.py` | files | replace, create once, read | all of the above |
| Renderer, `app/services/renderer.py` | child process group, staging directory | render, _run, terminate, promote | render slots, cancel check |
| Backend registry, `backends.py`, `external_adapters.py` | none | select, capabilities | pipeline |
| Admission and slots, `core/request_limits.py`, `job_service.py` | semaphores | admit, analyse with time limit, render | event loop and threads |
| Planners, `services/planners/` | none | choice of a planner, LLM call with retry, fallback, rule parser, standards agent, intent to document | pipeline |
| Validator, standards, source compilers, preview, drawing PDF | none | functions of a document | pipeline |
| Image and DXF analysis | signing key of the process | analyse, feature tree to document | admission, child process |
| HTTP API, configuration, CLI, scripts | none | one call each | services |
| Web page, `app/static/app.js` | active job, active review, monitor version | enqueue and monitor, cancel, review | API |

Interactions: the API enqueues rows and sets cancel flags; a worker claims a
row, keeps it by renewing its lease, asks the row for cancellation between
stages and from inside the renderer loop, writes a manifest into a new job
directory and then publishes its name in the row; the review starts from a
manifest and adds files to the job directory.

Hard behaviours: leases that run out under a live worker; crashes between the
row and the manifest; cancellation at any instant; two server processes
deciding the same version of a drawing; crashes between the files of one
review version; readers without locks; limits (backlog, attempts, slots); a
language model that fails in many ways; one document that four compilers place
by conventions of their own.
`PROJECT.json` lists each hazard at its line with the properties that watch it.

What makes each component correct:

* queue: bounded backlog, no row that nothing can ever move, settled rows
  final, cancellation wins, leases respected, first come first served, every
  job eventually settled;
* worker: only the current attempt publishes, rows name manifests that say the
  same, a manifest is rewritten only for a cancelled row, no job ends the
  process;
* review: one linear history without gaps, committed files never lost, true
  answers, no version blocked by a transition that failed, no reader told of
  damage that is not there;
* renderer: no child process outlives the call, no partial set of outputs is
  reported as complete; slots: never more work than slots, every slot given
  back once; page: a job it submitted is not lost from sight, and late
  analyses are dropped;
* planners: the planner that was asked for, or a fallback that is allowed; every
  hole that was asked for; no invention the validator would refuse;
* validator and DXF: the outline and the holes are those of the drawing, and what
  has no error is a solid with its holes in it;
* compilers and drawings: the same solid whichever backend makes it, and a
  manufacturing drawing that says nothing else about it.

## Modules

| Module | Models |
|---|---|
| `AsyncJobQueue` | the queue table under its most general clients: any worker may call any method on any row at any time |
| `MCAsyncJobQueue` | its instance for TLC |
| `QueueWorker` | extends the table with worker processes, heartbeat threads and manifests; its callers are those of `worker.py`; has the refinement mapping to `DurableJob` |
| `DurableJob` | what one job promises its user, abstractly |
| `MCQueueWorker` | instances |
| `QueueWorkerProofs` | theorems about the queue and about its workers, and that they implement `DurableJob` |
| `ManufacturingReview` | the review protocol on the job directory, with several processes, crashes, refused writes and readers |
| `ReviewLedger` | what the review promises, abstractly: a ledger with one entry per version |
| `MCManufacturingReview` | its instance |
| `ManufacturingReviewProofs` | theorems about it, and that it implements `ReviewLedger` |
| `JobPipeline` | one job from the choice of a backend to its manifest: registry, `_materialize` and `Renderer.render` together |
| `MCJobPipeline` | instances |
| `JobPipelineProofs` | theorems about it |
| `RendererRun` | `Renderer._run` and the render slots: threads, child process groups, cancellation, limits |
| `MCRendererRun` | its instance |
| `RendererRunProofs` | theorems about it |
| `WebPage` | the page's variables and buttons, its handlers and every answer they wait for |
| `MCWebPage` | its instance |
| `WebPageProofs` | theorems about it |
| `AnalysisSlots` | admission of uploads and the slots of image and DXF analyses |
| `MCAnalysisSlots` | its instance |
| `AnalysisSlotsProofs` | theorems about it |
| `ProfileGeometry` | closed profiles of straight lines on a lattice, without rounding |
| `DesignRules` | the errors of the validator, as functions of a document |
| `DxfAnalysis` | a drawing from its entities to a validated document, and the user's edited tree |
| `MCDxfAnalysis` | families of drawings and documents |
| `Intent` | an intent to a document, and recognised words to an intent |
| `Planning` | the planner factory, the calls of a language model, retry and fallback; extends `DxfAnalysis` and `Intent` |
| `SourceCompilers` | the sources of CadQuery, build123d, OpenSCAD and FreeCAD, as primitives that are joined and cut |
| `DrawingSpec` | the default manufacturing drawing, the schema of a drawing, and its resolution against a document |
| `PartSolid` | composes them: drawing, prompt or document, to the validator, to a source and to a manufacturing drawing |
| `MCPartSolid` | its instance: the families of `MCDxfAnalysis`, prompts, and answers of a language model |
| `DocumentProofs` | theorems about the way to a document: the outline and the holes of a drawing, and plans |
| `PartSolidProofs` | theorems about what is made of a document: its manufacturing drawing, and the part of each compiler; extends `DocumentProofs` |

### AsyncJobQueue

`rows` is the table (`Row` has the columns the methods read or write),
`created` the `created_at` column. Each method of the class is one SQLite
transaction and hence one action: `Claim`, `Heartbeat`, `Cancel`, `Finish`
(complete, mark_cancelled and mark_failed), `Fail`. `enqueue` reads the clock
before it waits for the write lock, so it is two: `ReadClock` and `Insert` or
`RefuseFull`. A claim recovers every expired lease in the same transaction
(`Recovered`). A lease is `null`, `live` or `expired`; `Lapse` lets any live
lease run out at any time, and a claim may happen before or after. Timestamps
that order nothing are left out. `ahead` is a history variable: the jobs that
were in the table when a job's enqueue began.

Two clients never get equal `created_at` values in the model (one tick per
reading); in the code values have microseconds, and equal ones would leave the
order of those two jobs open.

### QueueWorker

`pc` follows the main thread through `process_next` and `_process`; each
statement that touches the table or the disk is a step, so that every other
process can act in between. `manifest[j][a]` is the manifest of attempt `a` of
job `j`, since each attempt creates a new directory. A heartbeat thread is a
pair in `beats`; it may renew the lease once more after the main thread went
on. A process ends by `Crash`, or by an exception nobody catches; a restarted
one has a new worker id, so a worker that is gone never comes back, and the
set `Workers` counts incarnations. `IoError` is a database that stays locked
for the five seconds of its time limit, or a disk that refuses.

`DurableJob` says of each job: it is new, open or settled, and settled for good; it is
attempted at most `MaxAttempts` times; a cancelled job settles as cancelled
even when the request comes during the last attempt; and it does settle.

### ManufacturingReview

One job directory, `Processes` that serve it, one thread per request. A
transition takes the thread lock and the file lock, reads the latest snapshot,
refuses stale and terminal requests, makes a claim file for the next version,
asks the transition table, and writes a PDF, a drawing spec and the snapshot,
which commits it. `FindClaimOver` is the recovery: it removes the files of the
version one by one (a crash may stop it between two) and then the claim. Files
are `<<version, kind, request>>`: names carry a random token, so two requests
never write the same name. Hashes are not modelled: content never changes once
written, so a file is intact when it is there. Readers (`List`, `CheckFile`)
take the bundle's view, which checks everything the review endpoint checks and
the earlier versions as well, without locks.

`Refuse` may happen to any transition, since the drawing spec's validators may
refuse a record for reasons the model does not look at. `WriteFails` covers a
refused write that left no file and one where only the removal of the
temporary twin failed, which the client sees as an error although the file is
in place. The two answers "already transitioned" and "recovery was contested"
cannot happen while both locks are held.

### JobPipeline

One job. `job` is the request with the settings that matter (`job.fallback` is
`allow_source_fallback`, `job.configured` the server's `render_backend`), and
`installed` the runtimes on the host. `Select` and `RefuseJob` are
`BackendRegistry.select`, with its three ways (`SelectNamed`, its bridge for
desktop adapters, `SelectAuto`). `CompileSources` writes the source of each
backend whose compiler does not raise. `Start` is `_choose_backend`, which asks
again what is installed and falls back by rules of its own; `NothingToRun`,
`Launch`, `RunSucceeds` and `RunFails` are the branches of `render`, and
`Promote` its copy of the outputs, file by file. `Returned`, `Failed` and
`Cancelled` are the ways back into `_materialize`, and `Report` writes the
manifest. `Vanish` takes a runtime away at any time: between selection and
start a job waits for a render slot.

A call of `_run` is one step here, and a module of its own below. `svg` is left
out, since every kernel treats it as `dxf`; SolidWorks, since it is treated as
Fusion 360. `Hosts` is `ocp_runtime_conflicted`: a host
that has both exact kernels can use neither.

### RendererRun

`pc[c]` is where the thread of call `c` is; each look at the child, each call of
the cancel check and each signal is a step, and between two of them the child's
leader or its descendants may fork, exit, hang or flood the console. The child
is the leader of a session, so one signal reaches the whole group (`Kill`), but
only if the leader is still there at that moment: a dead leader's group is left
alone. `role` tells a server, which renders for several requests at once that
nobody can cancel, from a worker, which renders for one queued job at a time
and passes a cancel check. The check reads the database and may raise
(`CheckRaises`); nothing then ends the child. `Cleanup` removes the staging
directory, which may fail under a process that still writes.

Descendants are one process; those that leave the session by themselves are
beyond the code's reach and left out. So are Windows job objects. That a server
gives up a handler while its thread renders happens only when it shuts down,
and is left out.

### WebPage

The variables of `app.js` (`activeJobId`, `activeReview`, the monitor's version,
the analysis on display, the stored job of the browser), the buttons that are
disabled, and the calls in flight. A click starts a handler that runs to its
first `await`; the answer is a step of its own, and answers come in any order,
fail or are refused. The server behind the page is a queue of jobs that workers
move on. A reload loses everything but what the browser stores.

The answer to a cancel clears whatever job the page tracks by then
(`AfterCancel`, `app.js:624-646`), and so does a poll that is answered with 404,
which is thrown before the versions are compared (`MonitorFails`,
`app.js:135-141` and `168`). Either may be about an earlier job, and drop a newer one
that is still in progress: `Misled` names the two cases, `TrackingEndsForAReason`
says there is no other, and `JobStaysTracked`, what `README.md:42` says, is violated
by them (finding). A review that arrives late is
shown although the page moved on to another job; nothing in the page compares
the two, so this is a hazard without a property.

### AnalysisSlots

A request passes the middleware's semaphore, then the service's. An image
analysis runs in a thread that a time limit abandons but cannot end: the slot
goes back when the thread ends (`AfterTimeout`), a DXF analysis in a child that
is killed in time. `AfterRefusal` is a body that is too large. Bodies are of
four kinds, and an image analysis may never end.

### ProfileGeometry, DesignRules

Pure operators. Points are on an integer lattice; lengths are compared by their
squares and areas are doubled, so the tolerances of the code, which are far
below the lattice's step, decide nothing. `Errors(doc)` is the set of codes of
severity error that `DesignValidator.validate` reports. Bases are plates,
cylinders, rings, L brackets, enclosures and profiles; holes go along any axis.
`FitsSchema` is what pydantic refuses in a document before it is validated: what
does not fit together (`BaseFits`, `HoleFits`), and a field beyond `MaxDimension`,
which is `MAX_DIMENSION_MM` (`WithinLimits`). Arcs, warnings, and the table of the NEMA17 face are left out. A hole along x
through an L bracket is compared with the box around the bracket, as in the code.

### Intent, Planning

An intent is the schema a language model answers in, `LLMIntent`; 0 stands for
null. `IntentDocument` is `intent_to_document` with every default: dimensions of
the base, positions by layout and margin, diameters from the thread, depths and
heads from the diameter and the material. `RuleIntent` is what the rule-based
planner makes of the words it found; finding them is text processing, so words
are the input. `FitsSchema` is what pydantic refuses in the resulting document.
Results that are off the lattice (half millimetres) make TLC stop with an error, so
the inputs of the instance avoid them; the one thread of the standard tables
whose clearance and tap drill are on it is M10.

In `Planning`, `ask` is the request and the settings; `effective` is the mode
after `planner_mode` has replaced `auto`. `CallFails` is what the loop of
`llm.py` catches and retries, `Declined` a refusal or a message without text,
which it does not, and `Unforeseen` an answer without choices or with a choice
of another shape, an IndexError or AttributeError that neither the loop nor the
factory catches. An answer outside the schema is a failed call; a prompt whose
rule-based document is outside of it is refused. `Made` includes the validation
in `JobService.plan`. `UsePlan` hands the document on, to a job or through the
user's hands to `/generate-from-spec`.

### SourceCompilers

A source is `[add, sub, edges]`: primitives joined, primitives cut away, edge
treatments at the end. `HolesByType`, `CenteredCutouts` and `CadQueryBase` are
the CadQuery conventions; the other three have operators of their own where
their code differs: corners instead of centres (`Corner`, `OpenScadCutout`,
`FreeCadCutout`), the bore of a ring (`Bore`), the height of the inner box of
an enclosure, and OpenSCAD's heads, which it cuts for any hole that has the
fields (`OpenScadHoles`). What a primitive is belongs to the kernels and is a
set of points (`In`), exact also for the 96-sided circles of OpenSCAD. Numbers are
twentieths of a millimetre, for the 0.1 mm by which cutters stand out.

### DrawingSpec, PartSolid

`DefaultDrawing` is `create_default`, `WellFormed` the schema, and `Fits`
`validate_against_cad`, which resolves every dimension. A nominal value has the
bound of a field (`Nominal`); without it the dimension cannot be resolved. A
drawing carries the document instead of the hash of it.

`PartSolid` puts these behind `Planning` and `DxfAnalysis`. A document that is
validated is compiled for any backend that can (`Build`), and only then does a kernel
run it; or a drawing is proposed (`Template`), or cannot be, the user edits the document, the
drawing or neither, and asks for the package (`Package`). `Means` says of a point,
from the document alone and without any cutter, whether it belongs to the part.
`Points` are the middles between all planes, edges and rims of a document, and
points outside, so that every cell between planes has one; those where cutters
stand out are not asked about (`Clear`). `HolesAreMade` says where the validator lets
a bore miss the part, in `Misses`, and asks of every other hole that it is there.

### DxfAnalysis

One drawing. `ReadEntity` is the loop over modelspace with its limits; `Link`
one turn of the greedy loop that chains segments, and `Retry` the second attempt
with the centerline; `GroupPattern` and `SkipCircle` the loop that groups equal
circles, with the choice of a pattern in `PatternOf`; `BuildTree`, `Convert` and
`Validate` the rest of `analyze_path`. A user may then send the tree back, as it
is or edited (`Confirm`), and `Convert` and `Validate` run again. Edited means that
nodes are repeated, dropped or hung elsewhere; the data in them stays what the
analysis found. Points are within their bound when they become a `Point2D`
(`InBounds`, `IsAxis`), all other numbers when the document is made (`Convertible`).
On a lattice
the only evenly spaced circles on a circle are the corners of a square
(`EvenlyOnCircle`), since no other regular polygon has integer corners; what is
computed with sines in the code is an exact quarter turn here. Documents that are
posted to `/validate` start at `Validate`.

## Runs

| Run | Instance | Shows |
|---|---|---|
| `queue_any_client` | 3 jobs, 2 workers, backlog 2, 2 attempts | the table is consistent under every client: `NoStuckRow`, `CancelWins`, `CapacityRespected`, `TerminalImmutable`, `LeaseHonoured`, `FirstComeFirstServed` |
| `worker_faults` | a good and a corrupt job, one mortal worker and one that stays, I/O errors | `ResultMatchesManifest` (with `OwnerIsCurrent`), `ManifestFinal`, `JobsSpareWorkers`, and every step is a step of `DurableJob` (`ImplementsDurableSteps`) |
| `worker_settles` | 1 job, one mortal worker and one that stays, I/O errors | `DurableJob` with its liveness (`ImplementsDurableJob`) |
| `manifest_after_crash` | as `worker_settles`, without I/O errors | `ManifestCatchesUp` is violated (finding) |
| `review_faults` | 3 requests in 6 scenarios, a process that may die, one whose writes may be refused, a reader | `HistoryIntact` (one line of versions, and every file a snapshot names), `AnswerMatchesHistory`, `ReadersNeverConflict`, `BusyOnlyAfterCrash`, the refinement of `ReviewLedger` (`ImplementsLedger`), and with fairness `EveryRequestAnswered`, `RecoverySucceeds` |
| `pipeline_vanish` | every request on every host, runtimes that may disappear, failures, cancellation, disk errors | `NoLossyOutput`, `WholeOrNothing`, `ChainTellsTheTruth` (with `FallbackOnlyIfAllowed`), `NeutralStep` |
| `renderer_calls` | 2 renders over 1 slot, in a server or a worker | `KernelsBounded`, `SurvivorsExplained`, `ResultsAreReal`, and with fairness `EveryCallEnds` |
| `page` | 3 clicks, 2 calls in flight, reloads, answers lost, late or refused | `TrackedJobAttended` (`NeverOrphaned` and `SubmitBlocked`), `AnalysisIsOfChosenFile`, `TrackingEndsForAReason`, and with fairness `TrackedJobEnds` |
| `page_drops_job` | as `page` | `JobStaysTracked` is violated (finding) |
| `slots` | 3 requests over 2 image slots and 1 DXF slot | `SlotsConserved`, `NeverBehindAbandoned`, and with fairness `EveryoneAnswered` |
| `parts` | the drawings, documents, prompts and answers of `MCPartSolid`, every backend | `ChainIsTheDrawing`, `HolesSurvive`, `ValidIsSolid`, `PlansAreSound`, `SameSolid`, `HolesAreMade`, `DrawingTellsTheTruth` |
| `dxf_cut_corner` | chamfered rectangles with one hole, `DxfAnalysis` alone | `ConvertibleHolesInside` is violated (finding) |

Bounds, and why they are enough. Three jobs over a backlog of two make
`enqueue` refuse, and let a third job overtake or be overtaken. Two workers
give an owner and the one that took over; two attempts give a retry and a
last attempt. A second good job in `worker_faults` would be independent of the
first: a worker holds one job at a time, and what one job does to another
(order) is in `queue_any_client`. One worker that may die and one that may not
are every pair the code tells apart: a dead worker differs from a slow one only
in never coming back, and the one that stays shows what may end a worker beside
a crash. For the review,
three requests give a submission and two competing decisions, or two that lose;
the transition table has no path longer than two versions, so the bound on
versions is the code's own. Who asks for what is chosen (`Scenarios`): two submissions
of one draft, two decisions on one submission, and a decision before it, each with both
ways of sharing the process that may die with the one the disk may refuse; what is
proved of the review is proved for all of them. A pipeline run has no bound to choose: all requests,
hosts and settings are initial states, and jobs do not share state except
slots. Two renders over one slot give a wait for a slot, and a second render
beside what the first one left behind; each render may call `_run` a second
time after a fallback, which begins as the first did, so one call per render
is enough. Three clicks on the page are a submission, and two more that meet it:
a second submission, a resume, a cancel or another file; two calls in flight are
one late answer and the one it interferes with. Three requests over two image
slots make one wait behind two that were abandoned.

For drawings, every sequence of three lines between the corners of a square is
there, in every direction, and every one of four that begins with the lower
side, so every order of a triangle or a square is, and every way to miss one. Polygons
through up to five points of a 3 by 3 grid include all the ways edges touch,
cross and fold back; three to six holes on a 4 by 3 grid include rows, columns,
squares, two patterns in one drawing, and rests. The limits are 8 segments, 6 holes
and 9 entities in place of the configured ones.

For parts, every template is there without any number, small, and with walls that are
impossible; groups of one to six holes have every layout along every axis, every type
with and without its sizes, and a group of more than one kind; posted documents
have every base with a hole of every type along every axis, at the edges of each wall,
and with windows in every side of an enclosure. `MaxDimension` is 200, that is 100 mm:
profiles, revolutions and brackets reach just that, or more although no field does, and
drawings have points, circles and axes on either side of it. One retry of a language model tells
the first, the last and a further call apart.

`CHECK_DEADLOCK FALSE` stands where the system really stops: where all workers
are mortal (the last may die), where the requests of a review are finitely many
(all answered), where a job has been reported, where all renders are over, and
where a drawing has been analysed or a part has been made. `page` and `slots` state it where their users are
done.

## Fairness

Only `FairSpec` has any. A worker that is not gone keeps taking steps: its loop
polls, the planner and the renderer have time limits, and
`docker-compose.yml:68` restarts an ended worker, which is why one worker of
the liveness runs is not mortal. The heartbeat thread runs beside it. A lease
that nobody renews runs out, which is the clock. Nothing is assumed of
clients, of crashes, or of heartbeats being in time: a live lease may always
lapse. In the review, a thread that can take a step takes one, locks included:
requests are finitely many, so weak fairness is enough for each to get its
turn. No process is assumed to die and no claim to expire. In the renderer,
threads run, a free slot is given to a waiter, and the clock of a child passes
its time limit; kernels may hang for ever. On the page, the server answers or
the call fails, the page's timers fire, and some worker moves the jobs on. For the slots, the event loop and the
clock run, a semaphore serves its waiters, and the DXF child ends or is killed;
an image analysis may never end.

## What is proved

Every theorem holds for every value of the constants that the module's named
assumptions admit. Those assumptions are: `Jobs` is finite, limits and numbers
of slots are positive, the largest dimension is a natural number, `None` is none of the values it stands beside, who may
die is one of those there are, settings are Booleans, a drawing is a finite
sequence of entities with one of the three modes, a posted document is one the
schema lets pass whose countersinks have no depth (see `SolidInv`), and the thickness of an extruded drawing is a positive number
of millimetres. Each component has one inductive invariant, `PartSolid` one for
each of its theorems, with a lemma for each of its actions or for a group of them
that it is kept. TLC found no violation of any of these invariants on small
instances.

| Component | Theorem: property |
|---|---|
| `AsyncJobQueue` | `TypeCorrect`: the type; `NeverStuck`: `NoStuckRow`; `CancellationWins`: `CancelWins`; `SettledForGood`: `TerminalImmutable`; `BacklogBounded`: `CapacityRespected`; `ClaimsInOrder`: `FirstComeFirstServed`; `LeasesHonoured`: `LeaseHonoured` |
| `QueueWorker` | `WorkerTypesCorrect`: the type; `WorkersUseTheQueue`: it implements the queue, so `QueueKeptByWorkers` has all of the above; `ResultsMatch`: `ResultMatchesManifest`; `ManifestsFinal`: `ManifestFinal`; `WorkersSpared`: `JobsSpareWorkers`; `WorkersImplementDurableJob`: `ImplementsDurableSteps` |
| `ManufacturingReview` | `ReviewTypes`: the type; `HistoryStaysIntact`: `HistoryIntact`; `AnswersHold`: `AnswerMatchesHistory`; `ReadersAreSafe`: `ReadersNeverConflict`; `BusyMeansCrash`: `BusyOnlyAfterCrash`; `ReviewIsLedger`: `ImplementsLedger` |
| `JobPipeline` | `PipelineTypes`: the type; `NothingLossy`: `NoLossyOutput`; `OutputsAreWhole`: `WholeOrNothing`; `ChainsAreTrue`: `ChainTellsTheTruth`; `StepFilesAreThere`: `NeutralStep` |
| `RendererRun` | `RunTypes`: the type; `KernelsAreBounded`: `KernelsBounded`; `SurvivorsAreExplained`: `SurvivorsExplained`; `ResultsHold`: `ResultsAreReal` |
| `AnalysisSlots` | `SlotsAccounted`: `SlotsConserved`; `ThreadsSuffice`: `NeverBehindAbandoned` |
| `PartSolid` | `OutlineIsFound`: `ChainIsTheDrawing`; `SoundPlans`: `PlansAreSound`; `HolesKept`: `HolesSurvive`; `DrawingsAreTrue`: `DrawingTellsTheTruth`; `CompilersAgree`: `SameSolid` |
| `WebPage` | `PageTypes`: the type; `TrackedJobsAreAttended`: `TrackedJobAttended`; `AnalysesMatch`: `AnalysisIsOfChosenFile`; `TrackingEndsRightly`: `TrackingEndsForAReason` |

### The queue

`QueueInv` is the type; `RowOK` for each row; `Entered`, which says what is known
of a job before, during and after its enqueue; and `Ordered`, that every job in
`ahead[k]` has a smaller `created` than `k`. `RowOK` is needed because
`CancelWins` is not inductive alone: recovery looks at the lease and at the
attempts of a row, and a retry is only safe if the row it requeues is not
flagged. `Ordered` is needed because a claim picks the smallest `created`, while
`FirstComeFirstServed` speaks of `ahead`. The backlog is a separate induction,
with the library's facts on cardinality: only `Insert` makes the set of active
rows larger, by one row, and it counted first.

### The workers

`WorkerInv` rests on one idea: the attempt is counted in the transaction that
hands out the row, so no two workers hold the same attempt at a job (`Apart`),
the manifest of an attempt has one writer, and one that has not begun has no
manifest (`Fresh`). `Known` says what a worker remembers of its manifest, `Current`
that an owner works on the latest attempt; the two with `ResultOK` carry
`ResultMatchesManifest` through a lease that is lost between the manifest and the
row. `CancelAsked` is needed for `DurableJob`: a worker that is about to report a
cancellation has seen the flag in the row, and flags are never taken back.

That every step of a worker is a step of the queue (`StepOfQueue`) makes the
queue's theorems the workers'; `Current` is needed there too, since the
general client of the queue finishes a row it owns.

The refinement maps a row to a phase (queued and running rows are open), its flag
and its attempts. A claim recovers expired rows first, so one step of the table may
settle several jobs and begin an attempt at another: these are `GiveUp` and
`Attempt` with a set of lost jobs. That a lost job was attempted, and for the last time or with
its flag set, is where `RowOK` is used.

### The review

`ReviewInv`: a live request past the file lock holds it (`Exclusive`), so the
version it read is the latest until it commits (`Steadfast`), and when it
commits, the files its snapshot names are there (`Prepared`). The hard part is
recovery: it removes files while readers list them and while a request that was
taken for dead may still be in the middle of its writes. `ReviewInv` needs no
statement about claims to exclude harm: whatever a recovery removes belongs to a
version without a snapshot, and no snapshot names it later because names carry
the request. `ClaimOK` is needed for `BusyOnlyAfterCrash` only, and says nothing of
a process that is `Hindered`: when the disk refuses, a live request may fail to
remove its own claim.

`ReviewIsLedger`: `WriteSnapshot`, and the branch of `WriteFails` in which only
the removal of the temporary twin fails, are one entry of the ledger; every
other step, crashes and recoveries included, leaves it as it is.

### The pipeline

`PipelineInv` says what each layer has decided in terms of what it hands on:
`Sound` of the selection, `AtKernel` of the kernel and the chain the renderer
has, `Promoting` of the outputs that were copied so far, `Reporting` of what the
manifest will say. `Rightful` is the condition on a kernel that survives a
runtime going away between any two of them. `FromSources` (no output without a
source file, and no OpenSCAD source for a lossy document) is what
`NoLossyOutput` follows from.

`_merge_fallback_chains` is a loop over a chain of any length, `Merging` a
recursive function, and `MergeChains` proves of every two chains what the loop makes of
them. The library's induction over numbers takes a predicate, which the provers
here do not instantiate; `SetInduction` proves the same for a set, from the
well-founded order of the numbers, and is used for this loop.

### The renderer, the slots and the page

`RunInv` follows one call: `Stage` says what its thread knows of the child at
each statement, and stays true under whatever the child, the user and the clock
do before the next one. `SlotsKept` bounds the calls that hold a slot, and a
watched kernel belongs to one of them. `SurvivorsExplained` and `ResultsAreReal`
follow from `LetGo` and `Truthful`.

`SlotsInv` is an account for each kind: free slots and the requests from
admission to the end of their thread add up to the configured number. The set
of requests need not be finite; the set of those that hold a slot is, which is a
part of the account.

`PageInv` judges an answer by what it was asked for: a monitor that is current
follows the tracked job or none is tracked any more, an analysis that is current
is of the chosen file (`Following`), and an answer that reports the end of a job,
or that the server does not know it, is still true when it arrives (`Truthful`).
For `TrackingEndsForAReason` this leaves the answers about another job, which are
those `Misled` names. With `NeverOrphaned` this is inductive
over every order of clicks and answers.

### From a drawing or a prompt to a document

These theorems are about computations on data of any size: a drawing with any
number of lines and circles, in any order, a prompt with any groups of holes. What
a loop or a fold makes of a sequence is proved by the least number for which it
would fail (`SetInduction`), and sums and subsets of a set by taking out one member at a
time; bags and repetitions are counted through bijections.

`ChainInv` is about the loop that chains segments. Chain and pool are the segments
of the drawing, each as often as it was drawn and in one direction or the other
(`Conserved`), each segment of the chain starts where the one before it ends
(`Linked`), and so the chain leaves every point as often as it comes to it, but for
its two ends (`Balanced`). A chain that closes with an empty pool is therefore the
drawing. The converse is the harder half, that the code gives up only when the
segments are not one closed curve: if two ends met at every point, a chain that
finds no segment at its end is closed (`Balanced`), no point of it has an end
left in the pool, and the points it visited are cut off from the rest
(`StuckChain`).

`PlanInv` says where a request stands when a language model is asked again, so that
the planner of a plan is the one that was asked for, or the rules after every try.
The rest are lemmas on `intent_to_document`: the holes of the groups stand one
after the other, each group as many as it asks for; what the planner invents,
the depth of a hole whose depth was left open and the places of its layouts, never
gives the error the validator has for it. This is proved for every base and
every axis, with the division the code rounds by.

`HolesInv` follows the circles. At every turn of the loop that groups them, a circle
is free, passed over or the member of one pattern (`GroupsInv`), and a pattern is
its members: expanded by `to_cad_document`, it gives their holes, each of them once
(`SoundPattern`). This is where the geometry is. Four corners that are mapped
to one another by a quarter turn about their centre are one orbit (`Orbit`); a row that
is sorted and evenly spaced is its first circle and multiples of the pitch; of
several runs of circles the longest is taken, which is the maximum of a finite set. The
circles are sorted first, and the proof has that the sorted ones are the drawn
ones, by a bijection of their indices. A tree keeps this in its nodes, which own
disjoint sets of circles (`SoundTree`). An edited tree has the same nodes, moved,
repeated or dropped, and `Convert` passes over a node it has seen, so there is
never a hole too many.

`DrawInv` is about the drawing of a document. The code computes the overall
dimensions from the base's numbers (`BaseExtents`); the property asks for the
extent of the solid the compilers make, `Span`, over every point of it. So for each
kind of base there is a lemma that no point of the solid is further out and one
that names the points at the ends (`FlatTouches`, `RoundTouches`). Of a profile the
first says that a point in a closed loop, decided by the parity of the edges a ray
crosses, is within the box around the loop's corners: from a point beyond the box
the ray crosses no edge, or every edge that changes sides of its line, of which a
closed loop has evenly many. A
revolved profile turns on an axis, and its radius in the plane is decided on
squares. `BaseFits` and an empty `ProfileErrors` are what this needs of a document,
so `DrawInv` carries them: a tree built from a drawing has a base that is one
(`BasedTree`), whatever the user does to the tree; a document is converted,
planned or posted with one (`SoundDoc`); and from the validator on `errors` are
those of the document that is there. `TemplateFits` is the other half: the
drawing the server proposes has distinct ids and a target of the document for
each, within the limits `validate_drawing` sets, for a document with any holes and
cutouts, if its overall dimensions are within their bound. They are just when the
solid is (`BeyondTheBound`), and a drawing that begins as the server's does can
only be resolved then (`OverallGiven`). That a drawing the user has was
resolved once (`Proposed`) is what makes it acceptable when it comes back as it was.

The proof found a case the model was vague about: the void of a ring that a plan
does not give is half of its diameter, which is a lattice number only if the
diameter is even. `OnLattice` now says so.

`SolidInv` is about the four compilers: a source that was made is that of the
document, and every hole and cutout of a document on its way there can be cut
(`SoundHoles`), be it drawn, planned or posted. The geometry is in lemmas about
one place in space. For each kind of base, what a compiler builds of it is what
`InBase` says, wherever its kernel puts the origin (`FlatIsMade`,
`ProfileIsMade`); an outline written with one more point at its end, or without
its last, is the same loop by the parity of its edges (`SameLoop`). A cutter
that begins at a face, stands out there and is 0.1 mm longer than asked cuts the
same of the part as `InHole` (`HoleIsCut`), a countersink by its cone, which
ends where it is as narrow as the hole; a cutter given by its centre or by its
corner, from inside or outside the wall, the same as `InCutout` (`CutoutIsCut`).
`WithinFaces` is what makes the overhang harmless: nothing of a part is beyond
the face a cutter begins at. `SourceMeans` puts these together for all holes and
cutouts at once. The rest shows that this is enough: `Points` are places with
whole coordinates (`PointsArePlaces`), and the holes a plan invents are holes of
the schema (`PlannedHolesAreCut`).

The proof showed where the property asked too much. Behind the bottom of a hole,
and behind a wall, a cutter takes away 0.1 or 0.2 mm that the document does not
mean, and the planes of an enclosure's inner walls belong to the part in one
description and to what is cut in the other. A document on a finer lattice has
points there, so `Clear` leaves these places out, by name; no point of the
instance is left out, each of its documents has only `Clear` points.
`HasStrayHead` now covers blind holes, whose head OpenSCAD cuts as well. And a
countersink with the depth of a counterbore, which the schema lets pass, has no
place in the model, where a hole has one head: `DocumentsAssumption` says that
no posted document has one.

### Only model-checked

* Liveness and fairness are out of the prover's reach, as is ENABLED:
  `ImplementsDurableJob` (its safety is proved), `EveryRequestAnswered`,
  `RecoverySucceeds`, `EveryCallEnds`, `TrackedJobEnds`, `EveryoneAnswered`.
* `ValidIsSolid`: that a profile without an error is a simple polygon is stated by
  Pick's theorem, an account of all lattice points in it. That no two edges cross
  gives it, but by an induction over polygons that triangulates them, which is
  geometry and not the code's logic.
* `HolesAreMade` asks for a point of the part that a bore, a floor or a shoulder
  has, and so needs one of `Points` in every cell between the planes of a document.
  Whether the middles between the planes of any document have one, for an outline of
  any shape, is geometry of its own; it is left to the instances.

## Findings

* `manifest_after_crash`: the row is committed before the manifest is
  rewritten, and nothing redoes the rewrite after a crash in between.
  `RELEASE_NOTES.md:50` says queue and manifest never contradict each other.
* `dxf_cut_corner`: a rectangle with four equal cut corners becomes a sharp
  rectangle with a chamfer, and only the sharp one is validated. A hole drawn
  in a cut corner, outside the outline, is accepted as convertible.
  `docs/CAD_DSL.md:92` says that holes outside the outline are refused, and
  `tests/test_dxf_analysis.py:129` names the same for drawings.
* `page_drops_job`: a late answer to a cancel, or the 404 of a superseded monitor,
  makes the page forget a newer job that is in progress. `README.md:42` says that
  the page keeps the id of a job in progress and goes on polling it.

Seen with the same modules, without a run of their own:

* `claim` fails a corrupt row in a second transaction that nobody guards, and the
  worker ends when its lease is gone by then; `RELEASE_NOTES.md:49` says a corrupt
  payload never ends the worker. `JobsSpareWorkers` names this race as the only
  exception.
* `_terminate_process_tree` kills the group only while the leader runs, so a
  leader that exits just before leaves its descendants after a cancellation
  (`SurvivorsExplained` says exactly when), while `RELEASE_NOTES.md:50` says the
  complete tree ends.
* A job that names CadQuery and wants only STL is completed by OpenSCAD when
  CadQuery fails, while `docs/ARCHITECTURE.md:99` says that `cadquery` selects only
  CadQuery; what keeps this harmless is `NoLossyOutput`.
* OpenSCAD cuts a counterbore or countersink for every hole that has the fields
  of one, the other compilers only for holes of that type (`SameSolid` has the
  exception). The schema lets such fields pass, and `docs/ROADMAP.md:80` asks that all
  backends share the meaning of features.
* Blind holes and heads start at the box around the part (`docs/ARCHITECTURE.md:69`,
  `docs/CAD_DSL.md:127`: at the outer face). Where that is in the air, above the floor
  of an enclosure or in front of an L-bracket's upright, a valid hole may take
  nothing away; a hole along an L-bracket may miss it altogether. `HolesAreMade`
  is about the others. Blind holes and counterbores are cut 0.1 mm deeper than asked.
* The rule-based planner makes the depth of a counterbore 0.6 of its diameter
  whatever the material, where `intent_to_document` would have kept it to half the
  material; such a plan is returned with the validator's error. `InventionsFit`
  therefore speaks of depths the intent leaves open.
* An answer of a language model with no choices ends in an error, although
  `README.md:308` says that a failed call falls back to the rules by default.
* The schema bounds every field of a document by `MAX_DIMENSION_MM`, and a dimension of
  a drawing by the same (`models/manufacturing.py:381`), but an overall dimension may
  be a sum or a span: an L-bracket's height and thickness, a profile's width, twice
  the radius of a revolution. For such a part there is no default drawing, and no
  drawing with the overall dimension is accepted, although the document is valid.
  `DrawingTellsTheTruth` says that this is the only case.
* The default drawing gives X and Y of the first two holes, also of one through a side,
  whose height it leaves out.

## Not modelled

`LeaseTiming`, the heartbeat interval against the lease in real time, is
left out: `Lapse` lets any lease run out, which includes every such order.

Left out for good: the regular expressions that read a prompt; the standard
planner's bracket and the NEMA17 checks (their 3.4 mm holes and 31 mm circles are
off the lattice); warnings, assumptions and review flags, which change no
geometry; arcs and fillets as geometry, and image processing (numbers TLC does not
have); layout of previews and PDFs; the text of sources around the geometry;
the routes and the settings, which add a call and a constant each; the CLI and the
scripts.

`SameSolid` says of edges only that the source has those of the document. Which edges
a fillet or a chamfer is for, each backend selects in its own way
(`freecad_compiler.py:232`, `compiler.py:276`, `build123d_compiler.py:252`); the
faces and edges of a solid are not modelled, so nothing is said of that.
