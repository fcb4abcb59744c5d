# Shrinkray in TLA+

Shrinkray is a server that transcodes video files: a web page puts files into a
job queue, worker goroutines hand them to ffmpeg, and the output takes the place of
the file. This directory holds TLA+ modules of the server, TLC configurations that
check them on small instances, and theorems about them that the TLA+ proof system
checks. Paths below are relative to the repository.

## The system

| component | code | state | operations |
|---|---|---|---|
| job queue | `internal/jobs/queue.go`, `job.go` | `q.jobs`, `q.order`, under `q.mu` | Add, AddMultiple, GetNext, StartJob, CompleteJob, FailJob, SkipJob, UpdateJobPhase, CancelJob, Requeue, Clear, Remove |
| worker pool | `internal/jobs/worker.go` | workers, their contexts and current jobs, `paused`, the analysis count and limit | the loop of each worker, Pause, Unpause, Resize, CancelAndStop, SetAnalysisLimit, Stop |
| processing of a job | `worker.go`, `internal/ffmpeg/presets.go`, `hwaccel.go` | the attempt under way | analysis, command of each attempt, retry with software decoding, fallback encoders |
| SmartShrink search | `internal/ffmpeg/vmaf/` | the settings scored | interpolated search by CRF or by bit rate |
| files of a job | `internal/ffmpeg/transcode.go`, `internal/util/file.go` | the input, the temporary output, the final path | Transcode, FinalizeTranscode, CopyFile |
| job handlers | `internal/api/handler.go` | none: each request is a goroutine that reads the job and calls pool and queue | CreateJobs, CancelJob, RetryJob, ClearQueue, PauseQueue, ResumeQueue, UpdateConfig |
| store | `internal/store/sqlite.go` | tables `jobs`, `job_order`, the counters of bytes saved, settings | SaveJob(s), AppendToOrder, SetOrder, DeleteJob, AddToLifetimeSaved, ResetSession, ResetRunningJobs, GetAllJobs |
| migrations | `sqlite.go`, `internal/store/migration.go` | the recorded version, columns, `queue.json` and its backup | InitStore, MigrateFromJSON, NewSQLiteStore |
| events | `queue.go`, `internal/api/sse.go`, the page | subscriber channels, the page's list | Subscribe, broadcast, JobStream, refreshJobs |
| notification | `internal/api/notify.go` | the setting `notify_on_complete` | the worker that sends and switches it off |
| directory counts | `internal/browse/` | cache entries, recompute queue, walks, saved counts | GetDirCount, InvalidateCache, Reconcile, ClearCache, recompute, WarmCountCache, export, import |
| start and stop | `cmd/shrinkray/main.go` | | InitStore, NewQueueWithStore, pool start; pool stop and store close |

How they interact: a handler calls the queue and the pool; a worker calls the
queue, which writes each change through to the store while it holds `q.mu` and
then sends an event to bounded channels. The page and the notification worker read
those channels. When a job has replaced a file, its worker calls InvalidateCache of
the browser. Nothing else orders the goroutines: `q.mu`, `p.mu`, `currentJobMu`,
`analysisMu`, `pauseMu` and `countCacheMu` are never held over a transcode or a walk,
but `p.mu` is held by Resize while it waits for a worker to return, and Pause waits
for workers without it.

What is hard: GetNext and StartJob are two critical sections, so workers race for a
job; Pause makes a job pending *before* it cancels its context; Resize works from a
list it made before it waited; a worker ends its job with calls that look at the
status or do not (CompleteJob and FailJob do not); contexts tell a worker that it is
cancelled but not by whom; handlers read a job without the lock; each method makes
several store transactions, any of which may fail (and is then only logged) or be the
last one before a crash; migrations run statement by statement; an event that does not
fit is dropped; a directory changes while it is walked. `PROJECT.json` lists each such
place under "hazards".

What makes each component correct:

- queue: order and map describe the same jobs; first in first out but for requeues;
  a job that has ended never runs again; no phase of an earlier run is left.
- pool: one worker per job; a running job has a worker; a job is complete only if its
  file was replaced, and it is replaced once; nobody is cancelled whom no user
  cancelled; analyses keep to their limit; every job ends; Pause and Resize return.
- processing: every command can run on what its decoder delivers; a job fails only after
  every usable encoder was tried; the quality that is used was scored and passed; it ends.
- handlers: only asked-for cancellations; a cancelled job is not started again; running
  jobs are not removed.
- store: it says what memory says; a restart finds every job, in its order; no saving is
  counted twice.
- migrations: the old queue is imported once and never lost; the schema is whole when the
  program is up.
- files: the last whole version of a video is never removed before the next is complete;
  a job that fails leaves its file alone; keep mode keeps the original.
- events: a page that is up to date shows the jobs as they are; one notification for a
  batch, and not none.
- counts: none is shown as ready that is not right; the last one is kept; all settle.

## Modules

| module | models |
|---|---|
| `JobQueue` | the queue's methods, one action each |
| `JobQueueProofs` | its inductive invariant and theorems |
| `JobLifecycle` | abstract: what the server promises about one job and its file |
| `WorkerPool` (EXTENDS `JobQueue`) | worker loop, Pause, Unpause, Resize, SetAnalysisLimit, Stop |
| `WorkerPoolProofs` | the pool implements the queue, and at work implements `JobLifecycle`; slots, goroutines, complete means replaced, what Pause promises |
| `Api` (EXTENDS `WorkerPool`) | cancel, retry and clear requests |
| `ApiProofs` | only asked-for cancellations, no running job removed, none started after its cancellation |
| `DurableQueue` (EXTENDS `JobQueue`) | store calls, counters, failed writes, crash, recovery |
| `Startup` (EXTENDS `DurableQueue`) | both migrations, and the program from its first start on |
| `StartupProofs` | proofs about `DurableQueue` and `Startup` |
| `EventBus` (EXTENDS `JobQueue`) | events, the page that listens, the notification |
| `EventBusProofs` | the view of the page, and the notification |
| `FinalizeFiles` | the files of one job, one file operation at a time |
| `FinalizeFilesProofs` | no video is lost |
| `EncodeCommand` | operators: encoders, and the command built for an attempt |
| `QualitySearch` | the search of SmartShrink |
| `JobProcessing` (EXTENDS both) | one job from its options to its outcome |
| `JobProcessingProofs` | the search, the commands and the attempts |
| `DirCounts` | the cache of directory counts over a tree that changes |
| `DirCountsProofs` | ready counts are right, for any tree |
| `MCWorkerPool`, `MCApi`, `MCJobProcessing`, `MCDirCounts` | values of the constants for TLC |

Definitions named as mutants in a comment are slightly wrong versions of the
definition that follows. Nothing uses them; TLC is run with one of them in place of
the right definition to see that a property notices ("mutants" in `PROJECT.json`).

### JobQueue

A method holds `q.mu` throughout and is one action. A method that returns an error
changes nothing, so its error path is the action being disabled. A job is its id;
`generateID` grows with time, so ids are numbers handed out in order. `q.order`, a
slice without repetitions, is kept as the strict order of its elements, a set of
pairs: it makes "in front of" a membership test and lets the provers reason about it
without induction over sequences. `OrderMatchesJobs` says that this set is a total
order of exactly the jobs of the map. Sizes, progress and timestamps are left out.

### WorkerPool

A goroutine may be overtaken wherever it gives up a lock, tests a context or waits, so
a call is a sequence of steps and a program counter says where it is. `wpc[w]`:

    top -> next -> claim -> prepare -> encode ------------------> place -> record -> release -> top
     |                        |                                   | fail | skip | abandon
     exited                   analyze -> (contended -> waiting) -> admitted -> analyzing -> resolved -> encode

`top`..`prepare` are `Worker.run` and `processJob`/`prepareJob`; `analyze`..`resolved`
are `runSmartShrinkAnalysis` and `buildTranscodeOpts`; `encode` is the whole of
executeTranscode with its retries (`JobProcessing` has its parts), ended by the tests of
`finalizeJob` in their order; `place` is FinalizeTranscode (`FinalizeFiles` has its parts);
`record`, `fail`, `skip` and `abandon` are the call that
records the end; `release` is the deferred function that clears currentJob and closes
jobDone. `got[w]` is currentJob. A context is the flags `stopped`, `wcancelled[w]`
and `jcancelled[w]`: the pool's, the worker's, the job's, each below the one before.
`pausing` and `resizing` are the goroutines in Pause and Resize with the list they
collected and the entry they are at. A queue method that refuses is written
`OrIgnored`: the code logs the error and goes on. `replaced[j]`, a history variable,
counts how often the output took the place of the file of j; `pausing.moved`, another, holds
the jobs the last Pause has put back. `CalmPauseSpec` resumes the queue only when no Pause is
under way. CreateJobs resumes it at any moment (`handler.go:230`): `PauseSpec` has that, and
the theorem about the order of what Pause puts back (`PauseOrderCorrect`) is about `PauseSpec`.

The gate of the schedule (`isScheduleAllowed`) is taken to be open: a closed one is a
worker that stays at `top`, which every safety run covers, and liveness is claimed
for an open one. One Pause and one Resize at a time: two HTTP requests of the same
kind at once are not modelled.

### JobLifecycle

Independent of the rest: jobs arrive, start, have their file replaced, and end; the
file changes once, while the job runs, if and only if the job ends complete. The
refinement maps `state` to `status` and `file` to "original" or "output" as `replaced`
is zero or not. A Requeue is not among its steps: it describes the server without
Pause and Resize (`ServeSpec`).

### Api

`request[r]` is a handler between its steps. CancelJob reads the job through the
pointer from `Queue.Get`, then calls the pool, then the queue; RetryJob reads the
status, probes for a while, adds a job, removes the old one. `asked` remembers for
which jobs a user asked for a cancellation.

### DurableQueue and Startup

A method changes memory and leaves a list of store calls, each one transaction that
happens, fails, or never comes because the program dies. `row`, `rowPhase`, `placed`
and `place` are the tables. Foreign keys are switched on for one connection of the
pool only, so the cascade of DeleteJob and the check of AppendToOrder may or may not
happen. At restart ResetRunningJobs and GetAllJobs rebuild the queue; a row with no
place sorts first, as NULL does. The two sums of bytes saved are kept as how often
each job was added to them (`lifetime`, `session`); `missed` remembers the savings no
counter got. That each start of a job has one end is an assumption here, a guard of
`Completes` and `Fails` that the methods do not have: two workers may break it (see below).

`Startup` puts in front of that what happens until the queue is loaded. The first start
finds nothing, the queue file of an early version, or the database of any later version
with any queue in it. `start` says which statement of InitStore, MigrateFromJSON or
NewSQLiteStore is next; each may fail once, or be the last before a crash, and the next
start begins from what is on disk: `files` (queue file, backup, the file set aside as
corrupt), `exists`, `version`, `columns` and the tables. `old` is the queue the first start
was given and `mishaps` what an early end has left half done, so that the properties can
say what is promised after which.

### FinalizeFiles

`fs` says what the four paths of a job hold: the input, the final path (the same when the
extension stays, `sameName`), the `.old` name and the temporary file of the attempt.
The content of a file is how it was made: the original, ffmpeg's output of it, the output
of an output, a part of a file, or ffmpeg's output of a part. The steps are those of
Transcode, FinalizeTranscode and CopyFile up to CompleteJob or the clean-up of
finalizeJob; `Failing` says which may fail. A crash leaves its temporary file behind
(`stray`: the next attempt draws another random name and nothing removes old ones) and
makes the running job pending, as ResetRunningJobs does. `harm` remembers what went
wrong, so that a property can say after which mishaps it no longer holds.

### EncodeCommand, QualitySearch, JobProcessing

`EncodeCommand` has operators only: the order of encoders, RequiresSoftwareDecode, and
what BuildPresetArgs makes of the options. A command is reduced to its filters in order,
the place of the decoded frames and the value of the quality flag. `CanRun` says whether
the filters take what the decoder delivers: a frame is on the CPU or on the GPU, and each
filter takes it at one of the two. This part of ffmpeg is external.

`QualitySearch` is one turn of interpolatedSearchCRF or interpolatedSearchBitrate per
step. Both are the same steps on two scales, written once. Every setting may get every
score, since samples are noisy; only the score's relation to the threshold and to the
growing tolerance is kept, in half points.

`JobProcessing` takes one job of any preset on one of several machines through the
analysis and the attempts. Any attempt may fail, one whose command cannot run does, and
the user may cancel at any step. `tried` counts the attempts of each encoder with each
decoder. The options an attempt has are those of the code: the selected setting before
the user's, the decoder the encoder can use, the tone mapping.

### EventBus

The methods of `JobQueue`, any at any time, each with its event in the same step, since
broadcast is called under `q.mu`. A page subscribes, is sent the list of all jobs (GetAll
hands out pointers, so each job is encoded as it is when its turn comes), handles
events, asks for the list again after a batch, and replaces what it shows by the
answer, which may be older than the events shown meanwhile. It asks after clicks too, whether an
answer is under way or not, so two of them (`Lists`) may pass each other. `spoilt` says that the view
may be wrong: an event did not fit, Clear sent none, or an event was overtaken by a
list. It is reset by a reconnection, and by a list asked for after it and not overtaken
itself. The notification worker takes an event, reads the setting, counts the jobs,
sends, switches the setting off and tells the pages, one step each. A setting that cannot be
read is taken as off, and so are missing keys of Pushover (`configured`); a write that fails
is logged and leaves the setting on (`stuck` counts them). `owed` says that a notification is
due; the worker gives one up (`GivesUp`) where the code returns without sending.

### DirCounts

A tree of directories whose videos, subdirectories and signatures change at any time.
`cache[d]` is a directory's entry, `walk[d]` the walk that the workers in
`countGroup.Do` share, `warm[w]` a walk of WarmCountCache with what it has found, `errors` what it
could not read with all above it, and `written` what is in the cache already: it writes entry
by entry, which covers its chunks of 500, and every ClearCache starts another walk beside those
under way. A walk of a worker that has written its count is still one others join until
`Returns`, since the events are sent inside `countGroup.Do`.
`toMark` and `toEnqueue` are the calls that goroutines have still to make. A walk reads one
directory per step. `raced` in a value says that it may be wrong by design: a change
came below the directory, where its own signature does not show it, and nobody announced
it; or it came in a directory the walk had read already, and the signature is taken
after the walk; or a warming walk could not read it or one below.

## Runs

| run | instance | states | shows |
|---|---|---|---|
| `serve` | 2 workers, 3 jobs (2 SmartShrink, 1 unknown preset), 1 or 2 slots, Stop | 59 000 | one worker per job; the analysis limit; `JobLifecycle` is implemented; every job ends |
| `pause` | 1 worker, 3 jobs, Pause, and resume when no Pause is under way | 16 000 | no job lost, cancelled or replaced twice; the interrupted job waits in front of all others |
| `pool` | 2 workers, 1 job, Pause, resume, grow, shrink | 311 000 | complete means replaced; no goroutine leaks; Pause and Resize return |
| `api` | 2 workers, 2 jobs (1 SmartShrink, 1 of an unknown preset), 2 requests | 1.0 million | only asked-for cancellations; no running job removed; a cancelled one does not start again |
| `durable` | 2 jobs, one with a saving, 1 failed operation, any number of crashes, from every first start | 1.3 million | an upgrade keeps the queue; the schema is whole; memory, store and counters agree; order and phase survive restarts |
| `files` | one job, both modes, every failure, crashes, retries | 18 000 | the last whole version survives anything but a failed copy in replace mode or a failed way back; keep mode keeps the original without crashes; failed jobs are undone; complete ones are whole |
| `processing` | one job: 6 machines, 5 kinds of sources, HDR kept, tone mapped or not there, every preset, 5 scores | 1.0 million | the search is sharp; failure is exhaustive; each command can run; the quality used was scored; the job ends |
| `dircounts` | a directory and one in it, 1 video each at most, 2 events, 1 worker, a queue of 1, 1 walk of WarmCountCache at a time | 970 000 | ready counts are right, but where a change or an error overtook the walk; the last count is kept, but where a warming walk could not read; everything settles |
| `events` | 1 job with a page (2 connections, or one and a list asked for by a click), or 2 without one and the box ticked twice, channels of 2, 1 failed write of the setting | 5.0 million | the page's list is right; no notification that nobody asked for but after a failed write; none missed but for named causes |
| `keep_crash`, `warm_error`, `resize_orphan` | smallest ones | | the disagreements below |

Why these bounds. Two workers are all a race for a job or a slot needs; a third
only repeats one of them. With three jobs two race for the first while one waits
behind, and a requeue can pass another job; the number of jobs a behaviour creates is
the one unbounded counter (`MaxJobs`). `MaxReplaced` bounds the history variable only
where it could grow, and leaves room for a second replacement in the runs that claim
there is none. `MaxFailures` is 1: after a failed write the store may differ from
memory in any case, and what is claimed then does not depend on how often. `MaxCounted`
is 2: that a saving is counted twice is all that matters. `FinalizeFiles` and
`JobProcessing` have no bound on behaviours: their states are finite and the runs cover
them all; the five scores are one from each interval the search tells apart at some turn,
the machines one for each place an encoder has in the chain, the sources one for each answer
of RequiresSoftwareDecode. A channel of two places is full after two events,
and what a third does is the same for any size. In `events` the page and the notification
worker share nothing but the set of subscribers, so they run one at a time: with a
page there is one job (`MaxPageJobs`) and nobody ticks the box, and the keys of Pushover, which
matter only when something is to be sent, are changed after the first tick. `MaxVisits` bounds
connections and clicks together: two lists under way at a time, a bound of the model itself, are what
makes the difference. `MaxStuck` is 1: one write that fails is. `Warmers` bounds the walks of WarmCountCache at
a time. `dircounts` has one of them and one worker, who already run against each other, against changes,
faults and visitors; a second worker only joins a walk under way, and `warm_error` has two. The theorems hold for
any number of both. `MaxEvents` bounds the changes of the tree, faults, refreshes, saves and restarts: two are
enough for a change during a walk and another on top of it, or a save and a restart. The theorems
below remove the bounds for what they state.

Fairness. `WorkersAreFair`: the Go scheduler runs every goroutine, and ffmpeg and the
analysis return. The last is an assumption on ffmpeg: the one watchdog of Transcode is for the
first frame under hardware decoding. It is weak: a step that stays possible is taken. `FairPoolSpec` adds weak
fairness of the steps of a Pause and a Resize under way, and strong fairness for the
moment Pause takes `p.mu`, since Go's mutex hands itself to a waiter that starves. Nobody is
ever obliged to make a call, and `Stop` may come at any time where the run has it.
`JobProcessing` has weak fairness of the worker's steps, on the same assumption.
`DirCounts` has it for each step of a goroutine, and of GetDirCount for each directory:
`Settles` is about a user who opens each directory again and again, because the code
enqueues again what did not fit only when somebody does. `DurableQueue`, `Startup`, `EventBus` and
`FinalizeFiles` are checked for safety only: a program may stay down for good.

### Disagreements

- `keep_crash` (`internal/ffmpeg/transcode.go:400`): in keep mode, when the final path is the
  input's, a crash during the copy or before CompleteJob is stored lets the next attempt
  rename the torso, or the output, over the `.old` that holds the original.
- `warm_error` (`internal/browse/browse.go:511`, `573`): a warming walk puts what it could not
  read into the cache as 0 and ready, over the last count, although `dir_stats.go:58-61` has
  values replaced only by a recompute that succeeds. It is the one exception of `KeepsLastCount`.
- `resize_orphan` (`worker.go:216-264`): Resize requeues the jobs it collected at first. A
  worker that went on to another job before it was stopped leaves that one running with
  no worker until the next start of the program.

### Seen while modelling

Each of these is a behaviour of a passing model; the exceptions its properties name are
the place where it shows.

Queue and pool:
- Pause during a SmartShrink analysis: the job is requeued, its context cancelled, and the error
  path of the analysis (`worker.go:749`) calls `queue.CancelJob` on the now pending job without a
  look at its status. It ends cancelled, not requeued. `pause` has no SmartShrink jobs for this reason.
- Pause and a CreateJobs that resumes the queue meanwhile (`worker.go:343-350`, `handler.go:230`):
  the worker ends the run with a call the queue refuses for the now pending job (SkipJob) and
  starts the job again; Pause then cancels that run. The job ends cancelled. `CalmPauseSpec` leaves
  this out, and so does every claim about it.
- CompleteJob and FailJob do not look at the status (`queue.go:340`, `373`), so a job
  cancelled while its worker finalizes is later complete or failed, where
  `docs/architecture/job-lifecycle.md:21` has `cancelled --> [*]`. In the same way a worker that
  picked a job of a preset that is gone fails it although it was cancelled meanwhile
  (`worker.go:597`). These are the exceptions of `CancelledNeverStarts`.
  The diagram has neither running -> skipped nor pending -> failed.
- A worker past the gate when Pause sets the flag can start a job after Pause has
  returned. With two workers a requeued job can be picked up again by the second while Pause is
  still cancelling the first, when the flag is cleared meanwhile or the second is past the gate. If the
  first had placed its output already, both record the job complete, and its saving is
  added twice (`queue.go:359-366`); `ReplacedOnce` is claimed for one worker only, and
  `DurableQueue` assumes it away.
- A DELETE reaches only the first worker that holds the job, which may be the one
  that lost the race for it (`worker.go:183-186`). The cancelled context of a job may be seen
  before the worker's own in a Resize (`worker.go:1050`, `1055`), which marks the job cancelled.

Files and processing:
- In replace mode a copy that fails loses the video: the original is gone and finalizeJob
  removes the temporary file (`transcode.go:383-389`, `worker.go:993`; the `harm` of `NothingLost`).
- After a fallback to another encoder, or where the encoder is given a bit rate, the output
  does not have the quality that was scored, although `README.md:22` promises to maintain it: the
  exceptions of `OutputWasScored`. A CRF means another quality in another encoder, and
  a sample has no bit rate of its own to multiply.
- With tone mapping the first attempt decodes in software already, so the retry with
  software decoding repeats the same command.
- The cap of eight runs is reachable in the bit rate search only.

Store and migrations:
- A crash between a job's row and its place (`queue.go:188`) puts the newest job in front of all
  others at restart: the exception of `StoreInSync`.
- A saving is lost if the program dies between the row and the counters; a row whose
  write failed makes the job run, and count, again after a crash.
- A crash after the migration has created the database and before SaveJobs has committed
  leaves the queue file unread for good: NeedsMigration asks only whether the database
  exists. The file and its backup stay (`OldQueueSurvives`; "import" in `FirstStartHasAll`).
- A crash among the ALTER statements makes every later start fail with a duplicate column,
  since the version is recorded last ("columns" in `SchemaSurvives`); one between the version
  of a new database and its counters leaves it without them ("counters").

Events and counts:
- Clear sends no event; a dropped event is never repeated; a list that is answered late
  overwrites newer events: the three causes of `spoilt`.
- Switching the setting off may fail, which is logged only (`handler.go:93`), and the next end of a job
  sends a second notification for one tick of the box: `stuck` in `NoticesAreAskedFor`.
- The notification is not sent again when sending failed, and not sent at all when the
  last job was removed or cleared, a whole batch was skipped, or the setting could not be read
  when the last job ended. Jobs added while it is
  being sent get none, since the setting is then switched off.
- A job may replace a file that a walk has passed (`dir_stats.go:191`, `274`). The walk writes the
  old count as ready; the recount that InvalidateCache asked for has joined that walk, or was dropped
  by a full queue, or its mark was overwritten; and no visit sees a reason for another. The count stays wrong until the
  directory changes again, where `integration_test.go:350` speaks of a "recompute to correct counts". These are
  the values with `raced`.
- A change outside that is further down changes no signature of the directories above: nothing
  recounts them.
- A directory made during a warming walk is pruned from the cache when the walk ends, with
  a count a worker has written meanwhile.
- Export writes stale entries that never had a count as 0, although
  `dir_stats_persist.go:17` excludes incomplete data; rows of directories that are gone are never deleted.

## Proofs

Every safety property of the passing runs is also a theorem about its specification, for all
values of the constants that satisfy the assumptions of the modules:

- `MaxJobsAssumption`: the number of jobs of a behaviour is some natural number.
- `PoolAssumptions`: finitely many workers, a non-empty sequence of different ones to begin with, an
  analysis limit of at least 1, the special presets sets of jobs.
- `DurableAssumptions`, `FilesAssumptions`, `ScoresAssumption`, `MachinesAssumption`, `SizesAssumption`,
  `BoundsAssumption`: the types and bounds of what the runs instantiate.
- `TreeAssumption`: the directories are finitely many and form a tree: whoever goes from parent to
  parent comes to the root.

Some properties are proved under more than these, because without it they are false:
`PauseCorrect` needs one worker and no SmartShrink job (see the first of the things seen in the pool, and the race of two
workers). The third part of `WorkerPoolProofs` is about `ServeSpec`, the pool
without Pause and Resize. All such hypotheses are those of the run that checks the property.

Each proof has the same form: an invariant that is inductive (`...IInv`), one lemma for each action
or kind of action, and the properties read off it.

`JobQueueProofs`. `QueueIInv` is the type invariant, `OrderMatchesJobs`, `NoStalePhase` and
`Unissued`: an id that was not handed out is of no job. Without the last, AddJobs could
"add" a job the order already relates. Each kind of step has a lemma (`SetStatusStep`,
`AddJobsStep`, `RequeueStep`, `DeleteStep`). Two action properties follow from the
invariant and the step: `TerminalIsForGood` (no method makes a job that has ended pending or
running again) and `FirstInFirstOut` (no method but Requeue lets a job pass another). They are
proved and not run: for the queue alone they follow from the methods, and in the pool from `PoolImplementsQueue`,
which is not run either: the pool uses the queue through its methods only.

`WorkerPoolProofs`:

1. `PoolImplementsQueue`: a step of the whole pool, with Pause, Resize and Stop, is a step of
   `QueueNext` or leaves the queue alone. What is needed besides is that workers and collected
   lists hold job ids (`HoldsJobs`). So `PoolKeepsQueue`: all the queue's theorems hold in the pool.
2. `SlotsCorrect` and `AnalysisLimitCorrect`: the count is the cardinality of the set of
   workers with a slot, for any number of workers and through Pause, Resize, Stop and changes
   of the limit; from it, no analysis begins over the limit.
3. The pool at work (`ServeSpec`). `ServeIInv` ties the pieces of state together: a worker
   works only on a job that is running, so StartJob refuses it to others; the file is the
   original until that worker has placed the output; a picked job of an unknown preset is
   pending or failed, so the unguarded FailJob hits no job at work; and no context but the pool's is
   cancelled. From it `OneWorkerCorrect`, `RunningHasWorkerCorrect`, `NeverCancelledCorrect` and
   the refinement `ServeImplementsLifecycle`.
4. `PoolIsAliveCorrect`: Resize is the only one to start and to stop single workers, so besides the
   types `AliveIInv` says of the list of the pool that it has no worker twice (`PoolOnce`) and that a
   worker in it has not been told to stop (`MembersLive`).
5. `CompleteIsReplacedCorrect`: whoever is about to record has placed the output (`PlacedFirst`).
   It holds for any number of workers and all calls, those that lose a job included.
6. `PauseOrderCorrect`, of `PauseSpec`: the jobs that wait among those Pause has put back are in the order in
   which they were made and before all others, and those still to come are older (`OldestIsLast`); a job that has left the
   pending ones comes back by Requeue only. For any number of workers and jobs, SmartShrink jobs included. The run `pause` checks
   it with one worker, where a Pause finds one job at a time.
7. `PauseCorrect`: `CalmIInv` follows the one worker (`OneByOne`): its job is running, or pending because
   Pause requeued it under its hands, and then its context is cancelled before it can record anything.

`ApiProofs`. `ApiIInv` says what each goroutine knows of its job: a request past its first test is for
a job that was asked to be cancelled (`CancelIsAsked`) or has ended (`RemovesEnded`), and the
cancelled context of a job comes from such a request (`WorkersAreAsked`, `NotInterrupted`).
`ApiImplementsQueue` shows again that each step is one of the queue; so what a handler read long
ago stays true where it needs it, since a job that has ended never runs again.

`StartupProofs` covers `DurableQueue` as well, which `Startup` extends. `SyncIInv` makes precise how the tables lag: with
the program up and no write failed, a table differs from memory only where a remaining store call
sets it right. `SavingsIInv` does the same for the two sums, where a crash takes the remaining calls
away. `StartIInv` says for each statement of the migrations what files, columns and tables
there may be, for every version and queue the first start can find; it gives `OldQueueCorrect`,
`SchemaCorrect` and `FirstStartCorrect`.

`FinalizeFilesProofs`. `FilesIInv` says for each file operation which of the four paths are
taken (`FollowsSteps`), which of them holds the video (`VideoSurvives`), which the original in keep
mode (`OriginalStays`), and where the output is (`OutputArrives`), with what a mishap takes from it.

`EventBusProofs`. The hard part is the view of a page. `PageParts` says for each job that the last
thing that will be said of it, by the list under way or by an event that waits, is what it is now, and
that until then nothing is lost but what `spoilt` admits. It holds for any size of channel.
`BoxIsWorthOne` and `NoticeIsComing` are about the notification: a box that is ticked is worth one, a failed write
another, and
an event that will lead to the count of jobs is still to come while one is owed.

`JobProcessingProofs`. `SearchIInv`: the setting about to be scored is where passing scores turn into
failing ones (`Divides`). With CRFs it lies in a bracket that each turn shrinks, so the search ends before
the limit on its runs (`Bracketed`); with bit rates it need not, and the limit ends it (`Progress` covers
both), for the four scales and any set of scores. `JobIInv` adds that the setting found is the one that is passed
on (`SearchIsUsed`), that the encoders are tried in the order of the chain, each with its decoders
(`TriesInOrder`), and what a failure has behind it (`Exhausted`). `CommandFitsCorrect` goes through all filter
chains that BuildPresetArgs can make (`Passes`), of any options, not only those of the
runs' machines.

`DirCountsProofs`. `Up` is a recursive function and `Sum` a fold, and the theorems of the library on induction take
an operator as a parameter, which the provers cannot instantiate. So the existence of a solution, and
what is needed of it, is proved first in terms of sets: a set that contains the root, and a directory with its parent,
is the whole tree (`TreeInduction`); sums are split by induction over cardinalities.
`CountsIInv` says of a walk that has neither failed nor been raced that its count is the sum over the
directories it has seen, and that each directory below that it has not seen is below one it has
still to visit (`Covered`); `WarmIInv` says the same of each walk that warms the cache, for all
directories at once, and `WorkIInv` counts the workers at work.

Only model-checked: liveness (`EveryJobEnds`, `CallsReturn`, `JobEnds`, `Settles`), which is out of the
prover's reach, and the disagreements, which are counterexamples. No RECURSIVE operator is used.

## Not modelled

- UpdateConfig (`handler.go:435`): a list of assignments that ends at the first error. Its calls of
  Resize, SetAnalysisLimit and of the notification's setting are in `WorkerPool` and `EventBus`.
- checkSkipReason: whether a new job is skipped is a choice in `JobQueue`. The schedule: see
  WorkerPool above; one whose hours are equal is never open.
- Two calls of Pause, or of Resize, at once; more than two answers to refreshJobs under way.
- Two jobs for one file, or for two files of one name: `Api` lets RetryJob run twice at once,
  but `FinalizeFiles` has the paths of one job.
- Browse, GetVideoFilesWithProgress and the probe cache: reads without an effect on anything modelled.
- Audio, subtitles, colour metadata and remux arguments, probing and the parsers of ffmpeg's
  output, the probing of encoders, the YAML file, the HTTP client of Pushover, routes, logging, and all of the page but its list of
  jobs: no state a model checker reaches.
- UpdateProgress, UpdateJobVMAFResult and Stats of the queue as data: nothing decides on what they
  write. The event of the first is in `EventBus`.

## Plan

Done: all modules above, and the proofs of every safety property the runs check. Next, in order:

1. Refinements between the modules: that `FinalizeFiles` is an implementation of the steps `place` and
   `record` of the pool, and `JobProcessing` one of its `encode`.
2. The hazards without a property: two retries of a job (`handler.go:643`), two jobs for files of one name
   (`transcode.go:372`), two workers that record one job (`queue.go:340`), a schedule that is
   never open (`worker.go:434`).
