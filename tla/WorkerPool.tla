----------------------------- MODULE WorkerPool -----------------------------
(***************************************************************************)
(* The worker pool of internal/jobs/worker.go over the queue of JobQueue:  *)
(* the loop of each worker goroutine, Pause and Unpause, Resize, Stop.     *)
(*                                                                         *)
(* Between two locks, channel operations or context checks a goroutine     *)
(* may be overtaken by any other, so a call of one of these methods is a   *)
(* sequence of steps, and wpc[w], pausing.pc and resizing.pc say where the *)
(* goroutines are.  The method of the queue that a step calls is the       *)
(* action of JobQueue with its name; a call that returns an error is only  *)
(* logged by the callers here, so the step then leaves the queue alone.    *)
(*                                                                         *)
(* One Pause and one Resize are under way at a time (two HTTP requests of  *)
(* the same kind at once are not modelled).  What ffmpeg, the analysis and *)
(* the file system do to a job is a choice of outcome.                     *)
(***************************************************************************)
EXTENDS JobQueue, FiniteSets, Sequences

CONSTANTS
    Worker,         \* the worker goroutines there may be at a time
    InitialWorkers, \* the pool NewWorkerPool creates, as a sequence of them
    SmartJobs,      \* the jobs whose preset is SmartShrink
    UnknownPreset,  \* the jobs whose preset GetPreset does not find
    MaxAnalyses,    \* the highest limit SetAnalysisLimit takes
    MaxReplaced     \* bound on how often the file of one job is replaced

ASSUME PoolAssumptions ==
    /\ IsFiniteSet(Worker)
    /\ InitialWorkers \in Seq(Worker)
    /\ InitialWorkers # <<>>
    /\ \A i, k \in DOMAIN InitialWorkers : InitialWorkers[i] = InitialWorkers[k] => i = k
    /\ SmartJobs \subseteq JobId
    /\ UnknownPreset \subseteq JobId
    /\ MaxAnalyses \in Nat \ {0}
    /\ MaxReplaced \in Nat

VARIABLES
    paused,     \* WorkerPool.paused
    stopped,    \* the pool's context is cancelled
    pool,       \* WorkerPool.workers
    wpc,        \* [Worker -> where its goroutine is]
    got,        \* [Worker -> the job GetNext returned to it, or NoJob]
    wcancelled, \* [Worker -> BOOLEAN]: w.ctx is cancelled by Worker.Stop
    jcancelled, \* [Worker -> BOOLEAN]: jobCancel was called for its job
    pausing,    \* the goroutine in Pause: [pc, todo, target], and the jobs the last
                \* Pause put back (history)
    resizing,   \* the goroutine in Resize: [pc, todo, target, excess]
    slots,      \* [count, limit]: WorkerPool.analysisCount and analysisLimit
    replaced    \* [JobId -> Nat]: how often FinalizeTranscode put an output
                \* in place of the job's file (history variable)

wvars == <<wpc, got, wcancelled, jcancelled>>
cvars == <<paused, stopped, pool, pausing, resizing>>
vars  == <<qvars, wvars, cvars, slots, replaced>>

NoJob    == 0
NoTarget == [worker |-> "none", job |-> NoJob]

\* Where a worker is while currentJob is set, and while the job it holds is
\* one that its StartJob call marked running.
Processing == {"analyze", "contended", "waiting", "admitted", "analyzing", "resolved",
               "encode", "place", "record", "fail", "skip", "abandon"}
InJob      == Processing \cup {"prepare", "release"}
Points     == InJob \cup {"top", "next", "claim", "exited"}

\* w.ctx and the jobCtx derived from it.
CtxDone(w)    == stopped \/ wcancelled[w]
JobCtxDone(w) == CtxDone(w) \/ jcancelled[w]

\* p.mu is held by Resize for the whole call.
PoolLocked == resizing.pc # "idle"

PoolMembers == {pool[i] : i \in 1 .. Len(pool)}

\* The workers that have a currentJob, with it: what Pause and Resize collect.
RunningJobs ==
    {[worker |-> w, job |-> got[w]] : w \in {v \in PoolMembers : wpc[v] \in InJob}}

\* The entries of todo with the newest job: the next of the sorted slice.
Newest(todo) == {e \in todo : \A f \in todo : f.job <= e.job}

\* A call of a queue method whose error is logged and otherwise ignored.
OrIgnored(Call, allowed) == IF allowed THEN Call ELSE UNCHANGED qvars

-----------------------------------------------------------------------------
PoolInit ==
    /\ QueueInit
    /\ paused = FALSE
    /\ stopped = FALSE
    /\ pool = InitialWorkers
    /\ wpc = [w \in Worker |-> IF w \in PoolMembers THEN "top" ELSE "exited"]
    /\ got = [w \in Worker |-> NoJob]
    /\ wcancelled = [w \in Worker |-> FALSE]
    /\ jcancelled = [w \in Worker |-> FALSE]
    /\ pausing = [pc |-> "idle", todo |-> {}, target |-> NoTarget, moved |-> {}]
    /\ resizing = [pc |-> "idle", todo |-> {}, target |-> NoTarget, excess |-> 0]
    /\ slots \in [count : {0}, limit : 1 .. MaxAnalyses]
    /\ replaced = [j \in JobId |-> 0]

-----------------------------------------------------------------------------
(* The worker goroutine.                                                   *)

Moves(w, from, to) == wpc[w] \in from /\ wpc' = [wpc EXCEPT ![w] = to]

\* run: the context is cancelled, the goroutine returns.
Exit(w) ==
    /\ CtxDone(w)
    /\ Moves(w, {"top"}, "exited")
    /\ UNCHANGED <<qvars, got, wcancelled, jcancelled, cvars, replaced, slots>>

\* run: neither cancelled nor paused; the schedule, when one is set, allows it.
PassGates(w) ==
    /\ ~CtxDone(w)
    /\ ~paused
    /\ Moves(w, {"top"}, "next")
    /\ UNCHANGED <<qvars, got, wcancelled, jcancelled, cvars, replaced, slots>>

\* run: GetNext.
PickJob(w) ==
    /\ \/ \E j \in JobId : /\ IsNext(j)
                           /\ got' = [got EXCEPT ![w] = j]
                           /\ Moves(w, {"next"}, "claim")
       \/ NoNext /\ got' = got /\ Moves(w, {"next"}, "top")
    /\ UNCHANGED <<qvars, wcancelled, jcancelled, cvars, replaced, slots>>

\* processJob: the job context is made and currentJob set, before StartJob.
Claim(w) ==
    /\ Moves(w, {"claim"}, "prepare")
    /\ jcancelled' = [jcancelled EXCEPT ![w] = FALSE]
    /\ UNCHANGED <<qvars, got, wcancelled, cvars, replaced, slots>>

\* prepareJob: a preset that no longer exists fails the job, whatever its status.
RejectPreset(w) ==
    /\ got[w] \in UnknownPreset
    /\ Moves(w, {"prepare"}, "release")
    /\ OrIgnored(FailJob(got[w]), got[w] \in Present)
    /\ UNCHANGED <<got, wcancelled, jcancelled, cvars, replaced, slots>>

\* Mutant: prepareJob marks the job running itself, whatever it has become.
PrepareUnasked(w) ==
    /\ got[w] \notin UnknownPreset
    /\ Moves(w, {"prepare"}, IF got[w] \in SmartJobs THEN "analyze" ELSE "encode")
    /\ SetStatus(got[w], "running")
    /\ UNCHANGED <<phase, order, lastId, got, wcancelled, jcancelled, cvars, replaced, slots>>

\* prepareJob: StartJob.  Of several workers that picked the job one succeeds.
Prepare(w) ==
    /\ wpc[w] = "prepare"
    /\ got[w] \notin UnknownPreset
    /\ IF status[got[w]] = "pending"
       THEN /\ Moves(w, {"prepare"}, IF got[w] \in SmartJobs THEN "analyze" ELSE "encode")
            /\ StartJob(got[w])
       ELSE Moves(w, {"prepare"}, "release") /\ UNCHANGED qvars
    /\ UNCHANGED <<got, wcancelled, jcancelled, cvars, replaced, slots>>

\* runSmartShrinkAnalysis.  A slot is asked for at once, or, with the phase shown as
\* waiting, again and again until one is free or the context is cancelled.
ShowPhase(w, ph) ==
    /\ OrIgnored(UpdateJobPhase(got[w], ph), status[got[w]] = "running")
    /\ UNCHANGED <<got, wcancelled, jcancelled, cvars, replaced, slots>>

AnalysisContended(w) ==
    /\ slots.count >= slots.limit
    /\ Moves(w, {"analyze"}, "contended")
    /\ UNCHANGED <<qvars, got, wcancelled, jcancelled, cvars, replaced, slots>>

AnalysisWaits(w) == Moves(w, {"contended"}, "waiting") /\ ShowPhase(w, "waiting_analysis")

\* Mutant: one analysis too many is let in.
TakeSlotAtLimit(w) ==
    /\ slots.count <= slots.limit
    /\ Moves(w, {"analyze", "waiting"}, "admitted")
    /\ slots' = [slots EXCEPT !.count = @ + 1]
    /\ UNCHANGED <<qvars, got, wcancelled, jcancelled, cvars, replaced>>

TakeSlot(w) ==
    /\ slots.count < slots.limit
    /\ Moves(w, {"analyze", "waiting"}, "admitted")
    /\ slots' = [slots EXCEPT !.count = @ + 1]
    /\ UNCHANGED <<qvars, got, wcancelled, jcancelled, cvars, replaced>>

AnalysisBegins(w) == Moves(w, {"admitted"}, "analyzing") /\ ShowPhase(w, "analyzing")

HasSlot(w) == wpc[w] \in {"admitted", "analyzing"}

\* The deferred release, when the function returns.
GivesSlotBack(w) ==
    slots' = IF HasSlot(w) THEN [slots EXCEPT !.count = @ - 1] ELSE slots

\* Mutant: a shutdown is taken for a cancellation.
AnalysisErrsAtStop(w) ==
    /\ wpc[w] = "analyzing" \/ JobCtxDone(w)
    /\ Moves(w, {"waiting", "analyzing"}, IF JobCtxDone(w) THEN "abandon" ELSE "fail")
    /\ GivesSlotBack(w)
    /\ UNCHANGED <<qvars, got, wcancelled, jcancelled, cvars, replaced>>

\* The analysis returns an error, or the wait for a slot is cut short by the
\* cancelled context.  A cancelled job is marked so unless the worker itself is
\* being stopped; what the job's status has become meanwhile is not looked at.
AnalysisErrs(w) ==
    /\ wpc[w] = "analyzing" \/ JobCtxDone(w)
    /\ Moves(w, {"waiting", "analyzing"},
             IF ~JobCtxDone(w) THEN "fail" ELSE IF CtxDone(w) THEN "release" ELSE "abandon")
    /\ GivesSlotBack(w)
    /\ UNCHANGED <<qvars, got, wcancelled, jcancelled, cvars, replaced>>

\* Nothing to gain; HDR is found before a slot is asked for.
AnalysisSkips(w) ==
    /\ Moves(w, {"analyze", "analyzing"}, "skip")
    /\ GivesSlotBack(w)
    /\ UNCHANGED <<qvars, got, wcancelled, jcancelled, cvars, replaced>>

AnalysisSelects(w) ==
    /\ Moves(w, {"analyzing"}, "resolved")
    /\ GivesSlotBack(w)
    /\ UNCHANGED <<qvars, got, wcancelled, jcancelled, cvars, replaced>>

\* buildTranscodeOpts: the results are stored and the phase is encoding.
BeginEncoding(w) == Moves(w, {"resolved"}, "encode") /\ ShowPhase(w, "encoding")

\* buildRemuxOpts: the file already is in the container it is to be put in.
RemuxSkips(w) ==
    /\ got[w] \notin SmartJobs
    /\ Moves(w, {"encode"}, "skip")
    /\ UNCHANGED <<qvars, got, wcancelled, jcancelled, cvars, replaced, slots>>

\* Mutant: job.Status is not looked at.
FinalizeUnchecked(w) ==
    /\ IF JobCtxDone(w)
       THEN Moves(w, {"encode"}, IF CtxDone(w) THEN "release" ELSE "abandon")
       ELSE \E to \in {"fail", "skip", "place"} : Moves(w, {"encode"}, to)
    /\ UNCHANGED <<qvars, got, wcancelled, jcancelled, cvars, replaced, slots>>

\* executeTranscode returns after the retries it makes, and finalizeJob tests in this
\* order: whether the job was cancelled, and it is marked so only if the worker goes
\* on and job.Status, read without the lock, is still running; then the error; then
\* the size; then come the files.
Finalize(w) ==
    /\ IF JobCtxDone(w)
       THEN Moves(w, {"encode"},
                  IF ~CtxDone(w) /\ status[got[w]] = "running" THEN "abandon" ELSE "release")
       ELSE \E to \in {"fail", "skip", "place"} : Moves(w, {"encode"}, to)
    /\ UNCHANGED <<qvars, got, wcancelled, jcancelled, cvars, replaced, slots>>

\* Mutant: the error of FinalizeTranscode is only logged.
PlaceUnchecked(w) ==
    /\ Moves(w, {"place"}, "record")
    /\ \/ /\ replaced[got[w]] < MaxReplaced
          /\ replaced' = [replaced EXCEPT ![got[w]] = @ + 1]
       \/ UNCHANGED replaced
    /\ UNCHANGED <<qvars, got, wcancelled, jcancelled, cvars, slots>>

\* FinalizeTranscode succeeds or fails; its file operations are in FinalizeFiles.
Place(w) ==
    /\ \/ /\ Moves(w, {"place"}, "record")
          /\ replaced[got[w]] < MaxReplaced
          /\ replaced' = [replaced EXCEPT ![got[w]] = @ + 1]
       \/ Moves(w, {"place"}, "fail") /\ UNCHANGED replaced
    /\ UNCHANGED <<qvars, got, wcancelled, jcancelled, cvars, slots>>

\* Mutant: only a running job is completed.
RecordGuarded(w) ==
    /\ Moves(w, {"record"}, "release")
    /\ OrIgnored(CompleteJob(got[w]), status[got[w]] = "running")
    /\ UNCHANGED <<got, wcancelled, jcancelled, cvars, replaced, slots>>

\* The last call of processJob on the queue, one for each way a job ends.
Record(w) ==
    /\ Moves(w, {"record"}, "release")
    /\ OrIgnored(CompleteJob(got[w]), got[w] \in Present)
    /\ UNCHANGED <<got, wcancelled, jcancelled, cvars, replaced, slots>>

\* Mutant: the failure is only logged.
FailUnrecorded(w) ==
    /\ Moves(w, {"fail"}, "release")
    /\ UNCHANGED <<qvars, got, wcancelled, jcancelled, cvars, replaced, slots>>

Fail(w) ==
    /\ Moves(w, {"fail"}, "release")
    /\ OrIgnored(FailJob(got[w]), got[w] \in Present)
    /\ UNCHANGED <<got, wcancelled, jcancelled, cvars, replaced, slots>>

Skip(w) ==
    /\ Moves(w, {"skip"}, "release")
    /\ OrIgnored(SkipJob(got[w]), status[got[w]] = "running")
    /\ UNCHANGED <<got, wcancelled, jcancelled, cvars, replaced, slots>>

Abandon(w) ==
    /\ Moves(w, {"abandon"}, "release")
    /\ OrIgnored(CancelJob(got[w]), got[w] \in Present /\ status[got[w]] \notin Terminal)
    /\ UNCHANGED <<got, wcancelled, jcancelled, cvars, replaced, slots>>

\* Mutant: jobDone is not closed.
ReleaseSilently(w) ==
    /\ Moves(w, {"release"}, "top")
    /\ got' = [got EXCEPT ![w] = NoJob]
    /\ jcancelled' = [jcancelled EXCEPT ![w] = FALSE]
    /\ UNCHANGED <<qvars, wcancelled, cvars, replaced, slots>>

\* processJob's deferred function: currentJob is nil and jobDone is closed,
\* which lets the Pause that waits for this worker go on.
Release(w) ==
    /\ Moves(w, {"release"}, "top")
    /\ got' = [got EXCEPT ![w] = NoJob]
    /\ jcancelled' = [jcancelled EXCEPT ![w] = FALSE]
    /\ pausing' = IF pausing.pc = "wait" /\ pausing.target.worker = w
                  THEN [pausing EXCEPT !.pc = "pick", !.target = NoTarget]
                  ELSE pausing
    /\ UNCHANGED <<qvars, wcancelled, paused, stopped, pool, resizing, replaced, slots>>

WorkerStep(w) ==
    \/ Exit(w) \/ PassGates(w) \/ PickJob(w) \/ Claim(w)
    \/ RejectPreset(w) \/ Prepare(w)
    \/ AnalysisContended(w) \/ AnalysisWaits(w) \/ TakeSlot(w) \/ AnalysisBegins(w)
    \/ AnalysisErrs(w) \/ AnalysisSkips(w) \/ AnalysisSelects(w) \/ BeginEncoding(w)
    \/ RemuxSkips(w) \/ Finalize(w) \/ Place(w)
    \/ Record(w) \/ Fail(w) \/ Skip(w) \/ Abandon(w) \/ Release(w)

-----------------------------------------------------------------------------
(* The calls of the HTTP handlers and of main.                             *)

\* CreateJobs and RetryJob.
Create(n, skipped) ==
    /\ AddJobs(n, skipped)
    /\ UNCHANGED <<wvars, cvars, replaced, slots>>

\* Pause: the flag, then the running jobs under p.mu.
PauseBegins ==
    /\ pausing.pc = "idle"
    /\ paused' = TRUE
    /\ pausing' = [pausing EXCEPT !.pc = "collect", !.moved = {}]
    /\ UNCHANGED <<qvars, wvars, stopped, pool, resizing, replaced, slots>>

PauseCollects ==
    /\ pausing.pc = "collect"
    /\ ~PoolLocked
    /\ pausing' = [pausing EXCEPT !.pc = "pick", !.todo = RunningJobs]
    /\ UNCHANGED <<qvars, wvars, paused, stopped, pool, resizing, replaced, slots>>

\* Pause requeues the newest job first, and goes to the next entry if the queue
\* refuses, without cancelling.
PauseRequeues ==
    /\ pausing.pc = "pick"
    /\ \E e \in Newest(pausing.todo) :
          /\ OrIgnored(Requeue(e.job), status[e.job] = "running")
          /\ pausing' = [pausing EXCEPT
                            !.todo = @ \ {e},
                            !.pc = IF status[e.job] = "running" THEN "cancel" ELSE "pick",
                            !.target = IF status[e.job] = "running" THEN e ELSE NoTarget,
                            !.moved = IF status[e.job] = "running" THEN @ \cup {e.job} ELSE @]
    /\ UNCHANGED <<wvars, paused, stopped, pool, resizing, replaced, slots>>

\* CancelCurrentJob, if the worker still has that job; then the wait for jobDone.
PauseCancels ==
    LET w == pausing.target.worker
        has == wpc[w] \in InJob /\ got[w] = pausing.target.job
    IN
    /\ pausing.pc = "cancel"
    /\ IF has
       THEN /\ jcancelled' = [jcancelled EXCEPT ![w] = TRUE]
            /\ pausing' = [pausing EXCEPT !.pc = "wait"]
       ELSE /\ UNCHANGED jcancelled
            /\ pausing' = [pausing EXCEPT !.pc = "pick", !.target = NoTarget]
    /\ UNCHANGED <<qvars, wpc, got, wcancelled, paused, stopped, pool, resizing, replaced, slots>>

PauseReturns ==
    /\ pausing.pc = "pick"
    /\ pausing.todo = {}
    /\ pausing' = [pausing EXCEPT !.pc = "idle"]
    /\ UNCHANGED <<qvars, wvars, paused, stopped, pool, resizing, replaced, slots>>

PauseStep == PauseCollects \/ PauseRequeues \/ PauseCancels \/ PauseReturns

\* ResumeQueue and CreateJobs.
Unpause ==
    /\ paused
    /\ paused' = FALSE
    /\ UNCHANGED <<qvars, wvars, stopped, pool, pausing, resizing, replaced, slots>>

\* Resize to more workers: a new goroutine each, under the pool's context.
Grow(w) ==
    /\ ~PoolLocked
    /\ w \notin PoolMembers
    /\ wpc[w] = "exited"
    /\ pool' = Append(pool, w)
    /\ wpc' = [wpc EXCEPT ![w] = "top"]
    /\ wcancelled' = [wcancelled EXCEPT ![w] = FALSE]
    /\ UNCHANGED <<qvars, got, jcancelled, paused, stopped, pausing, resizing, replaced, slots>>

\* Resize to n workers, fewer than there are: lock, collect.
ShrinkBegins(n) ==
    /\ ~PoolLocked
    /\ 1 <= n /\ n < Len(pool)
    /\ resizing' = [resizing EXCEPT !.pc = "pick", !.todo = RunningJobs,
                                    !.excess = Len(pool) - n]
    /\ UNCHANGED <<qvars, wvars, paused, stopped, pool, pausing, replaced, slots>>

\* CancelAndStop, its first half: jobCancel, if the worker has a job.  The workers
\* with collected jobs go first, newest job first, then the last of the pool.
ShrinkCancelsJob ==
    /\ resizing.pc = "pick"
    /\ resizing.excess > 0
    /\ \E e \in IF resizing.todo # {} THEN Newest(resizing.todo)
                ELSE {[worker |-> pool[Len(pool)], job |-> NoJob]} :
          /\ jcancelled' = [jcancelled EXCEPT ![e.worker] = wpc[e.worker] \in InJob]
          /\ resizing' = [resizing EXCEPT !.pc = "stop", !.todo = @ \ {e}, !.target = e]
    /\ UNCHANGED <<qvars, wpc, got, wcancelled, paused, stopped, pool, pausing, replaced, slots>>

\* Its second half: the worker's own context.
ShrinkStops ==
    /\ resizing.pc = "stop"
    /\ wcancelled' = [wcancelled EXCEPT ![resizing.target.worker] = TRUE]
    /\ resizing' = [resizing EXCEPT !.pc = "wait"]
    /\ UNCHANGED <<qvars, wpc, got, jcancelled, paused, stopped, pool, pausing, replaced, slots>>

\* Mutant: the worker stays in the pool.
ShrinkRequeuesOnly ==
    LET e == resizing.target IN
    /\ resizing.pc = "wait"
    /\ wpc[e.worker] = "exited"
    /\ OrIgnored(Requeue(e.job), e.job # NoJob /\ status[e.job] = "running")
    /\ resizing' = [resizing EXCEPT !.pc = "pick", !.target = NoTarget, !.excess = @ - 1]
    /\ UNCHANGED <<wvars, paused, stopped, pool, pausing, replaced, slots>>

\* The goroutine has returned: requeue the collected job, drop the worker.
ShrinkRequeues ==
    LET e == resizing.target IN
    /\ resizing.pc = "wait"
    /\ wpc[e.worker] = "exited"
    /\ OrIgnored(Requeue(e.job), e.job # NoJob /\ status[e.job] = "running")
    /\ \E k \in 1 .. Len(pool) :
          /\ pool[k] = e.worker
          /\ pool' = SubSeq(pool, 1, k - 1) \o SubSeq(pool, k + 1, Len(pool))
    /\ resizing' = [resizing EXCEPT !.pc = "pick", !.target = NoTarget, !.excess = @ - 1]
    /\ UNCHANGED <<wvars, paused, stopped, pausing, replaced, slots>>

ShrinkReturns ==
    /\ resizing.pc = "pick"
    /\ resizing.excess = 0
    /\ resizing' = [resizing EXCEPT !.pc = "idle", !.todo = {}]
    /\ UNCHANGED <<qvars, wvars, paused, stopped, pool, pausing, replaced, slots>>

ShrinkStep == ShrinkCancelsJob \/ ShrinkStops \/ ShrinkRequeues \/ ShrinkReturns

\* SetAnalysisLimit: analyses under way go on, whatever the new limit is.
SetAnalysisLimit(n) ==
    /\ slots' = [slots EXCEPT !.limit = n]
    /\ UNCHANGED <<qvars, wvars, cvars, replaced>>

\* Stop: the pool's context, and with it every context below.
Stop ==
    /\ ~stopped
    /\ stopped' = TRUE
    /\ UNCHANGED <<qvars, wvars, paused, pool, pausing, resizing, replaced, slots>>

-----------------------------------------------------------------------------
(* Specifications.  The workers always run; the others say which calls are *)
(* made.                                                                   *)

CreateNext == \E n \in 1 .. MaxJobs : \E skipped \in SUBSET NewIds(n) : Create(n, skipped)

WorkNext ==
    \/ CreateNext
    \/ \E n \in 1 .. MaxAnalyses : SetAnalysisLimit(n)
    \/ \E w \in Worker : WorkerStep(w)

ServeNext == WorkNext \/ Stop

PauseNext == PauseBegins \/ PauseStep \/ Unpause

\* Nobody resumes the queue before the call that pauses it has returned.  CreateJobs may
\* well do so; PauseSpec has that.
CalmPauseNext == PauseBegins \/ PauseStep \/ (pausing.pc = "idle" /\ Unpause)

ResizeNext ==
    \/ \E w \in Worker : Grow(w)
    \/ \E n \in 1 .. Len(pool) : ShrinkBegins(n)
    \/ ShrinkStep

Next == ServeNext \/ PauseNext \/ ResizeNext

ServeSpec     == PoolInit /\ [][ServeNext]_vars
PauseSpec     == PoolInit /\ [][ServeNext \/ PauseNext]_vars
CalmPauseSpec == PoolInit /\ [][ServeNext \/ CalmPauseNext]_vars
ResizeSpec    == PoolInit /\ [][ServeNext \/ ResizeNext]_vars
PoolSpec      == PoolInit /\ [][Next]_vars

\* The scheduler runs every goroutine, ffmpeg and the analysis return, and an
\* analysis that waits gets a slot.  Nobody has to call anything.
WorkersAreFair == \A w \in Worker : WF_vars(WorkerStep(w))

FairServeSpec  == ServeSpec /\ WorkersAreFair

\* Pause and Resize while the pool is not stopped.  A goroutine that waits for p.mu
\* gets it in the end: sync.Mutex lets nobody starve.
FairPoolSpec ==
    /\ PoolInit /\ [][WorkNext \/ PauseNext \/ ResizeNext]_vars
    /\ WorkersAreFair
    /\ SF_vars(PauseCollects)
    /\ WF_vars(PauseStep)
    /\ WF_vars(ShrinkStep)

-----------------------------------------------------------------------------
(* Properties.                                                             *)

PoolTypeOK ==
    /\ QueueTypeOK
    /\ paused \in BOOLEAN /\ stopped \in BOOLEAN
    /\ pool \in Seq(Worker)
    /\ wpc \in [Worker -> Points]
    /\ got \in [Worker -> JobId \cup {NoJob}]
    /\ wcancelled \in [Worker -> BOOLEAN]
    /\ jcancelled \in [Worker -> BOOLEAN]
    /\ slots \in [count : 0 .. Cardinality(Worker), limit : 1 .. MaxAnalyses]
    /\ replaced \in [JobId -> 0 .. MaxReplaced]

\* w works on j: between its successful StartJob and the end of processJob.
WorksOn(w, j) == wpc[w] \in Processing /\ got[w] = j

\* Two workers never work on the same job, so never on the same file: prepareJob
\* relies on "first worker to call this wins".
OneWorkerPerJob ==
    \A j \in JobId : \A v, w \in Worker : WorksOn(v, j) /\ WorksOn(w, j) => v = w

\* A job shown as running has a worker that will finish it, unless Resize has still
\* to requeue it or the pool is stopped, when the next start of the program makes it
\* pending again.  No other job may be left running: nothing would pick it up.
RunningHasWorker ==
    \A j \in JobId : status[j] = "running" =>
        stopped \/ PoolLocked \/ \E w \in Worker : WorksOn(w, j)

\* Pause puts the jobs it interrupts back in the order in which they were made, and
\* before every job that waited: whichever of them its worker still ends, whoever picks
\* one up in between, adds others or resumes the queue, those that wait are taken from
\* the oldest.
PauseKeepsOrder ==
    \A a \in pausing.moved, b \in JobId :
        /\ a # b /\ status[a] = "pending" /\ status[b] = "pending"
        /\ b \in pausing.moved => a < b
        => <<a, b>> \in order

\* Nobody asked for a cancellation in this module, so no job is ever cancelled:
\* a job that loses its worker to Stop, Pause or Resize stays in the queue.
NeverCancelled == \A j \in JobId : status[j] # "cancelled"

\* A job is recorded complete only after its output took the place of its file.
CompleteIsReplaced == \A j \in JobId : status[j] = "complete" => replaced[j] > 0

\* The file of a job is replaced once at most: the output of a transcode is
\* never transcoded again.
ReplacedOnce == \A j \in JobId : replaced[j] <= 1

\* What the paths of the jobs hold.
FilesOfJobs == [j \in JobId |-> IF replaced[j] = 0 THEN "original" ELSE "output"]

Lifecycle == INSTANCE JobLifecycle WITH Job <- JobId, state <- status, file <- FilesOfJobs

\* The pool at work does to each job what JobLifecycle promises: behind it are the
\* queue's lock, the test of StartJob and the order of the tests of finalizeJob.
KeepsLifecycle == Lifecycle!Spec

\* While no Resize is under way the goroutines that live are the workers of the
\* pool: shrinking leaks none, growing starts each once.
PoolIsAlive ==
    ~PoolLocked /\ ~stopped => \A w \in Worker : (wpc[w] # "exited") <=> (w \in PoolMembers)

SlotHolders == {w \in Worker : HasSlot(w)}

\* No analysis begins while as many workers analyze as the limit says, whichever of
\* the two places took the slot, whatever errors, cancellations and changes of the
\* limit came before.  (Lowering the limit leaves those under way alone.)
AnalysisLimitHolds ==
    [][\A w \in Worker : ~HasSlot(w) /\ HasSlot(w)' =>
          Cardinality(SlotHolders') <= slots.limit]_vars

\* Every job that waits is eventually finished, unless the pool is stopped first.
EveryJobEnds ==
    \A j \in JobId : (status[j] = "pending") ~> (stopped \/ status[j] \in Terminal)

\* A call of Pause returns, and so does one of Resize, which then releases p.mu: the
\* worker Pause waits for always closes jobDone, and CancelAndStop never waits for a
\* worker that waits for the pool.
CallsReturn ==
    /\ (pausing.pc # "idle") ~> (pausing.pc = "idle")
    /\ (resizing.pc # "idle") ~> (resizing.pc = "idle")
=============================================================================
