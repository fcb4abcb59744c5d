-------------------------------- MODULE Api --------------------------------
(***************************************************************************)
(* The job handlers of internal/api/handler.go over the pool and the queue:*)
(* CancelJob, RetryJob and ClearQueue, each request a goroutine of its own.*)
(*                                                                         *)
(* CancelJob and RetryJob read the job through the pointer Queue.Get gave  *)
(* them, without the lock, and then call the pool and the queue; between   *)
(* these steps workers and other requests go on.  A job deleted meanwhile  *)
(* keeps the terminal status it had in the record the pointer leads to,    *)
(* so it is read here as not running, like Absent.                         *)
(***************************************************************************)
EXTENDS WorkerPool

CONSTANT Request    \* the requests that may be served at a time

VARIABLES
    request,    \* [Request -> [pc, job]]: where a handler is, and its job
    asked       \* the jobs a user asked to cancel (history variable)

apivars == <<request, asked>>

Idle == [pc |-> "idle", job |-> NoJob]

Goes(r, pc) == request' = [request EXCEPT ![r].pc = pc]
Returns(r)  == request' = [request EXCEPT ![r] = Idle]

ApiInit ==
    /\ PoolInit
    /\ request = [r \in Request |-> Idle]
    /\ asked = {}

-----------------------------------------------------------------------------
(* DELETE /api/jobs/{id}                                                   *)

\* A terminal job is to be removed; a running one is to be stopped first.
CancelLooks(r, j) ==
    /\ request[r] = Idle
    /\ j \in Present
    /\ request' = [request EXCEPT ![r] =
                      [job |-> j, pc |-> IF status[j] \in Terminal THEN "remove"
                                         ELSE IF status[j] = "running" THEN "stop_worker"
                                         ELSE "cancel"]]
    /\ asked' = IF status[j] \in Terminal THEN asked ELSE asked \cup {j}
    /\ UNCHANGED vars

\* The workers of the pool that hold job j, and the first of them.
Holders(j) == {i \in 1 .. Len(pool) : wpc[pool[i]] \in InJob /\ got[pool[i]] = j}
FirstHolder(j) == CHOOSE i \in Holders(j) : \A k \in Holders(j) : i <= k

\* WorkerPool.CancelJob: the workers are copied under p.mu and the first that
\* holds the job has it cancelled.
CancelReachesWorker(r) ==
    LET j == request[r].job IN
    /\ request[r].pc = "stop_worker"
    /\ ~PoolLocked
    /\ jcancelled' = IF Holders(j) = {} THEN jcancelled
                     ELSE [jcancelled EXCEPT ![pool[FirstHolder(j)]] = TRUE]
    /\ Goes(r, "cancel")
    /\ UNCHANGED <<qvars, wpc, got, wcancelled, cvars, replaced, slots, asked>>

\* Queue.CancelJob; if the job has ended meanwhile the answer is a conflict.
CancelRecords(r) ==
    LET j == request[r].job IN
    /\ request[r].pc = "cancel"
    /\ OrIgnored(CancelJob(j), j \in Present /\ status[j] \notin Terminal)
    /\ Returns(r)
    /\ UNCHANGED <<wvars, cvars, replaced, slots, asked>>

-----------------------------------------------------------------------------
(* POST /api/jobs/{id}/retry                                               *)

\* Mutant: any job can be retried.
RetryLooksAny(r, j) ==
    /\ request[r] = Idle
    /\ j \in Present
    /\ request' = [request EXCEPT ![r] = [job |-> j, pc |-> "probe"]]
    /\ UNCHANGED <<vars, asked>>

\* A job that failed can be retried; its file is probed first.
RetryLooks(r, j) ==
    /\ request[r] = Idle
    /\ status[j] = "failed"
    /\ request' = [request EXCEPT ![r] = [job |-> j, pc |-> "probe"]]
    /\ UNCHANGED <<vars, asked>>

\* The file cannot be probed any more.
RetryProbeFails(r) ==
    /\ request[r].pc = "probe"
    /\ Returns(r)
    /\ UNCHANGED <<vars, asked>>

\* The new job, which the probe may show is to be skipped.
RetryAdds(r) ==
    /\ request[r].pc = "probe"
    /\ \E skipped \in SUBSET NewIds(1) : Create(1, skipped)
    /\ Goes(r, "remove")
    /\ UNCHANGED asked

\* Queue.Remove, the end of a retry and of a DELETE of a terminal job.
RemovesJob(r) ==
    /\ request[r].pc = "remove"
    /\ Remove(request[r].job)
    /\ Returns(r)
    /\ UNCHANGED <<wvars, cvars, replaced, slots, asked>>

-----------------------------------------------------------------------------
(* POST /api/jobs/clear                                                    *)

ClearQueue(filter) ==
    /\ Clear(filter)
    /\ UNCHANGED <<wvars, cvars, replaced, slots, apivars>>

-----------------------------------------------------------------------------
RequestStep(r) ==
    \/ CancelReachesWorker(r) \/ CancelRecords(r)
    \/ RetryProbeFails(r) \/ RetryAdds(r) \/ RemovesJob(r)

ApiNext ==
    \/ ServeNext /\ UNCHANGED apivars
    \/ \E r \in Request, j \in JobId : CancelLooks(r, j) \/ RetryLooks(r, j)
    \/ \E r \in Request : RequestStep(r)
    \/ \E f \in ClearFilters : ClearQueue(f)

ApiSpec == ApiInit /\ [][ApiNext]_<<vars, apivars>>

-----------------------------------------------------------------------------
(* Properties.                                                             *)

ApiTypeOK ==
    /\ PoolTypeOK
    /\ request \in [Request -> [pc : {"idle", "stop_worker", "cancel", "probe", "remove"},
                                job : JobId \cup {NoJob}]]
    /\ asked \subseteq JobId

\* A job is shown as cancelled only if a user asked for it: neither a shutdown
\* nor the cancellation of another job makes a worker record it.
OnlyAskedIsCancelled == \A j \in JobId : status[j] = "cancelled" => j \in asked

\* A running job is never taken out of the queue, although Remove does not look
\* at the status: the handlers call it for a job they saw in a terminal state, and
\* a terminal job never runs again.
RunningNeverRemoved ==
    [][\A j \in JobId : status[j] = "running" => status'[j] # Absent]_<<vars, apivars>>

\* A cancellation ends what is to be done for the job: a worker that picked it before,
\* or is at work on it, does not start or requeue it any more.  All that may still
\* happen to the status is that the worker that had passed the test of finalizeJob
\* records how its transcode ended, or the one that picked the job finds that its
\* preset is gone and records that; and without a worker, that the job is removed.
CancelledNeverStarts ==
    [][\A j \in JobId : status[j] = "cancelled" /\ status'[j] \notin {"cancelled", Absent} =>
          \E w \in Worker :
              /\ got[w] = j /\ wpc'[w] = "release"
              /\ \/ wpc[w] \in {"record", "fail"}
                 \/ wpc[w] = "prepare" /\ j \in UnknownPreset]_<<vars, apivars>>
=============================================================================
