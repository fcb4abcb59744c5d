----------------------------- MODULE ApiProofs -----------------------------
(***************************************************************************)
(* Theorems about Api, for any requests, workers, jobs and presets.        *)
(*                                                                         *)
(* The properties are not inductive.  That only a job a user asked for is  *)
(* recorded cancelled needs that a context is cancelled only while its     *)
(* worker holds such a job.  That no running job is removed needs that the *)
(* job a handler is about to remove has ended or is gone, which lasts: a   *)
(* terminal job never runs again, and no id is issued twice.               *)
(***************************************************************************)
EXTENDS Api, WorkerPoolProofs, WellFoundedInduction

\* Nobody pauses or resizes: of the contexts only that of the pool and those of
\* the jobs are ever cancelled.
NotInterrupted ==
    /\ pausing.pc = "idle"
    /\ resizing.pc = "idle"
    /\ \A w \in Worker : ~wcancelled[w]

RequestsTyped ==
    /\ request \in [Request -> [pc : {"idle", "stop_worker", "cancel", "probe", "remove"},
                                job : JobId \cup {NoJob}]]
    /\ asked \subseteq JobId
    /\ \A r \in Request : request[r].pc # "idle" => request[r].job \in JobId

\* A handler on its way to cancel a job was asked to.
CancelIsAsked ==
    \A r \in Request : request[r].pc \in {"stop_worker", "cancel"} => request[r].job \in asked

\* So was whoever cancelled the context of a worker's job.
WorkersAreAsked ==
    \A w \in Worker : jcancelled[w] \/ wpc[w] = "abandon" =>
        wpc[w] \in InJob /\ got[w] \in asked

\* Job j has ended, or was deleted.
Ended(j) == j <= lastId /\ status[j] \in Terminal \cup {Absent}

RemovesEnded ==
    \A r \in Request : request[r].pc \in {"probe", "remove"} => Ended(request[r].job)

ApiIInv ==
    /\ QueueIInv /\ HoldsJobs /\ SlotsCounted /\ FlagsTyped
    /\ NotInterrupted /\ RequestsTyped /\ CancelIsAsked /\ WorkersAreAsked
    /\ OnlyAskedIsCancelled /\ RemovesEnded

-----------------------------------------------------------------------------
(* Facts of the queue and the pool that the handlers rely on.              *)

\* What a handler saw ended, or is to delete, stays so: a terminal job does not
\* run again, and the id of a deleted job is not issued again.
LEMMA EndedStays ==
    ASSUME QueueIInv, [QueueNext]_qvars, NEW j \in JobId, Ended(j)
    PROVE  Ended(j)'
  <1>0. status \in [JobId -> Status \cup {Absent}] /\ lastId \in Nat
    BY MaxJobsAssumption DEF QueueIInv, QueueTypeOK
  <1>1. CASE \E n \in 1 .. MaxJobs : \E skipped \in SUBSET NewIds(n) : AddJobs(n, skipped)
    <2> PICK n \in 1 .. MaxJobs : \E skipped \in SUBSET NewIds(n) : AddJobs(n, skipped)
      BY <1>1
    <2>1. j \notin NewIds(n) /\ lastId' = lastId + n
      BY <1>0 DEF NewIds, Ended, JobId, AddJobs
    <2>2. status'[j] = status[j]
      BY <2>1 DEF AddJobs
    <2> QED BY <1>0, <2>1, <2>2 DEF Ended, JobId
  <1>2. CASE lastId' = lastId
    <2>1. CASE status[j] \in Terminal
      BY <1>2, <2>1, TerminalStep DEF Ended
    <2>2. CASE status[j] = Absent
      <3>1. status'[j] = Absent
        <4>1. ASSUME NEW k \in JobId, NEW s, status[k] # Absent, SetStatus(k, s)
              PROVE  status'[j] = status[j]
          BY <1>0, <2>2, <4>1 DEF SetStatus
        <4>2. \A k \in JobId : StartJob(k) \/ CompleteJob(k) \/ FailJob(k) \/ SkipJob(k)
                               \/ CancelJob(k) \/ Requeue(k) => status'[j] = status[j]
          BY <4>1, StatusFacts
          DEF StartJob, CompleteJob, FailJob, SkipJob, CancelJob, Requeue, Present
        <4>3. \A S : Delete(S) => status'[j] = Absent
          BY <2>2 DEF Delete
        <4>4. CASE \E n \in 1 .. MaxJobs : \E skipped \in SUBSET NewIds(n) : AddJobs(n, skipped)
          <5> PICK n \in 1 .. MaxJobs : \E skipped \in SUBSET NewIds(n) : AddJobs(n, skipped)
            BY <4>4
          <5>1. lastId' = lastId + n
            BY DEF AddJobs
          <5> QED BY <1>0, <1>2, <5>1, MaxJobsAssumption
        <4> QED BY <2>2, <4>2, <4>3, <4>4 DEF QueueNext, Clear, Remove, UpdateJobPhase, qvars
      <3> QED BY <1>2, <3>1 DEF Ended
    <2> QED BY <2>1, <2>2 DEF Ended
  <1> QED BY <1>1, <1>2
          DEF QueueNext, qvars, StartJob, CompleteJob, FailJob, SkipJob, UpdateJobPhase,
              CancelJob, Requeue, Clear, Remove, Delete

\* A job that is in the queue has been issued its id.
LEMMA PresentIsIssued == QueueIInv => \A j \in Present : j \in JobId /\ j <= lastId
  BY MaxJobsAssumption DEF QueueIInv, QueueTypeOK, Unissued, Present, JobId

\* The first worker of the pool that holds a job, when there is one.
LEMMA FirstHolderHolds ==
    ASSUME HoldsJobs, NEW j, Holders(j) # {}
    PROVE  /\ FirstHolder(j) \in 1 .. Len(pool)
           /\ pool[FirstHolder(j)] \in Worker
           /\ wpc[pool[FirstHolder(j)]] \in InJob
           /\ got[pool[FirstHolder(j)]] = j
  <1> DEFINE R == OpToRel(<, Nat)
  <1>1. Holders(j) \subseteq Nat
    BY DEF Holders, HoldsJobs
  <1>2. PICK i \in Holders(j) : \A k \in Holders(j) : ~(<<k, i>> \in R)
    <2> HIDE DEF R
    <2>1. IsWellFoundedOn(R, Nat)
      BY NatLessThanWellFounded DEF R
    <2> QED BY <1>1, <2>1, WFMin
  <1>3. \A k \in Holders(j) : i <= k
    <2>1. \A a, b \in Nat : a < b => <<a, b>> \in R
      BY DEF OpToRel
    <2> HIDE DEF R
    <2> SUFFICES ASSUME NEW k \in Holders(j) PROVE i <= k
      OBVIOUS
    <2>2. i \in Nat /\ k \in Nat
      BY <1>1
    <2>3. ~(k < i)
      BY <1>2, <2>1, <2>2, Zenon
    <2> QED BY <2>2, <2>3
  <1>4. FirstHolder(j) \in Holders(j)
    BY <1>3 DEF FirstHolder
  <1> QED BY <1>4 DEF Holders, HoldsJobs

\* NewHandler: no request is served, nothing was asked.
LEMMA ApiInitIInv == ApiInit => ApiIInv
  <1> SUFFICES ASSUME ApiInit PROVE ApiIInv
    OBVIOUS
  <1>1. QueueIInv /\ HoldsJobs /\ SlotsCounted /\ FlagsTyped
    BY QueueInitIInv, PoolInitHoldsJobs, PoolInitSlots, PoolInitFlags DEF ApiInit, PoolInit
  <1>2. NotInterrupted /\ WorkersAreAsked
    BY DEF ApiInit, PoolInit, NotInterrupted, WorkersAreAsked
  <1>3. RequestsTyped /\ CancelIsAsked /\ RemovesEnded
    BY DEF ApiInit, Idle, RequestsTyped, CancelIsAsked, RemovesEnded
  <1>4. OnlyAskedIsCancelled
    BY DEF ApiInit, PoolInit, QueueInit, OnlyAskedIsCancelled, Absent
  <1> QED BY <1>1, <1>2, <1>3, <1>4 DEF ApiIInv

-----------------------------------------------------------------------------
(* Steps of the workers.                                                   *)

\* A step of a worker concerns no other worker, and no call of the pool.
LEMMA WorkerStepLocal ==
    ASSUME HoldsJobs, FlagsTyped, NotInterrupted, NEW w \in Worker, WorkerStep(w)
    PROVE  /\ \A v \in Worker \ {w} :
                  wpc'[v] = wpc[v] /\ got'[v] = got[v] /\ jcancelled'[v] = jcancelled[v]
           /\ NotInterrupted'
  <1> USE DEF HoldsJobs, FlagsTyped, NotInterrupted, Moves, cvars
  <1>1. CASE Exit(w) \/ PassGates(w) \/ Claim(w) \/ PickJob(w) \/ Release(w)
    BY <1>1 DEF Exit, PassGates, Claim, PickJob, Release
  <1>2. CASE RejectPreset(w) \/ Prepare(w)
    BY <1>2 DEF RejectPreset, Prepare
  <1>3. CASE AnalysisWaits(w) \/ AnalysisBegins(w) \/ BeginEncoding(w)
    BY <1>3 DEF AnalysisWaits, AnalysisBegins, BeginEncoding, ShowPhase
  <1>4. CASE AnalysisContended(w) \/ TakeSlot(w) \/ AnalysisErrs(w)
    BY <1>4 DEF AnalysisContended, TakeSlot, AnalysisErrs
  <1>5. CASE AnalysisSkips(w) \/ AnalysisSelects(w) \/ RemuxSkips(w) \/ Place(w)
    BY <1>5 DEF AnalysisSkips, AnalysisSelects, RemuxSkips, Place
  <1>6. CASE Finalize(w)
    BY <1>6 DEF Finalize
  <1>7. CASE Record(w) \/ Fail(w) \/ Skip(w) \/ Abandon(w)
    BY <1>7 DEF Record, Fail, Skip, Abandon
  <1> QED BY <1>1, <1>2, <1>3, <1>4, <1>5, <1>6, <1>7 DEF WorkerStep

\* A worker gives up a job as cancelled only when its context was cancelled, and the
\* context outlives the job in no case.
LEMMA WorkerStepAsked ==
    ASSUME HoldsJobs, FlagsTyped, NotInterrupted, WorkersAreAsked,
           NEW w \in Worker, WorkerStep(w), asked' = asked
    PROVE  WorkersAreAsked'
  <1> SUFFICES jcancelled'[w] \/ wpc'[w] = "abandon" => wpc'[w] \in InJob /\ got'[w] \in asked
    BY WorkerStepLocal DEF WorkersAreAsked
  <1>0. /\ jcancelled[w] \/ wpc[w] = "abandon" => wpc[w] \in InJob /\ got[w] \in asked
        /\ ~wcancelled[w]
    BY DEF WorkersAreAsked, NotInterrupted
  <1> USE DEF HoldsJobs, FlagsTyped, Moves, InJob, Processing
  <1>1. CASE Exit(w) \/ PassGates(w) \/ Claim(w) \/ PickJob(w) \/ Release(w)
    BY <1>0, <1>1 DEF Exit, PassGates, Claim, PickJob, Release
  <1>2. CASE RejectPreset(w) \/ Prepare(w)
    BY <1>0, <1>2 DEF RejectPreset, Prepare
  <1>3. CASE AnalysisWaits(w) \/ AnalysisBegins(w) \/ BeginEncoding(w)
    BY <1>0, <1>3 DEF AnalysisWaits, AnalysisBegins, BeginEncoding, ShowPhase
  <1>4. CASE AnalysisContended(w) \/ TakeSlot(w)
    BY <1>0, <1>4 DEF AnalysisContended, TakeSlot
  <1>5. CASE AnalysisSkips(w) \/ AnalysisSelects(w) \/ RemuxSkips(w) \/ Place(w)
    BY <1>0, <1>5 DEF AnalysisSkips, AnalysisSelects, RemuxSkips, Place
  <1>6. CASE AnalysisErrs(w) \/ Finalize(w)
    BY <1>0, <1>6 DEF AnalysisErrs, Finalize, CtxDone, JobCtxDone
  <1>7. CASE Record(w) \/ Fail(w) \/ Skip(w) \/ Abandon(w)
    BY <1>0, <1>7 DEF Record, Fail, Skip, Abandon
  <1> QED BY <1>1, <1>2, <1>3, <1>4, <1>5, <1>6, <1>7 DEF WorkerStep

\* What a step of a worker does to the status of a job: nothing, or what the point it
\* has come to says, and always to the job it holds.
LEMMA WorkerStepStatus ==
    ASSUME QueueIInv, HoldsJobs, NEW w \in Worker, WorkerStep(w), NEW j \in JobId
    PROVE  \/ status'[j] = status[j]
           \/ /\ got[w] = j
              /\ wpc'[w] = "release"
              /\ wpc[w] \in {"record", "fail"} \/ (wpc[w] = "prepare" /\ j \in UnknownPreset)
              /\ status[j] # Absent
              /\ status'[j] \in {"complete", "failed"}
           \/ got[w] = j /\ status[j] = "pending" /\ status'[j] = "running"
           \/ got[w] = j /\ status[j] = "running" /\ status'[j] = "skipped"
           \/ /\ got[w] = j /\ wpc[w] = "abandon"
              /\ status[j] \notin Terminal \cup {Absent} /\ status'[j] = "cancelled"
  <1>0. status \in [JobId -> Status \cup {Absent}] /\ wpc \in [Worker -> Points]
    BY DEF QueueIInv, QueueTypeOK, HoldsJobs
  <1> USE DEF Moves, SetStatus, qvars
  <1>1. CASE UNCHANGED status
    BY <1>1
  <1>2. CASE RejectPreset(w)
    BY <1>0, <1>2 DEF RejectPreset, OrIgnored, FailJob, Present
  <1>3. CASE Prepare(w)
    BY <1>0, <1>3 DEF Prepare, StartJob
  <1>4. CASE Record(w) \/ Fail(w)
    BY <1>0, <1>4 DEF Record, Fail, OrIgnored, CompleteJob, FailJob, Present
  <1>5. CASE Skip(w) \/ Abandon(w)
    BY <1>0, <1>5 DEF Skip, Abandon, OrIgnored, SkipJob, CancelJob, Present
  <1>6. CASE AnalysisWaits(w) \/ AnalysisBegins(w) \/ BeginEncoding(w)
    BY <1>1, <1>6
    DEF AnalysisWaits, AnalysisBegins, BeginEncoding, ShowPhase, OrIgnored, UpdateJobPhase
  <1>7. CASE Exit(w) \/ PassGates(w) \/ Claim(w) \/ PickJob(w) \/ Release(w)
    BY <1>1, <1>7 DEF Exit, PassGates, Claim, PickJob, Release
  <1>8. CASE AnalysisContended(w) \/ TakeSlot(w) \/ AnalysisErrs(w) \/ AnalysisSkips(w)
             \/ AnalysisSelects(w) \/ RemuxSkips(w) \/ Finalize(w) \/ Place(w)
    BY <1>1, <1>8
    DEF AnalysisContended, TakeSlot, AnalysisErrs, AnalysisSkips, AnalysisSelects, RemuxSkips,
        Finalize, Place
  <1> QED BY <1>2, <1>3, <1>4, <1>5, <1>6, <1>7, <1>8 DEF WorkerStep

-----------------------------------------------------------------------------
(* Steps of the requests.                                                  *)

\* A step of the program: of the workers and the other calls, or of a request, which
\* leaves the pool alone but for the job context it cancels.
LEMMA ApiStepKinds ==
    ASSUME ApiIInv, [ApiNext]_<<vars, apivars>>
    PROVE  \/ [ServeNext]_vars
           \/ \E r \in Request : CancelReachesWorker(r)
           \/ [QueueNext]_qvars /\ UNCHANGED <<wvars, cvars, replaced, slots>>
  <1>1. CASE ServeNext \/ UNCHANGED <<vars, apivars>>
    BY <1>1 DEF vars
  <1>2. CASE \E r \in Request, j \in JobId : CancelLooks(r, j) \/ RetryLooks(r, j)
    BY <1>2 DEF CancelLooks, RetryLooks, vars
  <1>3. ASSUME NEW r \in Request, CancelRecords(r) \/ RemovesJob(r)
        PROVE  [QueueNext]_qvars /\ UNCHANGED <<wvars, cvars, replaced, slots>>
    <2>1. request[r].job \in JobId
      BY <1>3 DEF CancelRecords, RemovesJob, ApiIInv, RequestsTyped
    <2> QED BY <1>3, <2>1 DEF CancelRecords, RemovesJob, OrIgnored, QueueNext
  <1>4. ASSUME NEW r \in Request, RetryProbeFails(r) \/ RetryAdds(r)
        PROVE  [ServeNext]_vars
    <2>1. ASSUME NEW skipped \in SUBSET NewIds(1), Create(1, skipped)
          PROVE  ServeNext
      <3>1. 1 \in 1 .. MaxJobs
        BY <2>1, MaxJobsAssumption DEF Create, AddJobs, ApiIInv, QueueIInv, QueueTypeOK
      <3> QED BY <2>1, <3>1 DEF ServeNext, WorkNext, CreateNext
    <2> QED BY <1>4, <2>1 DEF RetryProbeFails, RetryAdds, vars
  <1>5. CASE \E f \in ClearFilters : ClearQueue(f)
    BY <1>5 DEF ClearQueue, QueueNext
  <1> QED BY <1>1, <1>2, <1>3, <1>4, <1>5 DEF ApiNext, RequestStep

\* The queue is used by its methods only, whoever uses it.
LEMMA ApiStepQueue ==
    ASSUME ApiIInv, [ApiNext]_<<vars, apivars>>
    PROVE  [QueueNext]_qvars
  <1>1. CASE [ServeNext]_vars
    BY <1>1, NextIsQueueNext DEF ApiIInv, Next
  <1>2. CASE \E r \in Request : CancelReachesWorker(r)
    BY <1>2 DEF CancelReachesWorker
  <1> QED BY <1>1, <1>2, ApiStepKinds

\* What was shown of the queue and the pool alone still holds with the handlers.
LEMMA ApiStepPool ==
    ASSUME ApiIInv, [ApiNext]_<<vars, apivars>>
    PROVE  (QueueIInv /\ HoldsJobs /\ SlotsCounted /\ FlagsTyped)'
  <1>1. QueueIInv'
    BY ApiStepQueue, QueueNextIInv DEF ApiIInv
  <1>2. CASE [ServeNext]_vars
    <2>1. [Next]_vars
      BY <1>2 DEF Next
    <2>2. SlotsCounted'
      BY <2>1, WorkerStepSlots, CallStepSlots DEF ApiIInv
    <2> QED BY <1>1, <2>1, <2>2, NextHoldsJobs, NextFlags DEF ApiIInv
  <1>3. CASE \E r \in Request : CancelReachesWorker(r)
    <2> PICK r \in Request : CancelReachesWorker(r)
      BY <1>3
    <2>1. UNCHANGED <<wpc, got, wcancelled, cvars, replaced, slots>>
      BY DEF CancelReachesWorker
    <2>2. HoldsJobs'
      BY <2>1 DEF ApiIInv, HoldsJobs, cvars
    <2>3. SlotsCounted'
      BY <2>1, SlotsUntouched DEF ApiIInv, HasSlot
    <2>4. FlagsTyped'
      <3>1. jcancelled' \in [Worker -> BOOLEAN]
        BY DEF CancelReachesWorker, ApiIInv, FlagsTyped
      <3> QED BY <2>1, <3>1 DEF ApiIInv, FlagsTyped, cvars
    <2> QED BY <1>1, <2>2, <2>3, <2>4
  <1>4. CASE UNCHANGED <<wvars, cvars, replaced, slots>>
    <2>1. HoldsJobs' /\ FlagsTyped'
      BY <1>4 DEF ApiIInv, HoldsJobs, FlagsTyped, wvars, cvars
    <2>2. SlotsCounted'
      BY <1>4, SlotsUntouched DEF ApiIInv, HasSlot, wvars
    <2> QED BY <1>1, <2>1, <2>2
  <1> QED BY <1>2, <1>3, <1>4, ApiStepKinds

\* Only cancellations concern the contexts, and only of jobs asked for.
LEMMA ApiStepContexts ==
    ASSUME ApiIInv, [ApiNext]_<<vars, apivars>>, asked \subseteq asked'
    PROVE  NotInterrupted' /\ WorkersAreAsked'
  <1> USE DEF ApiIInv
  <1>1. CASE \E w \in Worker : WorkerStep(w) /\ UNCHANGED apivars
    BY <1>1, WorkerStepLocal, WorkerStepAsked DEF apivars
  <1>2. CASE UNCHANGED <<wvars, cvars>>
    BY <1>2 DEF NotInterrupted, WorkersAreAsked, wvars, cvars
  <1>3. CASE \E r \in Request : CancelReachesWorker(r)
    <2> PICK r \in Request : CancelReachesWorker(r)
      BY <1>3
    <2> DEFINE j == request[r].job
    <2>1. NotInterrupted'
      BY DEF CancelReachesWorker, NotInterrupted, cvars
    <2>2. j \in asked
      BY DEF CancelReachesWorker, CancelIsAsked
    <2>3. CASE Holders(j) = {}
      BY <2>1, <2>3 DEF CancelReachesWorker, WorkersAreAsked
    <2>4. CASE Holders(j) # {}
      <3> DEFINE v == pool[FirstHolder(j)]
      <3>1. v \in Worker /\ wpc[v] \in InJob /\ got[v] = j
        BY <2>4, FirstHolderHolds
      <3>2. jcancelled' = [jcancelled EXCEPT ![v] = TRUE] /\ UNCHANGED <<wpc, got>>
        BY <2>4 DEF CancelReachesWorker
      <3> HIDE DEF v, j
      <3>3. WorkersAreAsked'
        BY <2>2, <3>1, <3>2 DEF WorkersAreAsked, FlagsTyped
      <3> QED BY <2>1, <3>3
    <2> QED BY <2>3, <2>4
  <1>4. CASE CreateNext \/ \E n \in 1 .. MaxAnalyses : SetAnalysisLimit(n)
    BY <1>2, <1>4 DEF CreateNext, Create, SetAnalysisLimit
  <1>5. CASE Stop
    BY <1>5 DEF Stop, NotInterrupted, WorkersAreAsked, wvars
  <1>6. CASE \E r \in Request, j \in JobId : CancelLooks(r, j) \/ RetryLooks(r, j)
    BY <1>2, <1>6 DEF CancelLooks, RetryLooks, vars
  <1>7. CASE \E r \in Request : RetryProbeFails(r) \/ RetryAdds(r)
    BY <1>2, <1>7 DEF RetryProbeFails, RetryAdds, Create, vars
  <1>8. CASE \E r \in Request : CancelRecords(r) \/ RemovesJob(r)
    BY <1>2, <1>8 DEF CancelRecords, RemovesJob
  <1>9. CASE \/ \E f \in ClearFilters : ClearQueue(f)
             \/ UNCHANGED <<vars, apivars>>
    BY <1>2, <1>9 DEF ClearQueue, vars
  <1> QED BY <1>1, <1>3, <1>4, <1>5, <1>6, <1>7, <1>8, <1>9
          DEF ApiNext, RequestStep, ServeNext, WorkNext

\* Where the requests go: what they are about to cancel was asked for, what they are
\* about to remove has ended.
LEMMA ApiStepRequests ==
    ASSUME ApiIInv, [ApiNext]_<<vars, apivars>>
    PROVE  RequestsTyped' /\ CancelIsAsked' /\ RemovesEnded' /\ asked \subseteq asked'
  <1> USE DEF RequestsTyped, CancelIsAsked, RemovesEnded
  <1>0. RequestsTyped /\ CancelIsAsked /\ RemovesEnded
    BY DEF ApiIInv
  <1>1. \A j \in JobId : Ended(j) => Ended(j)'
    BY EndedStays, ApiStepQueue DEF ApiIInv
  <1>2. CASE UNCHANGED apivars
    BY <1>0, <1>1, <1>2 DEF apivars
  <1>3. ASSUME NEW r \in Request, NEW j \in JobId, CancelLooks(r, j)
        PROVE  RequestsTyped' /\ CancelIsAsked' /\ RemovesEnded' /\ asked \subseteq asked'
    <2>1. status[j] \in Terminal => Ended(j)
      BY <1>3, PresentIsIssued DEF CancelLooks, Ended, ApiIInv
    <2> QED BY <1>0, <1>1, <1>3, <2>1 DEF CancelLooks
  <1>4. ASSUME NEW r \in Request, NEW j \in JobId, RetryLooks(r, j)
        PROVE  RequestsTyped' /\ CancelIsAsked' /\ RemovesEnded' /\ asked \subseteq asked'
    <2>1. Ended(j)
      BY <1>4, PresentIsIssued, StatusFacts DEF RetryLooks, Ended, ApiIInv, Present
    <2> QED BY <1>0, <1>1, <1>4, <2>1 DEF RetryLooks, apivars
  <1>5. ASSUME NEW r \in Request, CancelReachesWorker(r)
        PROVE  RequestsTyped' /\ CancelIsAsked' /\ RemovesEnded' /\ asked \subseteq asked'
    BY <1>0, <1>1, <1>5 DEF CancelReachesWorker, Goes
  <1>6. ASSUME NEW r \in Request, RetryAdds(r)
        PROVE  RequestsTyped' /\ CancelIsAsked' /\ RemovesEnded' /\ asked \subseteq asked'
    BY <1>0, <1>1, <1>6 DEF RetryAdds, Goes
  <1>7. ASSUME NEW r \in Request, CancelRecords(r) \/ RetryProbeFails(r) \/ RemovesJob(r)
        PROVE  RequestsTyped' /\ CancelIsAsked' /\ RemovesEnded' /\ asked \subseteq asked'
    <2>1. request' = [request EXCEPT ![r] = Idle] /\ asked' = asked
      BY <1>7 DEF CancelRecords, RetryProbeFails, RemovesJob, Returns
    <2> QED BY <1>0, <1>1, <2>1 DEF Idle
  <1> QED BY <1>2, <1>3, <1>4, <1>5, <1>6, <1>7 DEF ApiNext, RequestStep, ClearQueue

\* A job becomes cancelled by the worker whose context was cancelled for it or by the
\* handler that was asked to.
LEMMA ApiStepCancelled ==
    ASSUME ApiIInv, [ApiNext]_<<vars, apivars>>, asked \subseteq asked'
    PROVE  OnlyAskedIsCancelled'
  <1> SUFFICES ASSUME NEW j \in JobId, status'[j] = "cancelled", status[j] # "cancelled"
               PROVE  j \in asked
    BY DEF ApiIInv, OnlyAskedIsCancelled
  <1>1. ASSUME NEW w \in Worker, WorkerStep(w)
        PROVE  j \in asked
    <2>1. got[w] = j /\ wpc[w] = "abandon"
      BY <1>1, WorkerStepStatus DEF ApiIInv
    <2> QED BY <2>1 DEF ApiIInv, WorkersAreAsked
  <1>2. ASSUME NEW r \in Request, CancelRecords(r)
        PROVE  j \in asked
    <2>1. request[r].job = j
      BY <1>2 DEF CancelRecords, OrIgnored, CancelJob, SetStatus, qvars, ApiIInv, QueueIInv, QueueTypeOK
    <2> QED BY <1>2, <2>1 DEF CancelRecords, ApiIInv, CancelIsAsked
  <1>3. \A n \in Nat : \A skipped : ~Create(n, skipped)
    BY DEF Create, AddJobs
  <1>4. ~ \E S : Delete(S)
    BY DEF Delete, Absent
  <1>5. status' # status
    OBVIOUS
  <1>6. ~CreateNext /\ ~ \E n \in 1 .. MaxAnalyses : SetAnalysisLimit(n)
    BY <1>3, <1>5, MaxJobsAssumption DEF CreateNext, SetAnalysisLimit, qvars
  <1>7. ~Stop /\ ~ \E r \in Request, k \in JobId : CancelLooks(r, k) \/ RetryLooks(r, k)
    BY <1>5 DEF Stop, CancelLooks, RetryLooks, vars, qvars
  <1>8. ~ \E r \in Request : \/ CancelReachesWorker(r) \/ RetryProbeFails(r)
                             \/ RetryAdds(r) \/ RemovesJob(r)
    BY <1>3, <1>4, <1>5
    DEF CancelReachesWorker, RetryProbeFails, RetryAdds, RemovesJob, Remove, vars, qvars
  <1>9. ~ \E f \in ClearFilters : ClearQueue(f)
    BY <1>4 DEF ClearQueue, Clear
  <1> QED BY <1>1, <1>2, <1>5, <1>6, <1>7, <1>8, <1>9
          DEF ApiNext, RequestStep, ServeNext, WorkNext, vars, qvars

\* The inductive invariant of the handlers over the pool.
THEOREM ApiInductiveInvariant == ApiSpec => []ApiIInv
  <1>1. ApiIInv /\ [ApiNext]_<<vars, apivars>> => ApiIInv'
    BY ApiStepPool, ApiStepRequests, ApiStepContexts, ApiStepCancelled DEF ApiIInv
  <1> QED BY <1>1, ApiInitIInv, PTL DEF ApiSpec

\* The types of the program's state hold, however requests and workers interleave.
THEOREM ApiTypeCorrect == ApiSpec => []ApiTypeOK
  <1>1. ApiIInv => ApiTypeOK
    BY PoolIsTyped DEF ApiIInv, ApiTypeOK, RequestsTyped
  <1> QED BY <1>1, ApiInductiveInvariant, PTL

\* No job is shown as cancelled that no user asked to cancel.
THEOREM OnlyAskedCorrect == ApiSpec => []OnlyAskedIsCancelled
  BY ApiInductiveInvariant, PTL DEF ApiIInv

\* With the handlers too, the queue is used by its methods only: what is proved of
\* QueueSpec holds of the whole program.
THEOREM ApiImplementsQueue == ApiSpec => QueueSpec
  <1>1. ApiInit => QueueInit
    BY DEF ApiInit, PoolInit
  <1>2. ApiIInv /\ [ApiNext]_<<vars, apivars>> => [QueueNext]_qvars
    BY ApiStepQueue
  <1> QED BY <1>1, <1>2, ApiInductiveInvariant, PTL DEF ApiSpec, QueueSpec

\* So the order and the map agree, no job waits with the phase of an earlier run, and a
\* job that has ended never runs again, whatever requests race each other.
THEOREM ApiKeepsQueue ==
    ApiSpec => []OrderMatchesJobs /\ []NoStalePhase /\ TerminalNeverReactivated
  BY ApiImplementsQueue, OrderCorrect, PhaseCorrect, TerminalIsForGood

-----------------------------------------------------------------------------
(* What a step may never do.                                               *)

\* Only Remove deletes without looking at the status, and only jobs that have ended.
LEMMA RunningStays ==
    ASSUME ApiIInv, [ApiNext]_<<vars, apivars>>, NEW j \in JobId, status[j] = "running"
    PROVE  status'[j] # Absent
  <1>1. ASSUME NEW w \in Worker, WorkerStep(w)
        PROVE  status'[j] # Absent
    BY <1>1, WorkerStepStatus DEF ApiIInv, Absent
  <1>2. ASSUME NEW n \in Nat, NEW skipped, Create(n, skipped)
        PROVE  status'[j] # Absent
    BY <1>2 DEF Create, AddJobs, Absent
  <1>3. ASSUME NEW r \in Request, CancelRecords(r)
        PROVE  status'[j] # Absent
    BY <1>3
    DEF CancelRecords, OrIgnored, CancelJob, SetStatus, Absent, qvars, ApiIInv, QueueIInv, QueueTypeOK
  <1>4. ASSUME NEW r \in Request, RemovesJob(r)
        PROVE  status'[j] # Absent
    <2>1. request[r].job # j
      BY <1>4, StatusFacts DEF RemovesJob, ApiIInv, RemovesEnded, Ended, Absent
    <2> QED BY <1>4, <2>1 DEF RemovesJob, Remove, Delete, Absent
  <1>5. ASSUME NEW f \in ClearFilters, ClearQueue(f)
        PROVE  status'[j] # Absent
    BY <1>5 DEF ClearQueue, Clear, Cleared, Delete, Absent
  <1>6. CASE status' = status
    BY <1>6 DEF Absent
  <1>7. CASE CreateNext
    BY <1>2, <1>7, MaxJobsAssumption DEF CreateNext
  <1>8. CASE \E r \in Request : RetryAdds(r)
    BY <1>2, <1>8 DEF RetryAdds
  <1>9. CASE Stop \/ \E n \in 1 .. MaxAnalyses : SetAnalysisLimit(n)
    BY <1>6, <1>9 DEF Stop, SetAnalysisLimit, qvars
  <1>10. CASE \E r \in Request, k \in JobId : CancelLooks(r, k) \/ RetryLooks(r, k)
    BY <1>6, <1>10 DEF CancelLooks, RetryLooks, vars, qvars
  <1>11. CASE \E r \in Request : CancelReachesWorker(r) \/ RetryProbeFails(r)
    BY <1>6, <1>11 DEF CancelReachesWorker, RetryProbeFails, vars, qvars
  <1> QED BY <1>1, <1>3, <1>4, <1>5, <1>6, <1>7, <1>8, <1>9, <1>10, <1>11
          DEF ApiNext, RequestStep, ServeNext, WorkNext, vars, qvars

\* A job that runs is never taken out of the queue by a handler that saw it, or an
\* earlier state of it, before.
THEOREM RunningNeverRemovedCorrect == ApiSpec => RunningNeverRemoved
  <1>1. ApiIInv /\ [ApiNext]_<<vars, apivars>> =>
          [\A j \in JobId : status[j] = "running" => status'[j] # Absent]_<<vars, apivars>>
    BY RunningStays
  <1> QED BY <1>1, ApiInductiveInvariant, PTL DEF ApiSpec, RunningNeverRemoved

\* A cancelled job only changes by a worker that had passed the point of no return.
LEMMA CancelledStays ==
    ASSUME ApiIInv, [ApiNext]_<<vars, apivars>>, NEW j \in JobId, status[j] = "cancelled",
           status'[j] \notin {"cancelled", Absent}
    PROVE  \E w \in Worker :
              /\ got[w] = j /\ wpc'[w] = "release"
              /\ \/ wpc[w] \in {"record", "fail"}
                 \/ wpc[w] = "prepare" /\ j \in UnknownPreset
  <1>1. ASSUME NEW w \in Worker, WorkerStep(w)
        PROVE  /\ got[w] = j /\ wpc'[w] = "release"
               /\ wpc[w] \in {"record", "fail"} \/ (wpc[w] = "prepare" /\ j \in UnknownPreset)
    BY <1>1, WorkerStepStatus DEF ApiIInv
  <1>2. \A n \in Nat : \A skipped : ~Create(n, skipped)
    <2>1. j \in Present
      BY DEF Present, Absent
    <2>2. \A n \in Nat : lastId + n <= MaxJobs => j \notin NewIds(n)
      BY <2>1, NewIdsAreNew DEF ApiIInv, QueueIInv
    <2> QED BY <2>2 DEF Create, AddJobs
  <1>3. ~ \E r \in Request : CancelRecords(r)
    BY StatusFacts
    DEF CancelRecords, OrIgnored, CancelJob, SetStatus, qvars, ApiIInv, QueueIInv, QueueTypeOK
  <1>4. ~ \E S : Delete(S)
    BY DEF Delete
  <1>5. status' # status
    OBVIOUS
  <1>6. ~CreateNext /\ ~ \E n \in 1 .. MaxAnalyses : SetAnalysisLimit(n)
    BY <1>2, <1>5, MaxJobsAssumption DEF CreateNext, SetAnalysisLimit, qvars
  <1>7. ~Stop /\ ~ \E r \in Request, k \in JobId : CancelLooks(r, k) \/ RetryLooks(r, k)
    BY <1>5 DEF Stop, CancelLooks, RetryLooks, vars, qvars
  <1>8. ~ \E r \in Request : \/ CancelReachesWorker(r) \/ RetryProbeFails(r)
                             \/ RetryAdds(r) \/ RemovesJob(r)
    BY <1>2, <1>4, <1>5
    DEF CancelReachesWorker, RetryProbeFails, RetryAdds, RemovesJob, Remove, vars, qvars
  <1>9. ~ \E f \in ClearFilters : ClearQueue(f)
    BY <1>4 DEF ClearQueue, Clear
  <1> QED BY <1>1, <1>3, <1>5, <1>6, <1>7, <1>8, <1>9
          DEF ApiNext, RequestStep, ServeNext, WorkNext, vars, qvars

\* After a cancellation nobody starts or requeues the job any more.
THEOREM CancelledNeverStartsCorrect == ApiSpec => CancelledNeverStarts
  <1>1. ApiIInv /\ [ApiNext]_<<vars, apivars>> =>
          [\A j \in JobId : status[j] = "cancelled" /\ status'[j] \notin {"cancelled", Absent} =>
              \E w \in Worker :
                  /\ got[w] = j /\ wpc'[w] = "release"
                  /\ \/ wpc[w] \in {"record", "fail"}
                     \/ wpc[w] = "prepare" /\ j \in UnknownPreset]_<<vars, apivars>>
    BY CancelledStays
  <1> QED BY <1>1, ApiInductiveInvariant, PTL DEF ApiSpec, CancelledNeverStarts
=============================================================================
