-------------------------- MODULE WorkerPoolProofs --------------------------
(***************************************************************************)
(* Theorems about WorkerPool, for any workers, jobs and presets.           *)
(*                                                                         *)
(* First, whatever calls are made (PoolSpec): the pool uses the queue as   *)
(* JobQueue describes it, so what is proved of QueueSpec holds here; the   *)
(* analysis slots are counted right; a complete job's file was replaced;   *)
(* and the goroutines that live are the workers of the pool.  Then, for    *)
(* workers that are paused and resumed (PauseSpec), the order of the jobs  *)
(* Pause puts back; and for the workers alone (ServeSpec), that no two of  *)
(* them work on one job and that each job keeps to JobLifecycle.  Last,    *)
(* for one worker and no SmartShrink job (CalmPauseSpec), that Pause keeps *)
(* its promise.                                                            *)
(***************************************************************************)
EXTENDS WorkerPool, JobQueueProofs, FiniteSetTheorems

\* What the goroutines hold are jobs.
HoldsJobs ==
    /\ wpc \in [Worker -> Points]
    /\ got \in [Worker -> JobId \cup {NoJob}]
    /\ \A w \in Worker : wpc[w] \in InJob \cup {"claim"} => got[w] \in JobId
    /\ pool \in Seq(Worker)
    /\ pausing = [pc |-> pausing.pc, todo |-> pausing.todo, target |-> pausing.target,
                  moved |-> pausing.moved]
    /\ pausing.moved \subseteq JobId
    /\ \A e \in pausing.todo : e.job \in JobId
    /\ resizing = [pc |-> resizing.pc, todo |-> resizing.todo,
                   target |-> resizing.target, excess |-> resizing.excess]
    /\ \A e \in resizing.todo : e.job \in JobId
    /\ resizing.target.job \in JobId \cup {NoJob}

-----------------------------------------------------------------------------
\* NewWorkerPool: nobody holds anything.
LEMMA PoolInitHoldsJobs == PoolInit => HoldsJobs
  BY PoolAssumptions
  DEF PoolInit, HoldsJobs, Points, InJob, Processing, NoTarget, PoolMembers

\* The workers of the pool are workers, and what Pause and Resize collect of
\* them are jobs.
LEMMA CollectedAreJobs ==
    ASSUME HoldsJobs
    PROVE  PoolMembers \subseteq Worker /\ \A e \in RunningJobs : e.job \in JobId
  BY DEF HoldsJobs, PoolMembers, RunningJobs

\* A worker only picks up what GetNext gives it.
LEMMA WorkerStepHoldsJobs ==
    ASSUME HoldsJobs, NEW w \in Worker, WorkerStep(w)
    PROVE  HoldsJobs'
  <1> USE DEF HoldsJobs, Moves, Points, InJob, Processing, wvars, cvars
  <1>1. CASE Exit(w) \/ PassGates(w) \/ Claim(w)
    BY <1>1 DEF Exit, PassGates, Claim
  <1>2. CASE PickJob(w)
    BY <1>2 DEF PickJob
  <1>3. CASE RejectPreset(w) \/ Prepare(w)
    BY <1>3 DEF RejectPreset, Prepare
  <1>4. CASE AnalysisWaits(w) \/ AnalysisBegins(w) \/ BeginEncoding(w)
    BY <1>4 DEF AnalysisWaits, AnalysisBegins, BeginEncoding, ShowPhase
  <1>5. CASE AnalysisContended(w) \/ TakeSlot(w) \/ AnalysisErrs(w) \/ AnalysisSkips(w) \/ AnalysisSelects(w)
    BY <1>5 DEF AnalysisContended, TakeSlot, AnalysisErrs, AnalysisSkips, AnalysisSelects
  <1>6. CASE RemuxSkips(w) \/ Finalize(w) \/ Place(w)
    BY <1>6 DEF RemuxSkips, Finalize, Place
  <1>7. CASE Record(w) \/ Fail(w) \/ Skip(w) \/ Abandon(w)
    BY <1>7 DEF Record, Fail, Skip, Abandon
  <1>8. CASE Release(w)
    BY <1>8 DEF Release
  <1> QED BY <1>1, <1>2, <1>3, <1>4, <1>5, <1>6, <1>7, <1>8 DEF WorkerStep

\* No step of any goroutine makes one hold anything but jobs.
LEMMA NextHoldsJobs == HoldsJobs /\ [Next]_vars => HoldsJobs'
  <1> SUFFICES ASSUME HoldsJobs, [Next]_vars PROVE HoldsJobs'
    OBVIOUS
  <1>1. CASE \E w \in Worker : WorkerStep(w)
    BY <1>1, WorkerStepHoldsJobs
  <1>2. CASE CreateNext \/ Stop \/ \E n \in 1 .. MaxAnalyses : SetAnalysisLimit(n)
    BY <1>2 DEF CreateNext, Create, Stop, SetAnalysisLimit, HoldsJobs, wvars, cvars
  <1>3. CASE PauseNext
    <2>1. CASE PauseRequeues
      <3> PICK e \in Newest(pausing.todo) :
               pausing' = [pausing EXCEPT
                             !.todo = @ \ {e},
                             !.pc = IF status[e.job] = "running" THEN "cancel" ELSE "pick",
                             !.target = IF status[e.job] = "running" THEN e ELSE NoTarget,
                             !.moved = IF status[e.job] = "running" THEN @ \cup {e.job} ELSE @]
        BY <2>1 DEF PauseRequeues
      <3>1. e.job \in JobId
        BY DEF Newest, HoldsJobs
      <3>2. /\ pausing' = [pc |-> pausing'.pc, todo |-> pausing'.todo, target |-> pausing'.target,
                           moved |-> pausing'.moved]
            /\ pausing'.todo \subseteq pausing.todo
            /\ pausing'.moved \subseteq pausing.moved \cup {e.job}
        BY DEF HoldsJobs
      <3> QED BY <2>1, <3>1, <3>2 DEF PauseRequeues, HoldsJobs, wvars
    <2>2. CASE ~PauseRequeues
      BY <1>3, <2>2, CollectedAreJobs
      DEF PauseNext, PauseStep, PauseBegins, PauseCollects, PauseCancels, PauseReturns, Unpause,
          HoldsJobs, wvars
    <2> QED BY <2>1, <2>2
  <1>4. CASE \E w \in Worker : Grow(w)
    BY <1>4 DEF Grow, HoldsJobs, Points, InJob, Processing
  <1>5. CASE \E n \in 1 .. Len(pool) : ShrinkBegins(n)
    BY <1>5, CollectedAreJobs DEF ShrinkBegins, HoldsJobs, wvars
  <1>6. CASE ShrinkStep
    <2>1. CASE ShrinkCancelsJob
      <3> PICK e \in IF resizing.todo # {} THEN Newest(resizing.todo)
                     ELSE {[worker |-> pool[Len(pool)], job |-> NoJob]} :
               resizing' = [resizing EXCEPT !.pc = "stop", !.todo = @ \ {e}, !.target = e]
        BY <2>1 DEF ShrinkCancelsJob
      <3>1. e.job \in JobId \cup {NoJob}
        BY DEF Newest, HoldsJobs
      <3> QED BY <2>1, <3>1 DEF ShrinkCancelsJob, HoldsJobs
    <2>2. CASE ShrinkStops \/ ShrinkReturns
      BY <2>2 DEF ShrinkStops, ShrinkReturns, HoldsJobs, wvars
    <2>3. CASE ShrinkRequeues
      <3> PICK k \in 1 .. Len(pool) :
               pool' = SubSeq(pool, 1, k - 1) \o SubSeq(pool, k + 1, Len(pool))
        BY <2>3 DEF ShrinkRequeues
      <3>1. pool' \in Seq(Worker)
        BY DEF HoldsJobs
      <3> QED BY <2>3, <3>1 DEF ShrinkRequeues, HoldsJobs, NoTarget, wvars
    <2> QED BY <1>6, <2>1, <2>2, <2>3 DEF ShrinkStep
  <1>7. CASE UNCHANGED vars
    BY <1>7 DEF vars, wvars, cvars, HoldsJobs
  <1> QED BY <1>1, <1>2, <1>3, <1>4, <1>5, <1>6, <1>7 DEF Next, ServeNext, WorkNext, ResizeNext

-----------------------------------------------------------------------------
\* Every step of the pool is a call of one method of the queue, or none.
LEMMA NextIsQueueNext == HoldsJobs /\ [Next]_vars => [QueueNext]_qvars
  <1> SUFFICES ASSUME HoldsJobs, [Next]_vars PROVE [QueueNext]_qvars
    OBVIOUS
  <1>1. ASSUME NEW w \in Worker, WorkerStep(w) PROVE [QueueNext]_qvars
    <2> USE <1>1
    <2>1. wpc[w] \in InJob => got[w] \in JobId
      BY DEF HoldsJobs
    <2>2. CASE Exit(w) \/ PassGates(w) \/ Claim(w) \/ PickJob(w) \/ Release(w)
      BY <2>2 DEF Exit, PassGates, Claim, PickJob, Release
    <2>3. CASE RejectPreset(w) \/ Prepare(w)
      BY <2>1, <2>3 DEF RejectPreset, Prepare, OrIgnored, Moves, InJob, QueueNext
    <2>4. CASE AnalysisWaits(w) \/ AnalysisBegins(w) \/ BeginEncoding(w)
      <3>1. got[w] \in JobId
        BY <2>1, <2>4
        DEF AnalysisWaits, AnalysisBegins, BeginEncoding, Moves, InJob, Processing
      <3>2. PICK ph \in Phase \ {NoPhase} : ShowPhase(w, ph)
        BY <2>4 DEF AnalysisWaits, AnalysisBegins, BeginEncoding, Phase, NoPhase
      <3> QED BY <3>1, <3>2 DEF ShowPhase, OrIgnored, QueueNext
    <2>5. CASE AnalysisContended(w) \/ TakeSlot(w) \/ AnalysisErrs(w) \/ AnalysisSkips(w)
               \/ AnalysisSelects(w)
      BY <2>5 DEF AnalysisContended, TakeSlot, AnalysisErrs, AnalysisSkips, AnalysisSelects
    <2>6. CASE RemuxSkips(w) \/ Finalize(w) \/ Place(w)
      BY <2>6 DEF RemuxSkips, Finalize, Place
    <2>7. CASE Record(w) \/ Fail(w) \/ Skip(w) \/ Abandon(w)
      <3>1. got[w] \in JobId
        BY <2>1, <2>7 DEF Record, Fail, Skip, Abandon, Moves, InJob, Processing
      <3> QED BY <2>7, <3>1 DEF Record, Fail, Skip, Abandon, OrIgnored, QueueNext
    <2> QED BY <2>2, <2>3, <2>4, <2>5, <2>6, <2>7 DEF WorkerStep
  <1>2. CASE CreateNext
    BY <1>2 DEF CreateNext, Create, QueueNext
  <1>3. CASE Stop \/ UNCHANGED vars \/ \E n \in 1 .. MaxAnalyses : SetAnalysisLimit(n)
    BY <1>3 DEF Stop, SetAnalysisLimit, vars
  <1>4. CASE PauseNext
    <2>1. ASSUME NEW e \in Newest(pausing.todo),
                 OrIgnored(Requeue(e.job), status[e.job] = "running")
          PROVE  [QueueNext]_qvars
      <3>1. e.job \in JobId
        BY DEF Newest, HoldsJobs
      <3> QED BY <2>1, <3>1 DEF OrIgnored, QueueNext
    <2> QED BY <1>4, <2>1
            DEF PauseNext, PauseStep, PauseBegins, PauseCollects, PauseRequeues,
                PauseCancels, PauseReturns, Unpause
  <1>5. CASE ResizeNext
    <2>1. CASE ShrinkRequeues
      <3>1. resizing.target.job # NoJob => resizing.target.job \in JobId
        BY DEF HoldsJobs
      <3> QED BY <2>1, <3>1 DEF ShrinkRequeues, OrIgnored, QueueNext
    <2> QED BY <1>5, <2>1
            DEF ResizeNext, Grow, ShrinkBegins, ShrinkStep, ShrinkCancelsJob, ShrinkStops,
                ShrinkReturns
  <1> QED BY <1>1, <1>2, <1>3, <1>4, <1>5 DEF Next, ServeNext, WorkNext

\* Whatever calls are made, and however they interleave with the workers, the pool
\* uses the queue by its methods only: its runs are runs of JobQueue.
THEOREM PoolImplementsQueue == PoolSpec => QueueSpec
  <1>1. PoolInit => HoldsJobs /\ QueueInit
    BY PoolInitHoldsJobs DEF PoolInit
  <1> QED BY <1>1, NextHoldsJobs, NextIsQueueNext, PTL DEF PoolSpec, QueueSpec

\* So the order and the map agree, no job waits with the phase of an earlier run,
\* and a job that has ended never runs again, in the pool too.
THEOREM PoolKeepsQueue ==
    PoolSpec => /\ []OrderMatchesJobs
                /\ []NoStalePhase
                /\ TerminalNeverReactivated
                /\ NoOvertaking
  BY PoolImplementsQueue, OrderCorrect, PhaseCorrect, TerminalIsForGood, FirstInFirstOut

-----------------------------------------------------------------------------
(* The analysis slots, whatever calls are made.                            *)

\* analysisCount counts the workers that have a slot: the deferred release gives
\* back each slot once, and none that was not taken.
SlotsCounted ==
    /\ slots \in [count : Nat, limit : 1 .. MaxAnalyses]
    /\ slots.count = Cardinality(SlotHolders)

\* A set of workers is finite.
LEMMA HoldersFinite == IsFiniteSet(SlotHolders) /\ Cardinality(SlotHolders) \in Nat
  <1>1. SlotHolders \subseteq Worker
    BY DEF SlotHolders
  <1> QED BY <1>1, PoolAssumptions, FS_Subset, FS_CardinalityType

\* A step that leaves the slots alone, and moves no worker to or from a slot.
LEMMA SlotsUntouched ==
    ASSUME SlotsCounted, UNCHANGED slots, \A w \in Worker : HasSlot(w)' <=> HasSlot(w)
    PROVE  SlotsCounted'
  <1>1. SlotHolders' = SlotHolders
    BY DEF SlotHolders
  <1> QED BY <1>1 DEF SlotsCounted

\* The step of a worker that takes a slot.
LEMMA TakesOne ==
    ASSUME HoldsJobs, SlotsCounted, NEW w \in Worker, TakeSlot(w)
    PROVE  /\ SlotsCounted'
           /\ Cardinality(SlotHolders') <= slots.limit
           /\ slots'.limit = slots.limit
  <1>1. w \notin SlotHolders /\ SlotHolders' = SlotHolders \cup {w}
    BY DEF TakeSlot, Moves, HoldsJobs, SlotHolders, HasSlot
  <1>2. Cardinality(SlotHolders') = Cardinality(SlotHolders) + 1
    BY <1>1, HoldersFinite, FS_AddElement
  <1>3. /\ slots.count < slots.limit
        /\ slots' = [count |-> slots.count + 1, limit |-> slots.limit]
    BY DEF TakeSlot, SlotsCounted
  <1> QED BY <1>2, <1>3, PoolAssumptions DEF SlotsCounted

\* The step of a worker that gives its slot back when it leaves the analysis.
LEMMA GivesOne ==
    ASSUME HoldsJobs, SlotsCounted, NEW w \in Worker, GivesSlotBack(w),
           NEW to \in Points \ {"admitted", "analyzing"}, wpc' = [wpc EXCEPT ![w] = to]
    PROVE  SlotsCounted'
  <1>1. SlotHolders' = SlotHolders \ {w}
    BY DEF HoldsJobs, SlotHolders, HasSlot
  <1>2. Cardinality(SlotHolders') = IF HasSlot(w) THEN Cardinality(SlotHolders) - 1
                                    ELSE Cardinality(SlotHolders)
    BY <1>1, HoldersFinite, FS_RemoveElement DEF SlotHolders
  <1>3. Cardinality(SlotHolders') \in Nat
    BY <1>1, HoldersFinite, FS_RemoveElement, FS_CardinalityType
  <1>4. slots' = IF HasSlot(w) THEN [count |-> slots.count - 1, limit |-> slots.limit]
                 ELSE slots
    BY DEF GivesSlotBack, SlotsCounted
  <1> QED BY <1>2, <1>3, <1>4 DEF SlotsCounted

\* A worker step, seen from the slots.
LEMMA WorkerStepSlots ==
    ASSUME HoldsJobs, SlotsCounted, NEW w \in Worker, WorkerStep(w)
    PROVE  /\ SlotsCounted'
           /\ \/ TakeSlot(w)
              \/ \A v \in Worker : HasSlot(v)' => HasSlot(v)
  <1> USE DEF HoldsJobs, HasSlot, Moves, Points, InJob, Processing
  <1>1. CASE TakeSlot(w)
    BY <1>1, TakesOne
  <1>2. CASE AnalysisErrs(w) \/ AnalysisSkips(w) \/ AnalysisSelects(w)
    <2>1. GivesSlotBack(w) /\ \E to \in Points \ {"admitted", "analyzing"} :
                                  wpc' = [wpc EXCEPT ![w] = to]
      BY <1>2 DEF AnalysisErrs, AnalysisSkips, AnalysisSelects
    <2> QED BY <2>1, GivesOne
  <1>3. CASE Exit(w) \/ PassGates(w) \/ PickJob(w) \/ Claim(w) \/ Release(w)
    BY <1>3, SlotsUntouched DEF Exit, PassGates, PickJob, Claim, Release
  <1>4. CASE RejectPreset(w) \/ Prepare(w) \/ AnalysisContended(w)
    BY <1>4, SlotsUntouched DEF RejectPreset, Prepare, AnalysisContended
  <1>5. CASE AnalysisWaits(w) \/ AnalysisBegins(w) \/ BeginEncoding(w)
    BY <1>5, SlotsUntouched DEF AnalysisWaits, AnalysisBegins, BeginEncoding, ShowPhase
  <1>6. CASE RemuxSkips(w) \/ Finalize(w) \/ Place(w)
    BY <1>6, SlotsUntouched DEF RemuxSkips, Finalize, Place
  <1>7. CASE Record(w) \/ Fail(w) \/ Skip(w) \/ Abandon(w)
    BY <1>7, SlotsUntouched DEF Record, Fail, Skip, Abandon
  <1> QED BY <1>1, <1>2, <1>3, <1>4, <1>5, <1>6, <1>7 DEF WorkerStep

\* Any other step.
LEMMA CallStepSlots ==
    ASSUME HoldsJobs, SlotsCounted, [Next]_vars, ~ \E w \in Worker : WorkerStep(w)
    PROVE  SlotsCounted' /\ \A v \in Worker : HasSlot(v)' => HasSlot(v)
  <1>1. CASE \E n \in 1 .. MaxAnalyses : SetAnalysisLimit(n)
    <2> PICK n \in 1 .. MaxAnalyses : SetAnalysisLimit(n)
      BY <1>1
    <2>1. wpc' = wpc /\ slots' = [count |-> slots.count, limit |-> n]
      BY DEF SetAnalysisLimit, SlotsCounted, wvars
    <2>2. SlotHolders' = SlotHolders
      BY <2>1 DEF SlotHolders, HasSlot
    <2> QED BY <2>1, <2>2 DEF SlotsCounted, HasSlot
  <1>2. CASE \E w \in Worker : Grow(w)
    BY <1>2, SlotsUntouched DEF Grow, HasSlot, HoldsJobs
  <1>3. CASE CreateNext \/ Stop \/ UNCHANGED vars
    BY <1>3, SlotsUntouched DEF CreateNext, Create, Stop, vars, wvars, HasSlot
  <1>4. CASE PauseNext
    BY <1>4, SlotsUntouched
    DEF PauseNext, PauseStep, PauseBegins, PauseCollects, PauseRequeues, PauseCancels,
        PauseReturns, Unpause, wvars, HasSlot
  <1>5. CASE \E n \in 1 .. Len(pool) : ShrinkBegins(n)
    BY <1>5, SlotsUntouched DEF ShrinkBegins, wvars, HasSlot
  <1>6. CASE ShrinkStep
    BY <1>6, SlotsUntouched
    DEF ShrinkStep, ShrinkCancelsJob, ShrinkStops, ShrinkRequeues, ShrinkReturns, wvars, HasSlot
  <1> QED BY <1>1, <1>2, <1>3, <1>4, <1>5, <1>6 DEF Next, ServeNext, WorkNext, ResizeNext

\* NewWorkerPool: nobody has a slot, none is counted.
LEMMA PoolInitSlots == PoolInit => SlotsCounted
  <1> SUFFICES ASSUME PoolInit PROVE SlotsCounted
    OBVIOUS
  <1>1. SlotHolders = {}
    BY DEF PoolInit, SlotHolders, HasSlot
  <1> QED BY <1>1, FS_EmptySet DEF PoolInit, SlotsCounted

\* The invariant behind the limit, for any calls.
THEOREM SlotsCorrect == PoolSpec => [](HoldsJobs /\ SlotsCounted)
  <1>1. PoolInit => HoldsJobs /\ SlotsCounted
    BY PoolInitHoldsJobs, PoolInitSlots
  <1>2. HoldsJobs /\ SlotsCounted /\ [Next]_vars => (HoldsJobs /\ SlotsCounted)'
    BY NextHoldsJobs, WorkerStepSlots, CallStepSlots
  <1> QED BY <1>1, <1>2, PTL DEF PoolSpec

\* However many workers, limits, errors and interruptions: no analysis begins beside
\* as many others as the limit allows.
THEOREM AnalysisLimitCorrect == PoolSpec => AnalysisLimitHolds
  <1>1. HoldsJobs /\ SlotsCounted /\ [Next]_vars =>
          [\A w \in Worker : ~HasSlot(w) /\ HasSlot(w)' =>
               Cardinality(SlotHolders') <= slots.limit]_vars
    BY WorkerStepSlots, CallStepSlots, TakesOne
  <1> QED BY <1>1, SlotsCorrect, PTL DEF PoolSpec, AnalysisLimitHolds

-----------------------------------------------------------------------------
(* The types, whatever calls are made.                                     *)

\* The flags and the counts of the pool, which no other part of the invariant types.
FlagsTyped ==
    /\ paused \in BOOLEAN /\ stopped \in BOOLEAN
    /\ wcancelled \in [Worker -> BOOLEAN]
    /\ jcancelled \in [Worker -> BOOLEAN]
    /\ replaced \in [JobId -> 0 .. MaxReplaced]

\* A step of a worker keeps these types.
LEMMA WorkerStepFlags ==
    ASSUME FlagsTyped, NEW w \in Worker, WorkerStep(w)
    PROVE  FlagsTyped'
  <1> USE DEF FlagsTyped, wvars, cvars
  <1>1. CASE Exit(w) \/ PassGates(w) \/ Claim(w) \/ PickJob(w) \/ Release(w)
    BY <1>1 DEF Exit, PassGates, Claim, PickJob, Release
  <1>2. CASE RejectPreset(w) \/ Prepare(w)
    BY <1>2 DEF RejectPreset, Prepare
  <1>3. CASE AnalysisWaits(w) \/ AnalysisBegins(w) \/ BeginEncoding(w)
    BY <1>3 DEF AnalysisWaits, AnalysisBegins, BeginEncoding, ShowPhase
  <1>4. CASE AnalysisContended(w) \/ TakeSlot(w) \/ AnalysisErrs(w)
    BY <1>4 DEF AnalysisContended, TakeSlot, AnalysisErrs
  <1>5. CASE AnalysisSkips(w) \/ AnalysisSelects(w) \/ RemuxSkips(w) \/ Finalize(w)
    BY <1>5 DEF AnalysisSkips, AnalysisSelects, RemuxSkips, Finalize
  <1>6. CASE Place(w)
    <2>1. \/ replaced' = replaced
          \/ /\ replaced[got[w]] < MaxReplaced
             /\ replaced' = [replaced EXCEPT ![got[w]] = @ + 1]
      BY <1>6 DEF Place
    <2>2. replaced' \in [JobId -> 0 .. MaxReplaced]
      BY <2>1, PoolAssumptions
    <2> QED BY <1>6, <2>2 DEF Place
  <1>7. CASE Record(w) \/ Fail(w) \/ Skip(w) \/ Abandon(w)
    BY <1>7 DEF Record, Fail, Skip, Abandon
  <1> QED BY <1>1, <1>2, <1>3, <1>4, <1>5, <1>6, <1>7 DEF WorkerStep

\* So does every step of the pool.
LEMMA NextFlags == FlagsTyped /\ [Next]_vars => FlagsTyped'
  <1> SUFFICES ASSUME FlagsTyped, [Next]_vars PROVE FlagsTyped'
    OBVIOUS
  <1>1. CASE \E w \in Worker : WorkerStep(w)
    BY <1>1, WorkerStepFlags
  <1>2. CASE CreateNext \/ Stop \/ UNCHANGED vars \/ \E n \in 1 .. MaxAnalyses : SetAnalysisLimit(n)
    BY <1>2 DEF CreateNext, Create, Stop, SetAnalysisLimit, FlagsTyped, vars, wvars, cvars
  <1>3. CASE PauseNext
    BY <1>3
    DEF PauseNext, PauseStep, PauseBegins, PauseCollects, PauseRequeues, PauseCancels,
        PauseReturns, Unpause, FlagsTyped, wvars
  <1>4. CASE ResizeNext
    <2>1. CASE ShrinkCancelsJob
      <3> PICK e : jcancelled' = [jcancelled EXCEPT ![e.worker] = wpc[e.worker] \in InJob]
        BY <2>1, Zenon DEF ShrinkCancelsJob
      <3> DEFINE has == wpc[e.worker] \in InJob
      <3>0. has \in BOOLEAN /\ jcancelled' = [jcancelled EXCEPT ![e.worker] = has]
        OBVIOUS
      <3> HIDE DEF has
      <3>1. jcancelled' \in [Worker -> BOOLEAN]
        BY <3>0 DEF FlagsTyped
      <3> QED BY <2>1, <3>1 DEF ShrinkCancelsJob, FlagsTyped
    <2> QED BY <1>4, <2>1
            DEF ResizeNext, Grow, ShrinkBegins, ShrinkStep, ShrinkStops, ShrinkRequeues,
                ShrinkReturns, FlagsTyped, wvars
  <1> QED BY <1>1, <1>2, <1>3, <1>4 DEF Next, ServeNext, WorkNext

\* NewWorkerPool: nothing is set, nothing is replaced.
LEMMA PoolInitFlags == PoolInit => FlagsTyped
  <1> SUFFICES ASSUME PoolInit PROVE FlagsTyped
    OBVIOUS
  <1>1. replaced \in [JobId -> 0 .. MaxReplaced]
    BY PoolAssumptions DEF PoolInit
  <1>2. wcancelled \in [Worker -> BOOLEAN] /\ jcancelled \in [Worker -> BOOLEAN]
    BY DEF PoolInit
  <1> QED BY <1>1, <1>2 DEF PoolInit, FlagsTyped

\* The parts of the invariants say it all together.
LEMMA PoolIsTyped == QueueIInv /\ HoldsJobs /\ SlotsCounted /\ FlagsTyped => PoolTypeOK
  <1> SUFFICES ASSUME QueueIInv, HoldsJobs, SlotsCounted, FlagsTyped PROVE PoolTypeOK
    OBVIOUS
  <1>1. SlotHolders \subseteq Worker
    BY DEF SlotHolders
  <1>2. Cardinality(SlotHolders) <= Cardinality(Worker) /\ Cardinality(Worker) \in Nat
    BY <1>1, PoolAssumptions, FS_Subset, FS_CardinalityType
  <1>3. slots \in [count : 0 .. Cardinality(Worker), limit : 1 .. MaxAnalyses]
    BY <1>2, HoldersFinite DEF SlotsCounted
  <1> QED BY <1>3 DEF PoolTypeOK, QueueIInv, HoldsJobs, FlagsTyped

\* The types of the pool's state hold in every reachable state, whatever calls of
\* Pause, Resize and the rest are made.
THEOREM PoolTypeCorrect == PoolSpec => []PoolTypeOK
  <1>1. PoolInit => QueueIInv /\ FlagsTyped
    BY QueueInitIInv, PoolInitFlags DEF PoolInit
  <1>2. QueueIInv /\ HoldsJobs /\ FlagsTyped /\ [Next]_vars => (QueueIInv /\ FlagsTyped)'
    BY NextIsQueueNext, QueueNextIInv, NextFlags
  <1> QED BY <1>1, <1>2, SlotsCorrect, PoolIsTyped, PTL DEF PoolSpec

-----------------------------------------------------------------------------
(* A complete job's file is replaced, whatever calls are made.             *)

\* A worker that is about to record a job as complete has placed its output.
PlacedFirst == \A w \in Worker : wpc[w] = "record" => replaced[got[w]] > 0

\* A step that completes no job, replaces no file and brings nobody to "record".
LEMMA CompletesNothing ==
    ASSUME HoldsJobs, PlacedFirst, CompleteIsReplaced, replaced' = replaced,
           \A j \in JobId : status'[j] = "complete" => status[j] = "complete",
           \A w \in Worker : wpc'[w] = "record" => wpc[w] = "record" /\ got'[w] = got[w]
    PROVE  PlacedFirst' /\ CompleteIsReplaced'
  BY DEF PlacedFirst, CompleteIsReplaced

\* CompleteJob follows FinalizeTranscode only.
LEMMA WorkerStepReplaces ==
    ASSUME QueueIInv, HoldsJobs, FlagsTyped, PlacedFirst, CompleteIsReplaced,
           NEW w \in Worker, WorkerStep(w)
    PROVE  PlacedFirst' /\ CompleteIsReplaced'
  <1>0. /\ status \in [JobId -> Status \cup {Absent}] /\ wpc \in [Worker -> Points]
        /\ got \in [Worker -> JobId \cup {NoJob}] /\ replaced \in [JobId -> 0 .. MaxReplaced]
        /\ wpc[w] \in InJob => got[w] \in JobId
    BY DEF QueueIInv, QueueTypeOK, HoldsJobs, FlagsTyped
  <1>1. CASE Exit(w) \/ PassGates(w) \/ Claim(w) \/ PickJob(w) \/ Release(w)
    BY <1>0, <1>1, CompletesNothing DEF Exit, PassGates, Claim, PickJob, Release, Moves, qvars
  <1>2. CASE RejectPreset(w) \/ Prepare(w)
    BY <1>0, <1>2, CompletesNothing
    DEF RejectPreset, Prepare, Moves, OrIgnored, FailJob, StartJob, SetStatus, qvars
  <1>3. CASE AnalysisWaits(w) \/ AnalysisBegins(w) \/ BeginEncoding(w)
    BY <1>0, <1>3, CompletesNothing
    DEF AnalysisWaits, AnalysisBegins, BeginEncoding, ShowPhase, Moves, OrIgnored, UpdateJobPhase,
        qvars
  <1>4. CASE AnalysisContended(w) \/ TakeSlot(w) \/ AnalysisErrs(w)
    BY <1>0, <1>4, CompletesNothing DEF AnalysisContended, TakeSlot, AnalysisErrs, Moves, qvars
  <1>5. CASE AnalysisSkips(w) \/ AnalysisSelects(w) \/ RemuxSkips(w) \/ Finalize(w)
    BY <1>0, <1>5, CompletesNothing
    DEF AnalysisSkips, AnalysisSelects, RemuxSkips, Finalize, Moves, qvars
  <1>6. CASE Place(w)
    <2>1. CASE Moves(w, {"place"}, "fail") /\ UNCHANGED replaced
      BY <1>0, <1>6, <2>1, CompletesNothing DEF Place, Moves, qvars
    <2>2. CASE Moves(w, {"place"}, "record") /\ replaced' = [replaced EXCEPT ![got[w]] = @ + 1]
      <3>1. got[w] \in JobId /\ UNCHANGED <<status, got>>
        BY <1>0, <1>6, <2>2 DEF Place, Moves, InJob, Processing, qvars
      <3>2. /\ \A j \in JobId : replaced'[j] >= replaced[j] /\ replaced[j] \in Nat
            /\ replaced'[got[w]] > 0
        BY <1>0, <2>2, <3>1, PoolAssumptions
      <3>3. \A v \in Worker : wpc'[v] = "record" => v = w \/ wpc[v] = "record"
        BY <1>0, <2>2 DEF Moves
      <3>4. \A v \in Worker : wpc[v] = "record" => got[v] \in JobId
        BY DEF HoldsJobs, InJob, Processing
      <3>5. PlacedFirst'
        <4> SUFFICES ASSUME NEW v \in Worker, wpc'[v] = "record" PROVE replaced'[got[v]] > 0
          BY <3>1 DEF PlacedFirst
        <4>1. CASE v = w
          BY <3>2, <4>1
        <4>2. CASE v # w
          <5>1. got[v] \in JobId /\ replaced[got[v]] > 0
            BY <3>3, <3>4, <4>2 DEF PlacedFirst
          <5>2. replaced'[got[v]] >= replaced[got[v]] /\ replaced'[got[v]] \in Nat
                /\ replaced[got[v]] \in Nat
            BY <1>0, <2>2, <3>1, <3>2, <5>1, PoolAssumptions
          <5> QED BY <5>1, <5>2
        <4> QED BY <4>1, <4>2
      <3>6. CompleteIsReplaced'
        <4> SUFFICES ASSUME NEW j \in JobId, status[j] = "complete" PROVE replaced'[j] > 0
          BY <3>1 DEF CompleteIsReplaced
        <4>1. replaced[j] > 0 /\ replaced'[j] \in Nat
          BY <1>0, <2>2, <3>1, PoolAssumptions DEF CompleteIsReplaced
        <4> QED BY <3>2, <4>1
      <3> QED BY <3>5, <3>6
    <2> QED BY <1>6, <2>1, <2>2 DEF Place
  <1>7. CASE Record(w)
    <2>1. wpc[w] = "record" /\ got[w] \in JobId /\ wpc' = [wpc EXCEPT ![w] = "release"]
          /\ UNCHANGED <<got, replaced>>
      BY <1>0, <1>7 DEF Record, Moves, InJob, Processing
    <2>2. \A j \in JobId : status'[j] = "complete" => j = got[w] \/ status[j] = "complete"
      BY <1>0, <1>7 DEF Record, OrIgnored, CompleteJob, SetStatus, qvars
    <2> QED BY <1>0, <2>1, <2>2 DEF PlacedFirst, CompleteIsReplaced
  <1>8. CASE Fail(w) \/ Skip(w) \/ Abandon(w)
    BY <1>0, <1>8, CompletesNothing
    DEF Fail, Skip, Abandon, Moves, OrIgnored, FailJob, SkipJob, CancelJob, SetStatus, qvars
  <1> QED BY <1>1, <1>2, <1>3, <1>4, <1>5, <1>6, <1>7, <1>8 DEF WorkerStep

\* No call of the pool completes a job.
LEMMA NextReplaces ==
    ASSUME QueueIInv, HoldsJobs, FlagsTyped, PlacedFirst, CompleteIsReplaced, [Next]_vars
    PROVE  PlacedFirst' /\ CompleteIsReplaced'
  <1>0. status \in [JobId -> Status \cup {Absent}] /\ wpc \in [Worker -> Points]
    BY DEF QueueIInv, QueueTypeOK, HoldsJobs
  <1>1. CASE \E w \in Worker : WorkerStep(w)
    BY <1>1, WorkerStepReplaces
  <1>2. CASE CreateNext
    BY <1>2, CompletesNothing DEF CreateNext, Create, AddJobs, wvars
  <1>3. CASE Stop \/ UNCHANGED vars \/ \E n \in 1 .. MaxAnalyses : SetAnalysisLimit(n)
    BY <1>3, CompletesNothing DEF Stop, SetAnalysisLimit, vars, qvars, wvars
  <1>4. ASSUME NEW j, Requeue(j) \/ UNCHANGED qvars
        PROVE  \A k \in JobId : status'[k] = "complete" => status[k] = "complete"
    BY <1>0, <1>4 DEF Requeue, SetStatus, qvars
  <1>5. CASE PauseNext
    <2>1. CASE PauseRequeues
      <3>1. PICK e \in Newest(pausing.todo) : OrIgnored(Requeue(e.job), status[e.job] = "running")
        BY <2>1 DEF PauseRequeues
      <3>2. \A k \in JobId : status'[k] = "complete" => status[k] = "complete"
        BY <1>4, <3>1 DEF OrIgnored
      <3> QED BY <2>1, <3>2, CompletesNothing DEF PauseRequeues, wvars
    <2>2. CASE ~PauseRequeues
      BY <1>5, <2>2, CompletesNothing
      DEF PauseNext, PauseStep, PauseBegins, PauseCollects, PauseCancels, PauseReturns, Unpause,
          qvars, wvars
    <2> QED BY <2>1, <2>2
  <1>6. CASE ResizeNext
    <2>1. CASE ShrinkRequeues
      <3>1. \A k \in JobId : status'[k] = "complete" => status[k] = "complete"
        BY <1>4, <2>1 DEF ShrinkRequeues, OrIgnored
      <3> QED BY <2>1, <3>1, CompletesNothing DEF ShrinkRequeues, wvars
    <2>2. CASE \E w \in Worker : Grow(w)
      BY <1>0, <2>2, CompletesNothing DEF Grow, qvars
    <2>3. CASE ~ShrinkRequeues /\ ~ \E w \in Worker : Grow(w)
      BY <1>6, <2>3, CompletesNothing
      DEF ResizeNext, ShrinkBegins, ShrinkStep, ShrinkCancelsJob, ShrinkStops, ShrinkReturns,
          qvars, wvars
    <2> QED BY <2>1, <2>2, <2>3
  <1> QED BY <1>1, <1>2, <1>3, <1>5, <1>6 DEF Next, ServeNext, WorkNext

\* A job is recorded complete only after its output took the place of its file,
\* however Pause, Resize and Stop interfere with its worker.
THEOREM CompleteIsReplacedCorrect == PoolSpec => []CompleteIsReplaced
  <1>1. PoolInit => QueueIInv /\ FlagsTyped /\ PlacedFirst /\ CompleteIsReplaced
    <2> SUFFICES ASSUME PoolInit PROVE QueueIInv /\ FlagsTyped /\ PlacedFirst /\ CompleteIsReplaced
      OBVIOUS
    <2>1. QueueIInv /\ FlagsTyped
      BY QueueInitIInv, PoolInitFlags DEF PoolInit
    <2> QED BY <2>1 DEF PoolInit, QueueInit, PlacedFirst, CompleteIsReplaced, Absent
  <1>2. QueueIInv /\ HoldsJobs /\ FlagsTyped /\ PlacedFirst /\ CompleteIsReplaced /\ [Next]_vars
            => (QueueIInv /\ FlagsTyped /\ PlacedFirst /\ CompleteIsReplaced)'
    BY NextIsQueueNext, QueueNextIInv, NextFlags, NextReplaces
  <1> QED BY <1>1, <1>2, SlotsCorrect, PTL DEF PoolSpec

-----------------------------------------------------------------------------
(* The goroutines and the pool, whatever calls are made.                   *)

\* A worker is in the pool once.
PoolOnce == \A i, k \in 1 .. Len(pool) : pool[i] = pool[k] => i = k

\* Resize has an entry for a worker once, of the pool, and not the one it stops; it
\* leaves a worker at least.
ResizeTyped ==
    /\ resizing.pc \in {"idle", "pick", "stop", "wait"}
    /\ \A e \in resizing.todo : e.worker \in PoolMembers
    /\ \A e, f \in resizing.todo : e.worker = f.worker => e = f
    /\ resizing.pc # "idle" => resizing.excess \in Nat /\ resizing.excess < Len(pool)
    /\ resizing.pc \in {"stop", "wait"} =>
          /\ resizing.excess > 0
          /\ resizing.target.worker \in PoolMembers
          /\ \A e \in resizing.todo : e.worker # resizing.target.worker

Awaited(w) == resizing.pc = "wait" /\ resizing.target.worker = w

\* Who is not in the pool has returned; who is in it runs and is not cancelled, unless
\* Resize waits for it.
MembersLive ==
    ~stopped => \A w \in Worker :
        /\ w \notin PoolMembers => wpc[w] = "exited"
        /\ w \in PoolMembers /\ ~Awaited(w) => wpc[w] # "exited" /\ ~wcancelled[w]

AliveIInv == HoldsJobs /\ PoolOnce /\ ResizeTyped /\ MembersLive

\* A step that leaves pool and Resize alone, and in which only a cancelled worker returns.
LEMMA SamePool ==
    ASSUME AliveIInv, HoldsJobs', UNCHANGED <<pool, resizing, wcancelled>>,
           stopped => stopped',
           \A w \in Worker : wpc'[w] = "exited" => wpc[w] = "exited" \/ CtxDone(w),
           \A w \in Worker : wpc[w] = "exited" => wpc'[w] = "exited"
    PROVE  AliveIInv'
  <1>1. PoolOnce' /\ ResizeTyped' /\ PoolMembers' = PoolMembers
    BY DEF AliveIInv, PoolOnce, ResizeTyped, PoolMembers
  <1>2. stopped' \/ MembersLive'
    BY <1>1 DEF AliveIInv, MembersLive, Awaited, CtxDone, PoolMembers
  <1> QED BY <1>1, <1>2 DEF AliveIInv, MembersLive

\* A worker goes on while its context is not cancelled.
LEMMA WorkerStepAlive ==
    ASSUME AliveIInv, HoldsJobs', NEW w \in Worker, WorkerStep(w)
    PROVE  AliveIInv'
  <1>0. wpc \in [Worker -> Points]
    BY DEF AliveIInv, HoldsJobs
  <1> USE <1>0 DEF Moves, wvars, cvars
  <1>1. CASE Exit(w) \/ PassGates(w) \/ Claim(w) \/ PickJob(w) \/ Release(w)
    BY <1>1, SamePool DEF Exit, PassGates, Claim, PickJob, Release
  <1>2. CASE RejectPreset(w) \/ Prepare(w)
    BY <1>2, SamePool DEF RejectPreset, Prepare
  <1>3. CASE AnalysisWaits(w) \/ AnalysisBegins(w) \/ BeginEncoding(w)
    BY <1>3, SamePool DEF AnalysisWaits, AnalysisBegins, BeginEncoding, ShowPhase
  <1>4. CASE AnalysisContended(w) \/ TakeSlot(w) \/ AnalysisErrs(w)
    BY <1>4, SamePool DEF AnalysisContended, TakeSlot, AnalysisErrs
  <1>5. CASE AnalysisSkips(w) \/ AnalysisSelects(w) \/ RemuxSkips(w)
    BY <1>5, SamePool DEF AnalysisSkips, AnalysisSelects, RemuxSkips
  <1>6. CASE Finalize(w) \/ Place(w)
    BY <1>6, SamePool DEF Finalize, Place
  <1>7. CASE Record(w) \/ Fail(w) \/ Skip(w) \/ Abandon(w)
    BY <1>7, SamePool DEF Record, Fail, Skip, Abandon
  <1> QED BY <1>1, <1>2, <1>3, <1>4, <1>5, <1>6, <1>7 DEF WorkerStep

\* The slice without its k-th element, as Resize builds it.
LEMMA Joined ==
    ASSUME NEW S, NEW s \in Seq(S), NEW k \in 1 .. Len(s)
    PROVE  LET t == SubSeq(s, 1, k - 1) \o SubSeq(s, k + 1, Len(s)) IN
           /\ t \in Seq(S) /\ Len(t) = Len(s) - 1
           /\ \A i \in 1 .. Len(s) - 1 : t[i] = IF i < k THEN s[i] ELSE s[i + 1]
  <1> DEFINE a == SubSeq(s, 1, k - 1)
             b == SubSeq(s, k + 1, Len(s))
  <1>0. Len(s) \in Nat /\ k \in Nat /\ 1 <= k /\ k <= Len(s)
    OBVIOUS
  <1>1. a \in Seq(S) /\ Len(a) = k - 1 /\ \A i \in 1 .. k - 1 : a[i] = s[i]
    BY <1>0
  <1>2. b \in Seq(S) /\ Len(b) = Len(s) - k /\ \A i \in 1 .. Len(s) - k : b[i] = s[i + k]
    BY <1>0
  <1> HIDE DEF a, b
  <1>3. a \o b \in Seq(S) /\ Len(a \o b) = Len(s) - 1
    <2>1. \A x, y \in Seq(S) : x \o y \in Seq(S) /\ Len(x \o y) = Len(x) + Len(y)
      OBVIOUS
    <2>2. (k - 1) + (Len(s) - k) = Len(s) - 1
      BY <1>0
    <2> QED BY <1>1, <1>2, <2>1, <2>2
  <1>4. ASSUME NEW i \in 1 .. Len(s) - 1 PROVE (a \o b)[i] = IF i < k THEN s[i] ELSE s[i + 1]
    <2>1. (a \o b)[i] = IF i <= Len(a) THEN a[i] ELSE b[i - Len(a)]
      BY <1>0, <1>1, <1>2
    <2>2. CASE i < k
      BY <1>0, <1>1, <2>1, <2>2
    <2>3. CASE ~(i < k)
      <3>1. i - (k - 1) \in 1 .. Len(s) - k /\ i - (k - 1) + k = i + 1
        BY <1>0, <2>3
      <3> QED BY <1>0, <1>1, <1>2, <2>1, <2>3, <3>1
    <2> QED BY <2>2, <2>3
  <1> QED BY <1>3, <1>4 DEF a, b

\* What a slice holds, and that it holds each of them once.
Elements(s) == {s[i] : i \in 1 .. Len(s)}
Once(s)     == \A i, j \in 1 .. Len(s) : s[i] = s[j] => i = j

\* Such a slice holds the others, and holds each of them once.
LEMMA WithoutOne ==
    ASSUME NEW s \in Seq(Worker), Once(s),
           NEW k \in 1 .. Len(s), NEW t, Len(t) = Len(s) - 1,
           \A i \in 1 .. Len(s) - 1 : t[i] = IF i < k THEN s[i] ELSE s[i + 1]
    PROVE  Elements(t) = Elements(s) \ {s[k]} /\ Once(t)
  <1> DEFINE n == Len(s) - 1
  <1>1. n \in Nat /\ Len(s) = n + 1 /\ k \in 1 .. n + 1
    OBVIOUS
  <1>2. Len(t) = n /\ \A i \in 1 .. n : t[i] = IF i < k THEN s[i] ELSE s[i + 1]
    OBVIOUS
  <1> HIDE DEF n
  <1>3. \A i, j \in 1 .. n + 1 : s[i] = s[j] => i = j
    BY <1>1 DEF Once
  <1>4. \A i \in 1 .. n : \E m \in 1 .. n + 1 : t[i] = s[m] /\ m # k
    <2> SUFFICES ASSUME NEW i \in 1 .. n PROVE \E m \in 1 .. n + 1 : t[i] = s[m] /\ m # k
      OBVIOUS
    <2>1. CASE i < k
      <3>1. i \in 1 .. n + 1 /\ t[i] = s[i] /\ i # k
        BY <1>1, <1>2, <2>1
      <3> QED BY <3>1
    <2>2. CASE ~(i < k)
      <3>1. i + 1 \in 1 .. n + 1 /\ i + 1 # k
        BY <1>1, <2>2
      <3>2. t[i] = s[i + 1]
        BY <1>2, <2>2
      <3> QED BY <3>1, <3>2
    <2> QED BY <2>1, <2>2
  <1>5. \A m \in 1 .. n + 1 : m # k => \E i \in 1 .. n : t[i] = s[m]
    <2> SUFFICES ASSUME NEW m \in 1 .. n + 1, m # k PROVE \E i \in 1 .. n : t[i] = s[m]
      OBVIOUS
    <2>1. CASE m < k
      BY <1>1, <1>2, <2>1
    <2>2. CASE m > k
      <3>3. m - 1 \in 1 .. n /\ (m - 1) + 1 = m /\ ~(m - 1 < k)
        BY <1>1, <2>2
      <3>1. PICK i \in 1 .. n : i + 1 = m /\ ~(i < k)
        BY <3>3
      <3>2. t[i] = s[i + 1]
        BY <1>2, <3>1
      <3> QED BY <3>1, <3>2
    <2> QED BY <1>1, <2>1, <2>2
  <1>6. ASSUME NEW i \in 1 .. n, NEW j \in 1 .. n, t[i] = t[j] PROVE i = j
    BY <1>1, <1>2, <1>3, <1>6
  <1>7. {t[i] : i \in 1 .. n} = {s[i] : i \in 1 .. n + 1} \ {s[k]}
    <2> DEFINE T == {t[i] : i \in 1 .. n}
               R == {s[i] : i \in 1 .. n + 1} \ {s[k]}
    <2>1. ASSUME NEW i \in 1 .. n PROVE t[i] \in R
      <3>1. PICK m \in 1 .. n + 1 : t[i] = s[m] /\ m # k
        BY <1>4
      <3> QED BY <1>1, <1>3, <3>1
    <2>2. ASSUME NEW x \in R PROVE x \in T
      BY <1>5
    <2>3. T \subseteq R
      BY <2>1
    <2>4. R \subseteq T
      BY <2>2
    <2> HIDE DEF T, R
    <2>5. T = R
      BY <2>3, <2>4
    <2> QED BY <2>5 DEF T, R
  <1> QED BY <1>1, <1>2, <1>6, <1>7 DEF Elements, Once

\* Resize to more workers.
LEMMA GrowAlive ==
    ASSUME AliveIInv, HoldsJobs', FlagsTyped, NEW w \in Worker, Grow(w)
    PROVE  AliveIInv'
  <1>1. /\ pool' = Append(pool, w) /\ w \notin PoolMembers /\ pool \in Seq(Worker)
        /\ resizing' = resizing /\ resizing.pc = "idle" /\ stopped' = stopped
        /\ \A v \in Worker : wpc'[v] = IF v = w THEN "top" ELSE wpc[v]
        /\ \A v \in Worker : wcancelled'[v] = IF v = w THEN FALSE ELSE wcancelled[v]
    BY DEF Grow, PoolLocked, AliveIInv, HoldsJobs, FlagsTyped
  <1>2. Len(pool') = Len(pool) + 1 /\ Len(pool) \in Nat
        /\ \A i \in 1 .. Len(pool') : pool'[i] = IF i = Len(pool) + 1 THEN w ELSE pool[i]
    BY <1>1
  <1>3. PoolMembers' = PoolMembers \cup {w}
    BY <1>2 DEF PoolMembers
  <1>4. PoolOnce'
    BY <1>1, <1>2 DEF AliveIInv, PoolOnce, PoolMembers
  <1>5. ResizeTyped'
    BY <1>1, <1>3 DEF AliveIInv, ResizeTyped
  <1>6. MembersLive'
    BY <1>1, <1>3 DEF AliveIInv, MembersLive, Awaited
  <1> QED BY <1>4, <1>5, <1>6 DEF AliveIInv

\* Resize to fewer workers: they are stopped one after the other.
LEMMA ShrinkAlive ==
    ASSUME AliveIInv, HoldsJobs', FlagsTyped, ShrinkStep \/ \E n \in 1 .. Len(pool) : ShrinkBegins(n)
    PROVE  AliveIInv'
  <1>0. /\ pool \in Seq(Worker) /\ Len(pool) \in Nat /\ PoolMembers \subseteq Worker
        /\ resizing = [pc |-> resizing.pc, todo |-> resizing.todo,
                       target |-> resizing.target, excess |-> resizing.excess]
    BY CollectedAreJobs DEF AliveIInv, HoldsJobs
  <1>1. CASE \E n \in 1 .. Len(pool) : ShrinkBegins(n)
    <2>1. PICK n \in 1 .. Len(pool) : ShrinkBegins(n)
      BY <1>1
    <2>2. /\ resizing' = [pc |-> "pick", todo |-> RunningJobs, target |-> resizing.target,
                          excess |-> Len(pool) - n]
          /\ n < Len(pool) /\ resizing.pc = "idle"
          /\ UNCHANGED <<pool, wpc, wcancelled, stopped>>
      BY <1>0, <2>1 DEF ShrinkBegins, PoolLocked, wvars
    <2>3. PoolOnce' /\ PoolMembers' = PoolMembers
      BY <2>2 DEF AliveIInv, PoolOnce, PoolMembers
    <2>4. ResizeTyped'
      BY <1>0, <2>2, <2>3 DEF ResizeTyped, RunningJobs
    <2>5. MembersLive'
      BY <2>2, <2>3 DEF AliveIInv, MembersLive, Awaited
    <2> QED BY <2>3, <2>4, <2>5 DEF AliveIInv
  <1>2. CASE ShrinkCancelsJob
    <2>1. PICK e \in IF resizing.todo # {} THEN Newest(resizing.todo)
                     ELSE {[worker |-> pool[Len(pool)], job |-> NoJob]} :
               resizing' = [resizing EXCEPT !.pc = "stop", !.todo = @ \ {e}, !.target = e]
      BY <1>2 DEF ShrinkCancelsJob
    <2>2. /\ resizing' = [pc |-> "stop", todo |-> resizing.todo \ {e}, target |-> e,
                          excess |-> resizing.excess]
          /\ resizing.pc = "pick" /\ resizing.excess > 0
          /\ UNCHANGED <<pool, wpc, wcancelled, stopped>>
      BY <1>0, <1>2, <2>1 DEF ShrinkCancelsJob
    <2>3. PoolOnce' /\ PoolMembers' = PoolMembers
      BY <2>2 DEF AliveIInv, PoolOnce, PoolMembers
    <2>4. e.worker \in PoolMembers /\ \A f \in resizing.todo \ {e} : f.worker # e.worker
      <3>1. CASE resizing.todo # {}
        BY <3>1 DEF Newest, AliveIInv, ResizeTyped
      <3>2. CASE resizing.todo = {}
        <4>1. Len(pool) \in 1 .. Len(pool)
          BY <1>0, <2>2 DEF AliveIInv, ResizeTyped
        <4> QED BY <3>2, <4>1 DEF PoolMembers
      <3> QED BY <3>1, <3>2
    <2>5. ResizeTyped'
      BY <2>2, <2>3, <2>4 DEF AliveIInv, ResizeTyped
    <2>6. MembersLive'
      BY <2>2, <2>3 DEF AliveIInv, MembersLive, Awaited
    <2> QED BY <2>3, <2>5, <2>6 DEF AliveIInv
  <1>3. CASE ShrinkStops
    <2>1. /\ resizing' = [pc |-> "wait", todo |-> resizing.todo, target |-> resizing.target,
                          excess |-> resizing.excess]
          /\ resizing.pc = "stop"
          /\ UNCHANGED <<pool, wpc, stopped>>
          /\ \A v \in Worker : v # resizing.target.worker => wcancelled'[v] = wcancelled[v]
      BY <1>0, <1>3 DEF ShrinkStops, FlagsTyped
    <2>2. PoolOnce' /\ PoolMembers' = PoolMembers
      BY <2>1 DEF AliveIInv, PoolOnce, PoolMembers
    <2>3. ResizeTyped'
      BY <2>1, <2>2 DEF AliveIInv, ResizeTyped
    <2>4. MembersLive'
      BY <2>1, <2>2 DEF AliveIInv, MembersLive, Awaited
    <2> QED BY <2>2, <2>3, <2>4 DEF AliveIInv
  <1>4. CASE ShrinkRequeues
    <2>1. PICK k \in 1 .. Len(pool) :
              /\ pool[k] = resizing.target.worker
              /\ pool' = SubSeq(pool, 1, k - 1) \o SubSeq(pool, k + 1, Len(pool))
      BY <1>4 DEF ShrinkRequeues
    <2>2. /\ resizing' = [pc |-> "pick", todo |-> resizing.todo, target |-> NoTarget,
                          excess |-> resizing.excess - 1]
          /\ resizing.pc = "wait" /\ wpc[resizing.target.worker] = "exited"
          /\ UNCHANGED <<wpc, wcancelled, stopped>>
      BY <1>0, <1>4 DEF ShrinkRequeues, wvars
    <2>6. /\ Len(pool') = Len(pool) - 1
          /\ \A i \in 1 .. Len(pool) - 1 : pool'[i] = IF i < k THEN pool[i] ELSE pool[i + 1]
      BY <1>0, <2>1, Joined
    <2>7. Once(pool)
      BY DEF AliveIInv, PoolOnce, Once
    <2>8. Elements(pool') = Elements(pool) \ {pool[k]} /\ Once(pool')
      BY <1>0, <2>6, <2>7, WithoutOne
    <2>3. /\ Len(pool') = Len(pool) - 1 /\ PoolOnce'
          /\ PoolMembers' = PoolMembers \ {resizing.target.worker}
      BY <2>1, <2>6, <2>8 DEF PoolOnce, PoolMembers, Elements, Once
    <2>4. ResizeTyped'
      BY <1>0, <2>2, <2>3 DEF AliveIInv, ResizeTyped
    <2>5. MembersLive'
      BY <2>2, <2>3 DEF AliveIInv, MembersLive, Awaited
    <2> QED BY <2>3, <2>4, <2>5 DEF AliveIInv
  <1>5. CASE ShrinkReturns
    <2>1. /\ resizing' = [pc |-> "idle", todo |-> {}, target |-> resizing.target,
                          excess |-> resizing.excess]
          /\ resizing.pc = "pick"
          /\ UNCHANGED <<pool, wpc, wcancelled, stopped>>
      BY <1>0, <1>5 DEF ShrinkReturns, wvars
    <2>2. PoolOnce' /\ PoolMembers' = PoolMembers
      BY <2>1 DEF AliveIInv, PoolOnce, PoolMembers
    <2>3. ResizeTyped' /\ MembersLive'
      BY <2>1, <2>2 DEF AliveIInv, ResizeTyped, MembersLive, Awaited
    <2> QED BY <2>2, <2>3 DEF AliveIInv
  <1> QED BY <1>1, <1>2, <1>3, <1>4, <1>5 DEF ShrinkStep

\* Every step of the pool.
LEMMA NextAlive == AliveIInv /\ FlagsTyped /\ [Next]_vars => AliveIInv'
  <1> SUFFICES ASSUME AliveIInv, FlagsTyped, [Next]_vars PROVE AliveIInv'
    OBVIOUS
  <1>0. HoldsJobs'
    BY NextHoldsJobs DEF AliveIInv
  <1>1. CASE \E w \in Worker : WorkerStep(w)
    BY <1>0, <1>1, WorkerStepAlive
  <1>2. CASE CreateNext
    BY <1>0, <1>2, SamePool DEF CreateNext, Create, wvars, cvars
  <1>6. CASE Stop
    BY <1>0, <1>6, SamePool DEF Stop, wvars
  <1>8. CASE UNCHANGED vars
    BY <1>0, <1>8, SamePool DEF vars, wvars, cvars
  <1>7. CASE \E n \in 1 .. MaxAnalyses : SetAnalysisLimit(n)
    <2>1. UNCHANGED <<wvars, cvars>>
      BY <1>7 DEF SetAnalysisLimit
    <2> QED BY <1>0, <2>1, SamePool DEF wvars, cvars
  <1>3. CASE PauseNext
    <2>1. UNCHANGED <<wpc, wcancelled, stopped, pool, resizing>>
      <3>1. CASE PauseBegins \/ PauseCollects \/ PauseReturns \/ Unpause
        BY <3>1 DEF PauseBegins, PauseCollects, PauseReturns, Unpause, wvars
      <3>2. CASE PauseRequeues
        BY <3>2 DEF PauseRequeues, wvars
      <3>3. CASE PauseCancels
        BY <3>3 DEF PauseCancels
      <3> QED BY <1>3, <3>1, <3>2, <3>3 DEF PauseNext, PauseStep
    <2> QED BY <1>0, <2>1, SamePool
  <1>4. CASE \E w \in Worker : Grow(w)
    BY <1>0, <1>4, GrowAlive
  <1>5. CASE ShrinkStep \/ \E n \in 1 .. Len(pool) : ShrinkBegins(n)
    BY <1>0, <1>5, ShrinkAlive
  <1> QED BY <1>1, <1>2, <1>3, <1>4, <1>5, <1>6, <1>7, <1>8
          DEF Next, ServeNext, WorkNext, ResizeNext

\* However Resize grows and shrinks the pool while the workers work: when it is not
\* under way, the goroutines that live are the workers of the pool.
THEOREM PoolIsAliveCorrect == PoolSpec => []PoolIsAlive
  <1>1. PoolInit => AliveIInv /\ FlagsTyped
    <2> SUFFICES ASSUME PoolInit PROVE AliveIInv /\ FlagsTyped
      OBVIOUS
    <2>1. HoldsJobs /\ FlagsTyped
      BY PoolInitHoldsJobs, PoolInitFlags
    <2>2. PoolOnce
      BY PoolAssumptions DEF PoolInit, PoolOnce
    <2>3. ResizeTyped /\ MembersLive
      BY DEF PoolInit, ResizeTyped, MembersLive
    <2> QED BY <2>1, <2>2, <2>3 DEF AliveIInv
  <1>2. AliveIInv /\ FlagsTyped /\ [Next]_vars => (AliveIInv /\ FlagsTyped)'
    BY NextAlive, NextFlags
  <1>3. AliveIInv => PoolIsAlive
    BY DEF AliveIInv, ResizeTyped, MembersLive, PoolIsAlive, PoolLocked, Awaited
  <1> QED BY <1>1, <1>2, <1>3, PTL DEF PoolSpec

-----------------------------------------------------------------------------
(* The order in which Pause puts the jobs back (PauseSpec).                *)

\* The jobs still to be put back are older than those that were, which nobody has made
\* since.
OldestIsLast ==
    /\ pausing.pc = "collect" => pausing.moved = {}
    /\ \A m \in pausing.moved : m <= lastId
    /\ \A e \in pausing.todo, m \in pausing.moved : e.job <= m

PauseOrderIInv == QueueIInv /\ HoldsJobs /\ OldestIsLast /\ PauseKeepsOrder

\* No job comes to wait, and those that wait keep their order.
LEMMA NobodyJoins ==
    ASSUME PauseOrderIInv, pausing'.moved = pausing.moved, order' = order, lastId' = lastId,
           \A j \in JobId : status'[j] = "pending" => status[j] = "pending",
           pausing'.todo \subseteq pausing.todo,
           pausing'.pc = "collect" => pausing.pc = "collect"
    PROVE  OldestIsLast' /\ PauseKeepsOrder'
  BY DEF PauseOrderIInv, HoldsJobs, OldestIsLast, PauseKeepsOrder

\* A worker makes no job wait.
LEMMA WorkerKeepsOrder ==
    ASSUME PauseOrderIInv, NEW w \in Worker, WorkerStep(w)
    PROVE  OldestIsLast' /\ PauseKeepsOrder'
  <1>1. HoldsJobs /\ QueueTypeOK
    BY DEF PauseOrderIInv, QueueIInv
  <1>2. /\ pausing'.moved = pausing.moved /\ pausing'.todo = pausing.todo
        /\ pausing'.pc = "collect" => pausing.pc = "collect"
        /\ order' = order /\ lastId' = lastId
        /\ \A j \in JobId : status'[j] = "pending" => status[j] = "pending"
    <2>1. CASE Release(w)
      BY <1>1, <2>1 DEF Release, HoldsJobs, qvars
    <2>2. CASE Exit(w) \/ PassGates(w) \/ PickJob(w) \/ Claim(w)
      BY <2>2 DEF Exit, PassGates, PickJob, Claim, qvars, cvars
    <2>3. CASE RejectPreset(w) \/ Prepare(w)
      BY <1>1, <2>3 DEF RejectPreset, Prepare, OrIgnored, FailJob, StartJob, SetStatus, QueueTypeOK,
                        qvars, cvars
    <2>4. CASE AnalysisWaits(w) \/ AnalysisBegins(w) \/ BeginEncoding(w)
      BY <2>4 DEF AnalysisWaits, AnalysisBegins, BeginEncoding, ShowPhase, OrIgnored,
                  UpdateJobPhase, qvars, cvars
    <2>5. CASE \/ AnalysisContended(w) \/ TakeSlot(w) \/ AnalysisErrs(w) \/ AnalysisSkips(w)
               \/ AnalysisSelects(w) \/ RemuxSkips(w) \/ Finalize(w) \/ Place(w)
      BY <2>5 DEF AnalysisContended, TakeSlot, AnalysisErrs, AnalysisSkips, AnalysisSelects,
                  RemuxSkips, Finalize, Place, qvars, cvars
    <2>6. CASE Record(w) \/ Fail(w) \/ Skip(w) \/ Abandon(w)
      BY <1>1, <2>6 DEF Record, Fail, Skip, Abandon, OrIgnored, CompleteJob, FailJob, SkipJob,
                        CancelJob, SetStatus, QueueTypeOK, qvars, cvars
    <2> QED BY <2>1, <2>2, <2>3, <2>4, <2>5, <2>6 DEF WorkerStep
  <1> QED BY <1>2, NobodyJoins

\* New jobs go to the end of the order.
LEMMA CreateKeepsOrder ==
    ASSUME PauseOrderIInv, CreateNext
    PROVE  OldestIsLast' /\ PauseKeepsOrder'
  <1> PICK n \in 1 .. MaxJobs : \E skipped \in SUBSET NewIds(n) : Create(n, skipped)
    BY DEF CreateNext
  <1> PICK skipped \in SUBSET NewIds(n) : Create(n, skipped)
    OBVIOUS
  <1>1. pausing' = pausing /\ AddJobs(n, skipped) /\ n \in Nat /\ lastId \in Nat
    BY MaxJobsAssumption DEF Create, cvars, PauseOrderIInv, QueueIInv, QueueTypeOK
  <1>2. lastId' = lastId + n /\ \A j \in NewIds(n) : j \in Nat /\ j > lastId
    BY <1>1 DEF AddJobs, NewIds
  <1>3. OldestIsLast'
    <2>1. \A m \in pausing.moved : m <= lastId'
      BY <1>1, <1>2 DEF PauseOrderIInv, HoldsJobs, OldestIsLast, JobId
    <2> QED BY <1>1, <2>1 DEF PauseOrderIInv, OldestIsLast
  <1>4. PauseKeepsOrder'
    <2> SUFFICES ASSUME NEW a \in pausing.moved, NEW b \in JobId, a # b,
                        status'[a] = "pending", status'[b] = "pending",
                        b \in pausing.moved => a < b
                 PROVE  <<a, b>> \in order'
      BY <1>1 DEF PauseKeepsOrder
    <2>1. a \in JobId /\ a \notin NewIds(n)
      <3>1. a \in JobId /\ a \in Nat /\ a <= lastId
        BY DEF PauseOrderIInv, HoldsJobs, OldestIsLast, JobId
      <3> QED BY <3>1, <1>1 DEF NewIds
    <2>2. status[a] = "pending" /\ a \in Present
      BY <1>1, <2>1 DEF AddJobs, Present, Absent
    <2>3. CASE b \in NewIds(n)
      BY <1>1, <2>2, <2>3 DEF AddJobs, Appended
    <2>4. CASE b \notin NewIds(n)
      <3>1. status[b] = "pending"
        BY <1>1, <2>4 DEF AddJobs
      <3> QED BY <1>1, <2>2, <3>1 DEF AddJobs, Appended, PauseOrderIInv, PauseKeepsOrder
    <2> QED BY <2>3, <2>4
  <1> QED BY <1>3, <1>4

\* A job put back stands before all that wait, those put back before it included.
LEMMA RequeueKeepsOrder ==
    ASSUME PauseOrderIInv, PauseRequeues
    PROVE  OldestIsLast' /\ PauseKeepsOrder'
  <1> PICK e \in Newest(pausing.todo) :
          /\ OrIgnored(Requeue(e.job), status[e.job] = "running")
          /\ pausing' = [pausing EXCEPT
                            !.todo = @ \ {e},
                            !.pc = IF status[e.job] = "running" THEN "cancel" ELSE "pick",
                            !.target = IF status[e.job] = "running" THEN e ELSE NoTarget,
                            !.moved = IF status[e.job] = "running" THEN @ \cup {e.job} ELSE @]
    BY DEF PauseRequeues
  <1> DEFINE j == e.job
  <1>0. /\ e \in pausing.todo /\ j \in JobId /\ JobId \subseteq Nat
        /\ \A f \in pausing.todo : f.job \in JobId /\ f.job <= j
        /\ pausing.moved \subseteq JobId
    BY DEF Newest, PauseOrderIInv, HoldsJobs, JobId
  <1>1. /\ pausing'.todo = pausing.todo \ {e}
        /\ pausing'.pc # "collect"
        /\ pausing'.moved = IF status[j] = "running" THEN pausing.moved \cup {j} ELSE pausing.moved
    BY DEF PauseOrderIInv, HoldsJobs
  <1>2. CASE status[j] # "running"
    BY <1>1, <1>2, NobodyJoins DEF OrIgnored, qvars
  <1>3. CASE status[j] = "running"
    <2>1. /\ lastId' = lastId /\ order' = MovedToFront(j)
          /\ \A k \in JobId : k # j => status'[k] = status[k]
      BY <1>3 DEF OrIgnored, Requeue, SetStatus, PauseOrderIInv, QueueIInv, QueueTypeOK
    <2>2. j <= lastId
      BY <1>0, <1>3 DEF PauseOrderIInv, QueueIInv, Unissued, QueueTypeOK, Absent
    <2>3. OldestIsLast'
      <3>1. \A f \in pausing.todo, m \in pausing.moved \cup {j} : f.job <= m
        BY <1>0 DEF PauseOrderIInv, OldestIsLast
      <3> QED BY <1>1, <1>3, <2>1, <2>2, <3>1 DEF PauseOrderIInv, OldestIsLast
    <2>4. PauseKeepsOrder'
      <3> SUFFICES ASSUME NEW a \in pausing.moved \cup {j}, NEW b \in JobId, a # b,
                          status'[a] = "pending", status'[b] = "pending",
                          b \in pausing.moved \cup {j} => a < b
                   PROVE  <<a, b>> \in MovedToFront(j)
        BY <1>1, <1>3, <2>1 DEF PauseKeepsOrder
      <3>1. CASE a = j
        <4>1. b \in Present \ {j}
          BY <2>1, <3>1 DEF Present, Absent
        <4> QED BY <3>1, <4>1 DEF MovedToFront
      <3>2. CASE a # j
        <4>1. a \in pausing.moved /\ j <= a
          BY <1>0, <3>2 DEF PauseOrderIInv, OldestIsLast
        <4>2. b # j
          BY <1>0, <3>2, <4>1
        <4>3. <<a, b>> \in order
          BY <1>0, <2>1, <3>2, <4>1, <4>2 DEF PauseOrderIInv, PauseKeepsOrder
        <4> QED BY <3>2, <4>2, <4>3 DEF MovedToFront, Without
      <3> QED BY <3>1, <3>2
    <2> QED BY <2>3, <2>4
  <1> QED BY <1>2, <1>3

\* Every step.
LEMMA PauseNextOrder == PauseOrderIInv /\ [ServeNext \/ PauseNext]_vars => PauseOrderIInv'
  <1> SUFFICES ASSUME PauseOrderIInv, [ServeNext \/ PauseNext]_vars PROVE PauseOrderIInv'
    OBVIOUS
  <1>1. QueueIInv' /\ HoldsJobs'
    <2>1. [Next]_vars
      BY DEF Next
    <2> QED BY <2>1, NextIsQueueNext, QueueNextIInv, NextHoldsJobs DEF PauseOrderIInv
  <1>2. OldestIsLast' /\ PauseKeepsOrder'
    <2>1. CASE \E w \in Worker : WorkerStep(w)
      BY <2>1, WorkerKeepsOrder
    <2>2. CASE CreateNext
      BY <2>2, CreateKeepsOrder
    <2>3. CASE PauseRequeues
      BY <2>3, RequeueKeepsOrder
    <2>4. CASE \/ Stop \/ UNCHANGED vars \/ Unpause \/ PauseCancels \/ PauseReturns
               \/ \E n \in 1 .. MaxAnalyses : SetAnalysisLimit(n)
      <3>1. /\ UNCHANGED qvars
            /\ pausing'.moved = pausing.moved /\ pausing'.todo = pausing.todo
            /\ pausing'.pc = "collect" => pausing.pc = "collect"
        BY <2>4 DEF PauseOrderIInv, HoldsJobs, Stop, SetAnalysisLimit, Unpause, PauseCancels,
                    PauseReturns, vars, cvars
      <3> QED BY <3>1, NobodyJoins DEF qvars
    <2>5. CASE PauseBegins
      <3>1. UNCHANGED qvars /\ pausing'.moved = {}
        BY <2>5 DEF PauseBegins, PauseOrderIInv, HoldsJobs
      <3> QED BY <3>1 DEF OldestIsLast, PauseKeepsOrder
    <2>6. CASE PauseCollects
      <3>1. /\ UNCHANGED qvars /\ pausing'.moved = {} /\ pausing'.pc # "collect"
        BY <2>6 DEF PauseCollects, PauseOrderIInv, OldestIsLast, HoldsJobs
      <3> QED BY <3>1 DEF OldestIsLast, PauseKeepsOrder
    <2> QED BY <2>1, <2>2, <2>3, <2>4, <2>5, <2>6 DEF ServeNext, WorkNext, PauseNext, PauseStep
  <1> QED BY <1>1, <1>2 DEF PauseOrderIInv

\* The jobs Pause puts back wait in the order in which they were made and before all
\* others, for any number of workers and jobs, and whenever the queue is resumed.
THEOREM PauseOrderCorrect == PauseSpec => []PauseKeepsOrder
  <1>1. PoolInit => PauseOrderIInv
    BY QueueInitIInv, PoolInitHoldsJobs
    DEF PoolInit, PauseOrderIInv, OldestIsLast, PauseKeepsOrder
  <1>2. PauseOrderIInv => PauseKeepsOrder
    BY DEF PauseOrderIInv
  <1> QED BY <1>1, <1>2, PauseNextOrder, PTL DEF PauseSpec

-----------------------------------------------------------------------------
(* The workers alone.  The properties are not inductive: that two workers  *)
(* do not work on one job needs that the job of a worker at work is        *)
(* running, since StartJob then refuses it to any other; that it is        *)
(* running needs that no other step ends it, in particular not the         *)
(* unguarded FailJob of RejectPreset; and that a worker never cancels a    *)
(* job needs that no context but the pool's is ever cancelled.             *)

\* No Pause and no Resize is under way, and nobody but Stop cancels a context.
Undisturbed ==
    /\ pausing.pc = "idle"
    /\ resizing.pc = "idle"
    /\ wcancelled = [w \in Worker |-> FALSE]
    /\ jcancelled = [w \in Worker |-> FALSE]
    /\ \A w \in Worker : wpc[w] # "abandon"

\* The job of a worker at work is running, and its preset is known.
WorksOnRunning ==
    \A w \in Worker : wpc[w] \in Processing =>
        status[got[w]] = "running" /\ got[w] \notin UnknownPreset

\* A picked job whose preset is unknown was failed by nobody or by another worker.
RejectedIsNew ==
    \A w \in Worker : wpc[w] \in {"claim", "prepare"} /\ got[w] \in UnknownPreset =>
        status[got[w]] \in {"pending", "failed"}

\* The file of a job is the original until its worker has placed the output.
FileFollowsWork ==
    /\ replaced \in [JobId -> Nat]
    /\ \A w \in Worker : wpc[w] \in Processing =>
           (replaced[got[w]] # 0 <=> wpc[w] = "record")
    /\ \A j \in JobId : status[j] \in {"pending", Absent} => replaced[j] = 0

ServeIInv ==
    /\ QueueIInv /\ HoldsJobs
    /\ Undisturbed /\ WorksOnRunning /\ RejectedIsNew
    /\ OneWorkerPerJob /\ RunningHasWorker /\ NeverCancelled /\ FileFollowsWork

\* NewWorkerPool establishes the inductive invariant.
LEMMA PoolInitServeIInv == PoolInit => ServeIInv
  <1> SUFFICES ASSUME PoolInit PROVE ServeIInv
    OBVIOUS
  <1>1. QueueIInv /\ HoldsJobs
    BY QueueInitIInv, PoolInitHoldsJobs DEF PoolInit
  <1>2. \A w \in Worker : wpc[w] \in {"top", "exited"}
    BY DEF PoolInit
  <1>3. \A j \in JobId : status[j] = Absent
    BY DEF PoolInit, QueueInit
  <1> QED BY <1>1, <1>2, <1>3
          DEF PoolInit, ServeIInv, Undisturbed, WorksOnRunning, RejectedIsNew, OneWorkerPerJob,
              RunningHasWorker, NeverCancelled, FileFollowsWork, WorksOn, Processing, Absent

\* What every step of a worker leaves alone while nothing disturbs it.
LEMMA WorkerStepFrame ==
    ASSUME ServeIInv, NEW w \in Worker, WorkerStep(w)
    PROVE  /\ \A v \in Worker \ {w} : wpc'[v] = wpc[v] /\ got'[v] = got[v]
           /\ Undisturbed'
           /\ stopped' = stopped
  <1> USE DEF ServeIInv, Undisturbed, HoldsJobs, Moves, CtxDone, JobCtxDone, wvars, cvars
  <1>1. CASE Exit(w) \/ PassGates(w) \/ Claim(w) \/ PickJob(w) \/ Release(w)
    BY <1>1 DEF Exit, PassGates, Claim, PickJob, Release
  <1>2. CASE RejectPreset(w) \/ Prepare(w)
    BY <1>2 DEF RejectPreset, Prepare
  <1>3. CASE AnalysisWaits(w) \/ AnalysisBegins(w) \/ BeginEncoding(w)
    BY <1>3 DEF AnalysisWaits, AnalysisBegins, BeginEncoding, ShowPhase
  <1>4. CASE AnalysisContended(w) \/ TakeSlot(w) \/ AnalysisErrs(w)
    BY <1>4 DEF AnalysisContended, TakeSlot, AnalysisErrs
  <1>5. CASE AnalysisSkips(w) \/ AnalysisSelects(w) \/ RemuxSkips(w) \/ Place(w)
    BY <1>5 DEF AnalysisSkips, AnalysisSelects, RemuxSkips, Place
  <1>6. CASE Finalize(w)
    BY <1>6 DEF Finalize
  <1>7. CASE Record(w) \/ Fail(w) \/ Skip(w) \/ Abandon(w)
    BY <1>7 DEF Record, Fail, Skip, Abandon
  <1> QED BY <1>1, <1>2, <1>3, <1>4, <1>5, <1>6, <1>7 DEF WorkerStep

\* What a worker step has to keep besides the above.
ServeProps ==
    /\ WorksOnRunning /\ RejectedIsNew
    /\ OneWorkerPerJob /\ RunningHasWorker /\ NeverCancelled /\ FileFollowsWork

\* A worker goes on with its job, in the queue nothing changes but a phase.
LEMMA GoesOn ==
    ASSUME ServeIInv, NEW w \in Worker, NEW to \in Processing \ {"record"},
           Moves(w, Processing \ {"record"}, to),
           UNCHANGED <<status, got, stopped, pausing, resizing, replaced>>
    PROVE  ServeProps'
  <1>1. \A v \in Worker : wpc'[v] \in Processing <=> wpc[v] \in Processing
    BY DEF ServeIInv, HoldsJobs, Moves
  <1>2. \A v \in Worker : wpc'[v] \in {"claim", "prepare", "record"} => wpc'[v] = wpc[v]
    BY DEF ServeIInv, HoldsJobs, Moves, Processing
  <1>3. \A v \in Worker : (wpc'[v] = "record" <=> wpc[v] = "record")
    BY DEF ServeIInv, HoldsJobs, Moves, Processing
  <1> QED BY <1>1, <1>2, <1>3
          DEF ServeIInv, ServeProps, WorksOnRunning, RejectedIsNew, OneWorkerPerJob,
              RunningHasWorker, NeverCancelled, FileFollowsWork, WorksOn, PoolLocked

\* A worker works on no job after the step: it did not before, or the pool stops.
LEMMA StaysOut ==
    ASSUME ServeIInv, NEW w \in Worker, NEW to \in Points \ Processing,
           wpc[w] \notin Processing \/ stopped,
           wpc' = [wpc EXCEPT ![w] = to],
           \A v \in Worker \ {w} : got'[v] = got[v],
           to \in {"claim", "prepare"} =>
               \/ status[got'[w]] = "pending"
               \/ wpc[w] = "claim" /\ got'[w] = got[w],
           UNCHANGED <<status, stopped, pausing, resizing, replaced>>
    PROVE  ServeProps'
  <1>1. \A v \in Worker : wpc'[v] \in Processing => v # w /\ wpc'[v] = wpc[v] /\ got'[v] = got[v]
    BY DEF ServeIInv, HoldsJobs
  <1>2. RejectedIsNew'
    BY DEF ServeIInv, HoldsJobs, RejectedIsNew
  <1>3. RunningHasWorker'
    <2>1. stopped \/ \A v \in Worker, j \in JobId : WorksOn(v, j) => v # w
      BY DEF WorksOn
    <2>2. \A v \in Worker \ {w} : wpc'[v] = wpc[v]
      BY DEF ServeIInv, HoldsJobs
    <2> QED BY <2>1, <2>2 DEF ServeIInv, RunningHasWorker, WorksOn, PoolLocked
  <1> QED BY <1>1, <1>2, <1>3
          DEF ServeIInv, ServeProps, WorksOnRunning, OneWorkerPerJob, NeverCancelled,
              FileFollowsWork, WorksOn

\* A worker ends the job it works on.
LEMMA EndsJob ==
    ASSUME ServeIInv, NEW w \in Worker, NEW s \in {"complete", "failed", "skipped"},
           Moves(w, Processing, "release"), SetStatus(got[w], s),
           UNCHANGED <<got, stopped, pausing, resizing, replaced>>
    PROVE  ServeProps'
  <1>1. got[w] \in JobId /\ status[got[w]] = "running" /\ got[w] \notin UnknownPreset
    BY DEF ServeIInv, HoldsJobs, WorksOnRunning, Moves, InJob
  <1>2. \A v \in Worker : wpc'[v] \in Processing =>
           /\ v # w
           /\ wpc'[v] = wpc[v]
           /\ got[v] \in JobId
           /\ got[v] # got[w]
           /\ status'[got[v]] = status[got[v]]
    BY <1>1 DEF ServeIInv, HoldsJobs, Moves, OneWorkerPerJob, WorksOn, SetStatus,
                QueueIInv, QueueTypeOK, InJob, Processing
  <1>3. \A j \in JobId : status'[j] = IF j = got[w] THEN s ELSE status[j]
    BY <1>1 DEF SetStatus, ServeIInv, QueueIInv, QueueTypeOK
  <1>4. RejectedIsNew'
    <2> SUFFICES ASSUME NEW v \in Worker, wpc'[v] \in {"claim", "prepare"}, got[v] \in UnknownPreset
                 PROVE  status'[got[v]] \in {"pending", "failed"}
      BY DEF RejectedIsNew
    <2>1. wpc[v] \in {"claim", "prepare"}
      BY DEF ServeIInv, HoldsJobs, Moves
    <2>2. got[v] \in JobId
      BY <2>1 DEF ServeIInv, HoldsJobs, InJob
    <2> QED BY <1>1, <1>3, <2>1, <2>2 DEF ServeIInv, RejectedIsNew
  <1>5. RunningHasWorker'
    <2>1. \A v \in Worker, j \in JobId : j # got[w] /\ WorksOn(v, j) => WorksOn(v, j)'
      BY DEF ServeIInv, HoldsJobs, Moves, WorksOn
    <2> QED BY <1>3, <2>1 DEF ServeIInv, RunningHasWorker, PoolLocked
  <1>6. WorksOnRunning' /\ OneWorkerPerJob'
    BY <1>2 DEF ServeIInv, WorksOnRunning, OneWorkerPerJob, WorksOn
  <1>7. NeverCancelled' /\ FileFollowsWork'
    BY <1>2, <1>3, StatusFacts DEF ServeIInv, NeverCancelled, FileFollowsWork, Absent
  <1> QED BY <1>4, <1>5, <1>6, <1>7 DEF ServeProps

\* StartJob starts a job that no other worker works on, or the worker lets it go.
LEMMA PrepareServe ==
    ASSUME ServeIInv, NEW w \in Worker, Prepare(w)
    PROVE  ServeProps'
  <1> DEFINE j == got[w]
  <1>1. j \in JobId /\ wpc[w] = "prepare" /\ j \notin UnknownPreset
    BY DEF ServeIInv, HoldsJobs, Prepare, InJob
  <1>2. CASE status[j] # "pending"
    BY <1>1, <1>2, StaysOut
    DEF Prepare, Moves, Points, InJob, Processing, qvars, cvars
  <1>3. CASE status[j] = "pending"
    <2>1. /\ status' = [status EXCEPT ![j] = "running"]
          /\ got' = got /\ replaced' = replaced
          /\ resizing' = resizing /\ stopped' = stopped
          /\ wpc'[w] \in {"analyze", "encode"}
          /\ \A v \in Worker \ {w} : wpc'[v] = wpc[v]
      BY <1>3 DEF Prepare, StartJob, SetStatus, Moves, cvars, ServeIInv, HoldsJobs
    <2>2. \A k \in JobId : status'[k] = IF k = j THEN "running" ELSE status[k]
      BY <1>1, <2>1 DEF ServeIInv, QueueIInv, QueueTypeOK
    <2>3. \A v \in Worker \ {w} : wpc'[v] \in Processing =>
             wpc[v] \in Processing /\ got[v] \in JobId /\ got[v] # j
      BY <1>3, <2>1 DEF ServeIInv, HoldsJobs, WorksOnRunning, InJob
    <2>4. WorksOnRunning' /\ OneWorkerPerJob'
      BY <1>1, <2>1, <2>2, <2>3
      DEF ServeIInv, WorksOnRunning, OneWorkerPerJob, WorksOn
    <2>5. RejectedIsNew'
      <3> SUFFICES ASSUME NEW v \in Worker, wpc'[v] \in {"claim", "prepare"},
                          got[v] \in UnknownPreset
                   PROVE  status'[got[v]] \in {"pending", "failed"}
        BY <2>1 DEF RejectedIsNew
      <3>1. v # w /\ wpc[v] \in {"claim", "prepare"} /\ got[v] # j
        BY <1>1, <2>1
      <3>2. got[v] \in JobId
        BY <3>1 DEF ServeIInv, HoldsJobs, InJob
      <3> QED BY <2>2, <3>1, <3>2 DEF ServeIInv, RejectedIsNew
    <2>6. RunningHasWorker'
      <3>1. WorksOn(w, j)'
        BY <2>1 DEF WorksOn, Processing
      <3>2. \A v \in Worker, k \in JobId : WorksOn(v, k) => WorksOn(v, k)'
        BY <1>1, <2>1 DEF WorksOn, Processing
      <3> QED BY <2>1, <2>2, <3>1, <3>2 DEF ServeIInv, RunningHasWorker, PoolLocked
    <2>7. NeverCancelled' /\ FileFollowsWork'
      BY <1>1, <1>3, <2>1, <2>2, <2>3, StatusFacts
      DEF ServeIInv, NeverCancelled, FileFollowsWork, Absent
    <2> QED BY <2>4, <2>5, <2>6, <2>7 DEF ServeProps
  <1> QED BY <1>2, <1>3

\* prepareJob fails a job whose preset is unknown: no worker works on such a job.
LEMMA RejectServe ==
    ASSUME ServeIInv, NEW w \in Worker, RejectPreset(w)
    PROVE  ServeProps'
  <1> DEFINE j == got[w]
  <1>1. /\ j \in JobId /\ wpc[w] = "prepare" /\ j \in UnknownPreset
        /\ status[j] \in {"pending", "failed"} /\ j \in Present
    BY StatusFacts DEF ServeIInv, HoldsJobs, RejectedIsNew, RejectPreset, Moves, InJob, Present
  <1>2. /\ got' = got /\ replaced' = replaced
        /\ resizing' = resizing /\ stopped' = stopped
        /\ wpc' = [wpc EXCEPT ![w] = "release"]
        /\ status' = [status EXCEPT ![j] = "failed"]
    BY <1>1 DEF RejectPreset, OrIgnored, FailJob, SetStatus, Moves, cvars
  <1>3. \A k \in JobId : status'[k] = IF k = j THEN "failed" ELSE status[k]
    BY <1>1, <1>2 DEF ServeIInv, QueueIInv, QueueTypeOK
  <1>4. \A v \in Worker : wpc'[v] = IF v = w THEN "release" ELSE wpc[v]
    BY <1>2 DEF ServeIInv, HoldsJobs
  <1>5. \A v \in Worker : wpc[v] \in Processing => got[v] \in JobId /\ got[v] # j
    BY <1>1 DEF ServeIInv, HoldsJobs, WorksOnRunning, InJob
  <1>6. \A v \in Worker : wpc'[v] \in Processing <=> wpc[v] \in Processing
    BY <1>1, <1>4 DEF Processing
  <1>7. WorksOnRunning' /\ OneWorkerPerJob'
    BY <1>2, <1>3, <1>5, <1>6 DEF ServeIInv, WorksOnRunning, OneWorkerPerJob, WorksOn
  <1>8. RejectedIsNew'
    <2> SUFFICES ASSUME NEW v \in Worker, wpc'[v] \in {"claim", "prepare"}, got[v] \in UnknownPreset
                 PROVE  status'[got[v]] \in {"pending", "failed"}
      BY <1>2 DEF RejectedIsNew
    <2>1. wpc[v] \in {"claim", "prepare"}
      BY <1>4
    <2>2. got[v] \in JobId
      BY <2>1 DEF ServeIInv, HoldsJobs, InJob
    <2> QED BY <1>3, <2>1, <2>2 DEF ServeIInv, RejectedIsNew
  <1>9. RunningHasWorker'
    BY <1>2, <1>3, <1>6 DEF ServeIInv, RunningHasWorker, PoolLocked, WorksOn
  <1>10. NeverCancelled' /\ FileFollowsWork'
    BY <1>2, <1>3, <1>4, <1>5, <1>6, StatusFacts
    DEF ServeIInv, NeverCancelled, FileFollowsWork, Absent
  <1> QED BY <1>7, <1>8, <1>9, <1>10 DEF ServeProps

\* FinalizeTranscode replaces the file of one job, for the first time.
LEMMA PlaceServe ==
    ASSUME ServeIInv, NEW w \in Worker, Moves(w, {"place"}, "record"),
           replaced' = [replaced EXCEPT ![got[w]] = @ + 1],
           UNCHANGED <<status, got, stopped, pausing, resizing>>
    PROVE  ServeProps'
  <1>1. got[w] \in JobId /\ status[got[w]] = "running" /\ replaced[got[w]] = 0
    BY DEF ServeIInv, HoldsJobs, WorksOnRunning, FileFollowsWork, Moves, InJob, Processing
  <1>2. \A v \in Worker : wpc'[v] = IF v = w THEN "record" ELSE wpc[v]
    BY DEF ServeIInv, HoldsJobs, Moves
  <1>3. \A v \in Worker : wpc'[v] \in Processing <=> wpc[v] \in Processing
    BY <1>2 DEF Moves, Processing
  <1>4. WorksOnRunning' /\ RejectedIsNew' /\ OneWorkerPerJob' /\ RunningHasWorker' /\ NeverCancelled'
    BY <1>2, <1>3
    DEF ServeIInv, WorksOnRunning, RejectedIsNew, OneWorkerPerJob, RunningHasWorker,
        NeverCancelled, WorksOn, PoolLocked
  <1>5. FileFollowsWork'
    <2>1. \A j \in JobId : replaced'[j] = IF j = got[w] THEN 1 ELSE replaced[j]
      BY <1>1 DEF ServeIInv, FileFollowsWork
    <2>2. replaced' \in [JobId -> Nat]
      BY <1>1 DEF ServeIInv, FileFollowsWork
    <2>3. \A v \in Worker : wpc'[v] \in Processing => (replaced'[got'[v]] # 0 <=> wpc'[v] = "record")
      <3> SUFFICES ASSUME NEW v \in Worker, wpc'[v] \in Processing
                   PROVE  replaced'[got[v]] # 0 <=> wpc'[v] = "record"
        OBVIOUS
      <3>1. CASE v = w
        BY <1>1, <1>2, <2>1, <3>1
      <3>2. CASE v # w
        <4>1. wpc[v] \in Processing /\ wpc[w] \in Processing /\ wpc'[v] = wpc[v]
          BY <1>2, <1>3, <3>2 DEF Moves, Processing
        <4>2. got[v] \in JobId /\ got[v] # got[w]
          BY <1>1, <3>2, <4>1 DEF ServeIInv, HoldsJobs, OneWorkerPerJob, WorksOn, InJob
        <4> QED BY <2>1, <4>1, <4>2 DEF ServeIInv, FileFollowsWork
      <3> QED BY <3>1, <3>2
    <2>4. \A j \in JobId : status'[j] \in {"pending", Absent} => replaced'[j] = 0
      BY <1>1, <2>1 DEF ServeIInv, FileFollowsWork, Absent
    <2> QED BY <2>2, <2>3, <2>4 DEF FileFollowsWork
  <1> QED BY <1>4, <1>5 DEF ServeProps

\* Every step of a worker keeps the properties.
LEMMA WorkerStepServe ==
    ASSUME ServeIInv, NEW w \in Worker, WorkerStep(w)
    PROVE  ServeProps'
  <1> USE DEF wvars, cvars, qvars
  <1>0. ~stopped => ~CtxDone(w) /\ ~JobCtxDone(w)
    BY DEF ServeIInv, Undisturbed, CtxDone, JobCtxDone
  <1>1. CASE Exit(w) \/ PassGates(w) \/ Release(w)
    BY <1>1, StaysOut
    DEF Exit, PassGates, Release, Moves, Points, InJob, Processing, ServeIInv, HoldsJobs, Undisturbed
  <1>2. CASE PickJob(w)
    <2>1. /\ \A v \in Worker \ {w} : got'[v] = got[v]
          /\ UNCHANGED <<status, stopped, pausing, resizing, replaced>>
      BY <1>2 DEF PickJob, ServeIInv, HoldsJobs
    <2>2. CASE Moves(w, {"next"}, "top")
      BY <2>1, <2>2, StaysOut DEF Moves, Points, InJob, Processing
    <2>3. CASE Moves(w, {"next"}, "claim") /\ status[got'[w]] = "pending"
      BY <2>1, <2>3, StaysOut DEF Moves, Points, InJob, Processing
    <2> QED BY <1>2, <2>2, <2>3 DEF PickJob, IsNext, ServeIInv, HoldsJobs
  <1>3. CASE Claim(w)
    BY <1>3, StaysOut DEF Claim, Moves, Points, InJob, Processing
  <1>4. CASE RejectPreset(w)
    BY <1>4, RejectServe
  <1>5. CASE Prepare(w)
    BY <1>5, PrepareServe
  <1>6. CASE AnalysisWaits(w) \/ AnalysisBegins(w) \/ BeginEncoding(w)
    BY <1>6, GoesOn
    DEF AnalysisWaits, AnalysisBegins, BeginEncoding, ShowPhase, OrIgnored, UpdateJobPhase,
        Moves, Processing
  <1>7. CASE AnalysisContended(w) \/ TakeSlot(w) \/ AnalysisSkips(w) \/ AnalysisSelects(w)
             \/ RemuxSkips(w)
    BY <1>7, GoesOn
    DEF AnalysisContended, TakeSlot, AnalysisSkips, AnalysisSelects, RemuxSkips, Moves, Processing
  <1>8. CASE AnalysisErrs(w) \/ Finalize(w)
    <2>1. CASE stopped
      <3>1. Moves(w, Processing, "release") \/ Moves(w, Processing \ {"record"}, "abandon")
              \/ \E to \in {"fail", "skip", "place"} : Moves(w, Processing \ {"record"}, to)
        BY <1>8 DEF AnalysisErrs, Finalize, Moves, Processing
      <3>2. UNCHANGED <<status, got, stopped, pausing, resizing, replaced>>
        BY <1>8 DEF AnalysisErrs, Finalize
      <3>3. CASE Moves(w, Processing, "release")
        BY <2>1, <3>2, <3>3, StaysOut DEF Moves, Points, InJob, Processing
      <3>4. CASE \E to \in {"abandon", "fail", "skip", "place"} :
                    Moves(w, Processing \ {"record"}, to)
        BY <3>2, <3>4, GoesOn DEF Processing
      <3> QED BY <3>1, <3>3, <3>4
    <2>2. CASE ~stopped
      <3>1. \E to \in {"fail", "skip", "place"} : Moves(w, Processing \ {"record"}, to)
        BY <1>0, <1>8, <2>2 DEF AnalysisErrs, Finalize, Moves, Processing
      <3> QED BY <1>8, <3>1, GoesOn DEF AnalysisErrs, Finalize, Processing
    <2> QED BY <2>1, <2>2
  <1>9. CASE Place(w)
    <2>1. CASE Moves(w, {"place"}, "fail") /\ UNCHANGED replaced
      BY <1>9, <2>1, GoesOn DEF Place, Moves, Processing
    <2>2. CASE Moves(w, {"place"}, "record") /\ replaced' = [replaced EXCEPT ![got[w]] = @ + 1]
      BY <1>9, <2>2, PlaceServe DEF Place
    <2> QED BY <1>9, <2>1, <2>2 DEF Place
  <1>10. CASE Record(w) \/ Fail(w) \/ Skip(w)
    <2>1. wpc[w] \in Processing
      BY <1>10 DEF Record, Fail, Skip, Moves, Processing
    <2>2. status[got[w]] = "running" /\ got[w] \in Present
      BY <2>1, StatusFacts
      DEF ServeIInv, HoldsJobs, WorksOnRunning, Present, InJob
    <2>3. \E s \in {"complete", "failed", "skipped"} : SetStatus(got[w], s)
      BY <1>10, <2>2 DEF Record, Fail, Skip, OrIgnored, CompleteJob, FailJob, SkipJob
    <2> QED BY <1>10, <2>1, <2>3, EndsJob DEF Record, Fail, Skip, Moves
  <1>11. CASE Abandon(w)
    BY <1>11 DEF Abandon, Moves, ServeIInv, Undisturbed
  <1> QED BY <1>1, <1>2, <1>3, <1>4, <1>5, <1>6, <1>7, <1>8, <1>9, <1>10, <1>11 DEF WorkerStep

\* Added jobs are new to every worker.
LEMMA CreateServe ==
    ASSUME ServeIInv, CreateNext
    PROVE  ServeProps' /\ Undisturbed'
  <1> PICK n \in 1 .. MaxJobs : \E skipped \in SUBSET NewIds(n) : Create(n, skipped)
    BY DEF CreateNext
  <1>1. PICK skipped \in SUBSET NewIds(n) : Create(n, skipped)
    OBVIOUS
  <1>2. NewIds(n) \subseteq JobId \ Present
    BY <1>1, NewIdsAreNew, MaxJobsAssumption DEF ServeIInv, QueueIInv, Create, AddJobs
  <1>3. \A j \in JobId : \/ status'[j] = status[j]
                         \/ status[j] = Absent /\ status'[j] \in {"pending", "skipped"}
    BY <1>1, <1>2 DEF Create, AddJobs, Present
  <1>4. UNCHANGED <<wpc, got, wcancelled, jcancelled, stopped, pausing, resizing, replaced>>
    BY <1>1 DEF Create, wvars, cvars
  <1>5. \A w \in Worker : wpc[w] \in InJob \cup {"claim"} => got[w] \in JobId
    BY DEF ServeIInv, HoldsJobs
  <1>6. WorksOnRunning' /\ RejectedIsNew'
    BY <1>3, <1>4, <1>5 DEF ServeIInv, WorksOnRunning, RejectedIsNew, InJob, Absent
  <1>7. OneWorkerPerJob' /\ RunningHasWorker' /\ NeverCancelled'
    BY <1>3, <1>4
    DEF ServeIInv, OneWorkerPerJob, RunningHasWorker, NeverCancelled, WorksOn, PoolLocked
  <1>8. FileFollowsWork'
    BY <1>3, <1>4 DEF ServeIInv, FileFollowsWork, Absent
  <1> QED BY <1>4, <1>6, <1>7, <1>8 DEF ServeIInv, ServeProps, Undisturbed

\* Every step of the serving pool keeps the inductive invariant.
LEMMA ServeNextIInv == ServeIInv /\ [ServeNext]_vars => ServeIInv'
  <1> SUFFICES ASSUME ServeIInv, [ServeNext]_vars PROVE ServeIInv'
    OBVIOUS
  <1>1. [Next]_vars
    BY DEF Next
  <1>2. QueueIInv' /\ HoldsJobs'
    BY <1>1, NextHoldsJobs, NextIsQueueNext, QueueNextIInv DEF ServeIInv
  <1>3. Undisturbed' /\ ServeProps'
    <2>1. CASE CreateNext
      BY <2>1, CreateServe
    <2>2. CASE \E w \in Worker : WorkerStep(w)
      BY <2>2, WorkerStepFrame, WorkerStepServe
    <2>3. CASE Stop \/ UNCHANGED vars \/ \E n \in 1 .. MaxAnalyses : SetAnalysisLimit(n)
      BY <2>3
      DEF Stop, SetAnalysisLimit, vars, qvars, wvars, ServeIInv, ServeProps, Undisturbed, WorksOnRunning,
          RejectedIsNew, OneWorkerPerJob, RunningHasWorker, NeverCancelled, FileFollowsWork,
          WorksOn, PoolLocked, cvars
    <2> QED BY <2>1, <2>2, <2>3 DEF ServeNext, WorkNext
  <1> QED BY <1>2, <1>3 DEF ServeIInv, ServeProps

\* What holds of the workers, their jobs and the files while nobody interrupts them.
THEOREM ServeInductiveInvariant == ServeSpec => []ServeIInv
  BY PoolInitServeIInv, ServeNextIInv, PTL DEF ServeSpec

\* However many workers race for the queue, no two of them work on one job.
THEOREM OneWorkerCorrect == ServeSpec => []OneWorkerPerJob
  BY ServeInductiveInvariant, PTL DEF ServeIInv

\* A running job always has the worker that will end it.
THEOREM RunningHasWorkerCorrect == ServeSpec => []RunningHasWorker
  BY ServeInductiveInvariant, PTL DEF ServeIInv

\* Neither the workers nor a shutdown ever record a job as cancelled.
THEOREM NeverCancelledCorrect == ServeSpec => []NeverCancelled
  BY ServeInductiveInvariant, PTL DEF ServeIInv

-----------------------------------------------------------------------------
(* The refinement of JobLifecycle.                                         *)

\* A step of the pool does one step of its life to a job, or leaves it alone.
JobStep(j) ==
    \/ status[j] = Absent /\ status'[j] \in {"pending", "skipped"} /\ FilesOfJobs'[j] = FilesOfJobs[j]
    \/ status[j] = "pending" /\ status'[j] = "running" /\ FilesOfJobs'[j] = FilesOfJobs[j]
    \/ /\ status[j] = "running" /\ status'[j] = "running"
       /\ FilesOfJobs[j] = "original" /\ FilesOfJobs'[j] = "output"
    \/ /\ status[j] = "running" /\ status'[j] = "complete"
       /\ FilesOfJobs[j] = "output" /\ FilesOfJobs'[j] = "output"
    \/ /\ \/ status[j] = "running" /\ status'[j] \in {"failed", "skipped", "cancelled"}
          \/ status[j] = "pending" /\ status'[j] \in {"failed", "cancelled"}
       /\ FilesOfJobs[j] = "original" /\ FilesOfJobs'[j] = "original"
    \/ status'[j] = status[j] /\ FilesOfJobs'[j] = FilesOfJobs[j]

\* A step of a worker is a step in the life of each job.
LEMMA WorkerJobStep ==
    ASSUME ServeIInv, NEW w \in Worker, WorkerStep(w), NEW j \in JobId
    PROVE  JobStep(j)
  <1> USE DEF JobStep, FilesOfJobs
  <1>0. status \in [JobId -> Status \cup {Absent}] /\ replaced \in [JobId -> Nat]
    BY DEF ServeIInv, QueueIInv, QueueTypeOK, FileFollowsWork
  <1>1. wpc[w] \in Processing =>
          /\ got[w] \in JobId
          /\ status[got[w]] = "running"
          /\ replaced[got[w]] # 0 <=> wpc[w] = "record"
    BY DEF ServeIInv, HoldsJobs, WorksOnRunning, FileFollowsWork, InJob
  <1>2. CASE UNCHANGED <<status, replaced>>
    BY <1>2
  <1>3. CASE RejectPreset(w)
    <2>1. /\ got[w] \in JobId
          /\ status[got[w]] \in {"pending", "failed"}
          /\ status[got[w]] = "pending" => replaced[got[w]] = 0
      BY <1>3
      DEF RejectPreset, Moves, ServeIInv, HoldsJobs, RejectedIsNew, FileFollowsWork, InJob
    <2> QED BY <1>0, <1>3, <2>1 DEF RejectPreset, OrIgnored, FailJob, SetStatus, qvars
  <1>4. CASE Prepare(w)
    BY <1>0, <1>4 DEF Prepare, StartJob, SetStatus, qvars
  <1>5. CASE Place(w)
    BY <1>0, <1>1, <1>5 DEF Place, Moves, Processing, qvars
  <1>6. CASE Record(w)
    BY <1>0, <1>1, <1>6 DEF Record, Moves, Processing, OrIgnored, CompleteJob, SetStatus, qvars
  <1>7. CASE Fail(w) \/ Skip(w)
    BY <1>0, <1>1, <1>7
    DEF Fail, Skip, Moves, Processing, OrIgnored, FailJob, SkipJob, SetStatus, qvars
  <1>8. CASE Abandon(w)
    BY <1>8 DEF Abandon, Moves, ServeIInv, Undisturbed
  <1>9. CASE AnalysisWaits(w) \/ AnalysisBegins(w) \/ BeginEncoding(w)
    BY <1>2, <1>9
    DEF AnalysisWaits, AnalysisBegins, BeginEncoding, ShowPhase, OrIgnored, UpdateJobPhase, qvars
  <1>10. CASE Exit(w) \/ PassGates(w) \/ PickJob(w) \/ Claim(w) \/ Release(w)
    BY <1>2, <1>10 DEF Exit, PassGates, PickJob, Claim, Release, qvars
  <1>11. CASE AnalysisContended(w) \/ TakeSlot(w) \/ AnalysisErrs(w) \/ AnalysisSkips(w)
              \/ AnalysisSelects(w) \/ RemuxSkips(w) \/ Finalize(w)
    BY <1>2, <1>11
    DEF AnalysisContended, TakeSlot, AnalysisErrs, AnalysisSkips, AnalysisSelects, RemuxSkips, Finalize, qvars
  <1> QED BY <1>3, <1>4, <1>5, <1>6, <1>7, <1>8, <1>9, <1>10, <1>11 DEF WorkerStep

\* So is every step of the serving pool.
LEMMA ServeJobStep ==
    ASSUME ServeIInv, [ServeNext]_vars, NEW j \in JobId
    PROVE  JobStep(j)
  <1>1. CASE \E w \in Worker : WorkerStep(w)
    BY <1>1, WorkerJobStep
  <1>2. CASE CreateNext
    <2> PICK n \in 1 .. MaxJobs : \E skipped \in SUBSET NewIds(n) : Create(n, skipped)
      BY <1>2 DEF CreateNext
    <2>1. PICK skipped \in SUBSET NewIds(n) : Create(n, skipped)
      OBVIOUS
    <2>2. NewIds(n) \subseteq JobId \ Present
      BY <2>1, NewIdsAreNew, MaxJobsAssumption DEF ServeIInv, QueueIInv, Create, AddJobs
    <2>3. \/ status'[j] = status[j]
          \/ status[j] = Absent /\ status'[j] \in {"pending", "skipped"}
      BY <2>1, <2>2 DEF Create, AddJobs, Present
    <2>4. replaced' = replaced
      BY <2>1 DEF Create
    <2> QED BY <2>3, <2>4 DEF JobStep, FilesOfJobs
  <1>3. CASE Stop \/ UNCHANGED vars \/ \E n \in 1 .. MaxAnalyses : SetAnalysisLimit(n)
    BY <1>3 DEF Stop, SetAnalysisLimit, vars, qvars, JobStep, FilesOfJobs
  <1> QED BY <1>1, <1>2, <1>3 DEF ServeNext, WorkNext

\* For any number of workers and jobs, the pool at work implements JobLifecycle: a
\* job that has ended is left alone, and its file is replaced once, while it runs,
\* if and only if it ends complete.
THEOREM ServeImplementsLifecycle == ServeSpec => KeepsLifecycle
  <1>1. PoolInit => Lifecycle!Init
    BY DEF PoolInit, QueueInit, Lifecycle!Init, FilesOfJobs, Absent
  <1>2. ServeIInv /\ [ServeNext]_vars => [Lifecycle!Next]_<<status, FilesOfJobs>>
    BY ServeJobStep
    DEF JobStep, Absent, Lifecycle!Next, Lifecycle!JobNext, Lifecycle!Arrives, Lifecycle!Starts,
        Lifecycle!Replaces, Lifecycle!Completes, Lifecycle!GivesUp
  <1> QED BY <1>1, <1>2, ServeInductiveInvariant, PTL
          DEF ServeSpec, KeepsLifecycle, Lifecycle!Spec

-----------------------------------------------------------------------------
(* One worker and no SmartShrink job, the default: the promise of Pause.   *)
(* Pause requeues a running job before it cancels it, so for a while the   *)
(* worker is busy with a job that waits in the queue.  That it then never  *)
(* records the job as cancelled needs that the job of a cancelled context  *)
(* is not running any more, and that needs that the worker Pause is about  *)
(* to interrupt starts no other job before: it is paused.                  *)

\* The pool Config.Workers gives by default, and no job to analyze.
OneByOne == Len(InitialWorkers) = 1 /\ SmartJobs = {}

Sole == InitialWorkers[1]

\* One goroutine, and nobody cancels its own context but Stop.
Alone ==
    /\ PoolMembers = {Sole} /\ Sole \in Worker
    /\ \A w \in Worker \ {Sole} : wpc[w] = "exited"
    /\ resizing.pc = "idle"
    /\ wcancelled = [w \in Worker |-> FALSE]
    /\ jcancelled \in [Worker -> BOOLEAN]

AtWork == {"encode", "place", "record", "fail", "skip"}

\* Where the one goroutine is, and what its job is: SmartShrink's places and the
\* cancellation are never reached, a claimed job waits, a job worked on is running
\* or was requeued.
WorkerIsFine ==
    /\ wpc[Sole] \in AtWork \cup {"top", "next", "claim", "prepare", "release", "exited"}
    /\ wpc[Sole] \in {"claim", "prepare"} => status[got[Sole]] = "pending"
    /\ wpc[Sole] \in AtWork => status[got[Sole]] \in {"pending", "running"}
    /\ jcancelled[Sole] => wpc[Sole] \in AtWork \cup {"release"} /\ status[got[Sole]] # "running"

\* A running job is worked on, or its worker let it go because the pool was stopped.
RunningIsHeld ==
    \A j \in JobId : status[j] = "running" =>
        \/ wpc[Sole] \in AtWork /\ got[Sole] = j
        \/ stopped /\ wpc[Sole] \in {"release", "top", "exited"}

\* While Pause is under way the queue is paused, what it collected are jobs of the
\* one worker, and from the requeue to jobDone the worker takes no other job.
PauseIsFine ==
    /\ pausing.pc \in {"idle", "collect", "pick", "cancel", "wait"}
    /\ pausing.pc # "idle" => paused
    /\ \A e \in pausing.todo : e.worker = Sole
    /\ pausing.pc \in {"cancel", "wait"} =>
           /\ pausing.target.worker = Sole /\ pausing.target.job \in JobId
           /\ status[pausing.target.job] # "running"
           /\ wpc[Sole] \notin {"next", "claim", "prepare"}

\* The output is in place once the worker is about to record it, and stays.
OutputIsFinal ==
    /\ replaced \in [JobId -> Nat]
    /\ \A j \in JobId :
           /\ replaced[j] <= 1
           /\ replaced[j] = 0 \/ status[j] = "complete" \/ (wpc[Sole] = "record" /\ got[Sole] = j)

CalmProps == WorkerIsFine /\ RunningIsHeld /\ PauseIsFine /\ OutputIsFinal /\ NeverCancelled

CalmIInv == OneByOne /\ QueueIInv /\ HoldsJobs /\ Alone /\ CalmProps

\* NewWorkerPool with one worker.
LEMMA PoolInitCalm == OneByOne /\ PoolInit => CalmIInv
  <1> SUFFICES ASSUME OneByOne, PoolInit PROVE CalmIInv
    OBVIOUS
  <1>1. QueueIInv /\ HoldsJobs
    BY QueueInitIInv, PoolInitHoldsJobs DEF PoolInit
  <1>2. PoolMembers = {Sole} /\ Sole \in Worker
    <2>1. Len(InitialWorkers) = 1 /\ InitialWorkers \in Seq(Worker) /\ pool = InitialWorkers
      BY PoolAssumptions DEF PoolInit, OneByOne
    <2>2. InitialWorkers[1] \in Worker /\ 1 .. Len(InitialWorkers) = {1}
      BY <2>1
    <2> QED BY <2>1, <2>2 DEF PoolMembers, Sole
  <1>3. Alone
    BY <1>2 DEF PoolInit, Alone
  <1>4. WorkerIsFine /\ PauseIsFine
    BY <1>2 DEF PoolInit, WorkerIsFine, PauseIsFine, AtWork
  <1>5. RunningIsHeld /\ OutputIsFinal /\ NeverCancelled
    BY <1>2 DEF PoolInit, QueueInit, RunningIsHeld, OutputIsFinal, NeverCancelled, Absent
  <1> QED BY <1>1, <1>3, <1>4, <1>5 DEF CalmIInv, CalmProps

\* What the steps below use of the invariant.
CalmTypes ==
    /\ status \in [JobId -> Status \cup {Absent}]
    /\ wpc \in [Worker -> Points] /\ got \in [Worker -> JobId \cup {NoJob}]
    /\ wpc[Sole] \in InJob \cup {"claim"} => got[Sole] \in JobId
    /\ Sole \in Worker

LEMMA CalmIsTyped == CalmIInv => CalmTypes
  BY DEF CalmIInv, CalmTypes, QueueIInv, QueueTypeOK, HoldsJobs, Alone

\* Only the one worker steps, and no step of it touches the pool.
LEMMA SoleSteps ==
    ASSUME CalmIInv, NEW w \in Worker, WorkerStep(w)
    PROVE  w = Sole /\ Alone' /\ stopped' = stopped
  <1> USE DEF Moves, wvars, cvars
  <1>0. wpc \in [Worker -> Points] /\ jcancelled \in [Worker -> BOOLEAN]
    BY DEF CalmIInv, HoldsJobs, Alone
  <1>1. \/ /\ wpc[w] # "exited" /\ \E to : wpc' = [wpc EXCEPT ![w] = to]
           /\ UNCHANGED <<stopped, pool, resizing, wcancelled>>
           /\ jcancelled' = jcancelled \/ jcancelled' = [jcancelled EXCEPT ![w] = FALSE]
    <2>1. CASE Exit(w) \/ PassGates(w) \/ Claim(w) \/ PickJob(w) \/ Release(w)
      BY <2>1 DEF Exit, PassGates, Claim, PickJob, Release
    <2>2. CASE RejectPreset(w) \/ Prepare(w)
      BY <2>2 DEF RejectPreset, Prepare
    <2>3. CASE AnalysisWaits(w) \/ AnalysisBegins(w) \/ BeginEncoding(w)
      BY <2>3 DEF AnalysisWaits, AnalysisBegins, BeginEncoding, ShowPhase
    <2>4. CASE AnalysisContended(w) \/ TakeSlot(w) \/ AnalysisErrs(w)
      BY <2>4 DEF AnalysisContended, TakeSlot, AnalysisErrs
    <2>5. CASE AnalysisSkips(w) \/ AnalysisSelects(w) \/ RemuxSkips(w)
      BY <2>5 DEF AnalysisSkips, AnalysisSelects, RemuxSkips
    <2>6. CASE Finalize(w) \/ Place(w)
      BY <2>6 DEF Finalize, Place
    <2>7. CASE Record(w) \/ Fail(w) \/ Skip(w) \/ Abandon(w)
      BY <2>7 DEF Record, Fail, Skip, Abandon
    <2> QED BY <2>1, <2>2, <2>3, <2>4, <2>5, <2>6, <2>7 DEF WorkerStep
  <1>2. w = Sole
    BY <1>1 DEF CalmIInv, Alone
  <1>3. (PoolMembers = {Sole})' /\ (Sole \in Worker)' /\ resizing'.pc = "idle"
    BY <1>1 DEF CalmIInv, Alone, PoolMembers, Sole
  <1>4. wcancelled' = [v \in Worker |-> FALSE] /\ jcancelled' \in [Worker -> BOOLEAN]
    BY <1>0, <1>1 DEF CalmIInv, Alone
  <1>5. \A v \in Worker \ {Sole} : wpc'[v] = "exited"
    BY <1>0, <1>1, <1>2 DEF CalmIInv, Alone
  <1>6. Alone'
    BY <1>3, <1>4, <1>5 DEF Alone, Sole
  <1> QED BY <1>1, <1>2, <1>6

\* The loop of the worker, between two jobs.
LEMMA SoleLoops ==
    ASSUME CalmIInv, Exit(Sole) \/ PassGates(Sole) \/ PickJob(Sole) \/ Claim(Sole) \/ Release(Sole)
    PROVE  CalmProps'
  <1>0. CalmTypes /\ CalmProps /\ jcancelled \in [Worker -> BOOLEAN]
    BY CalmIsTyped DEF CalmIInv, Alone
  <1>s. wcancelled[Sole] = FALSE
    BY DEF CalmIInv, Alone
  <1> USE <1>0, <1>s
      DEF CalmTypes, CalmProps, WorkerIsFine, RunningIsHeld, PauseIsFine, OutputIsFinal,
          NeverCancelled, Moves, AtWork, qvars, cvars
  <1>1. CASE Exit(Sole)
    BY <1>1 DEF Exit, CtxDone
  <1>2. CASE PassGates(Sole)
    BY <1>2 DEF PassGates, CtxDone
  <1>3. CASE PickJob(Sole)
    BY <1>3 DEF PickJob, IsNext
  <1>4. CASE Claim(Sole)
    BY <1>4 DEF Claim
  <1>5. CASE Release(Sole)
    BY <1>5 DEF Release
  <1> QED BY <1>1, <1>2, <1>3, <1>4, <1>5

\* What the worker does to its job.
LEMMA SoleWorks ==
    ASSUME CalmIInv, WorkerStep(Sole),
           ~(Exit(Sole) \/ PassGates(Sole) \/ PickJob(Sole) \/ Claim(Sole) \/ Release(Sole))
    PROVE  CalmProps'
  <1>0. CalmTypes /\ CalmProps
    BY CalmIsTyped DEF CalmIInv
  <1>s. wcancelled[Sole] = FALSE /\ SmartJobs = {}
    BY CalmIsTyped DEF CalmIInv, Alone, OneByOne, CalmTypes
  <1> USE <1>0, <1>s
      DEF CalmTypes, CalmProps, WorkerIsFine, RunningIsHeld, PauseIsFine, OutputIsFinal,
          NeverCancelled, Moves, AtWork, qvars, wvars, cvars, InJob, Processing
  <1>1. CASE RejectPreset(Sole)
    BY <1>1 DEF RejectPreset, OrIgnored, FailJob, SetStatus
  <1>2. CASE Prepare(Sole)
    BY <1>2 DEF Prepare, StartJob, SetStatus
  <1>3. CASE RemuxSkips(Sole)
    BY <1>3 DEF RemuxSkips
  <1>4. CASE Finalize(Sole)
    BY <1>4 DEF Finalize, JobCtxDone, CtxDone
  <1>5. CASE Place(Sole)
    BY <1>5 DEF Place
  <1>6. CASE Record(Sole)
    BY <1>6 DEF Record, OrIgnored, CompleteJob, SetStatus, Present, Absent
  <1>7. CASE Fail(Sole)
    BY <1>7 DEF Fail, OrIgnored, FailJob, SetStatus, Present, Absent
  <1>8. CASE Skip(Sole)
    BY <1>8 DEF Skip, OrIgnored, SkipJob, SetStatus
  <1>9. CASE AnalysisContended(Sole) \/ AnalysisWaits(Sole) \/ TakeSlot(Sole) \/ AnalysisBegins(Sole)
             \/ AnalysisErrs(Sole) \/ AnalysisSkips(Sole) \/ AnalysisSelects(Sole)
             \/ BeginEncoding(Sole) \/ Abandon(Sole)
    BY <1>9
    DEF AnalysisContended, AnalysisWaits, TakeSlot, AnalysisBegins, AnalysisErrs, AnalysisSkips,
        AnalysisSelects, BeginEncoding, Abandon
  <1> QED BY <1>1, <1>2, <1>3, <1>4, <1>5, <1>6, <1>7, <1>8, <1>9 DEF WorkerStep

\* The steps of Pause.
LEMMA PauseCalm ==
    ASSUME CalmIInv, CalmPauseNext
    PROVE  Alone' /\ CalmProps'
  <1>0. CalmTypes /\ CalmProps /\ Alone /\ HoldsJobs
    BY CalmIsTyped DEF CalmIInv
  <1>p. /\ pausing = [pc |-> pausing.pc, todo |-> pausing.todo, target |-> pausing.target,
                      moved |-> pausing.moved]
        /\ \A e \in pausing.todo : e.job \in JobId
    BY <1>0 DEF HoldsJobs
  <1>a. ASSUME UNCHANGED <<pool, wpc, wcancelled, resizing>>, jcancelled' \in [Worker -> BOOLEAN]
        PROVE  Alone'
    BY <1>0, <1>a DEF Alone, PoolMembers, Sole
  <1>1. CASE PauseBegins
    <2>1. /\ pausing' = [pc |-> "collect", todo |-> pausing.todo, target |-> pausing.target,
                        moved |-> pausing'.moved]
          /\ paused' = TRUE
          /\ UNCHANGED <<status, wpc, got, jcancelled, wcancelled, stopped, pool, resizing, replaced>>
      BY <1>1, <1>p DEF PauseBegins, qvars, wvars
    <2>2. Alone'
      BY <1>a, <2>1, <1>0 DEF Alone
    <2>3. PauseIsFine'
      BY <1>0, <2>1 DEF CalmProps, PauseIsFine, Sole
    <2> QED BY <1>0, <2>1, <2>2, <2>3
            DEF CalmProps, WorkerIsFine, RunningIsHeld, OutputIsFinal, NeverCancelled, Sole
  <1>2. CASE PauseCollects
    <2>1. /\ pausing' = [pc |-> "pick", todo |-> RunningJobs, target |-> pausing.target,
                        moved |-> pausing'.moved]
          /\ pausing.pc = "collect"
          /\ UNCHANGED <<status, wpc, got, jcancelled, wcancelled, paused, stopped, pool,
                         resizing, replaced>>
      BY <1>2, <1>p DEF PauseCollects, qvars, wvars
    <2>2. Alone'
      BY <1>a, <2>1, <1>0 DEF Alone
    <2>4. \A e \in RunningJobs : e.worker = Sole
      BY <1>0 DEF RunningJobs, Alone
    <2>3. PauseIsFine'
      BY <1>0, <2>1, <2>4 DEF CalmProps, PauseIsFine, Sole
    <2> QED BY <1>0, <2>1, <2>2, <2>3
            DEF CalmProps, WorkerIsFine, RunningIsHeld, OutputIsFinal, NeverCancelled, Sole
  <1>3. CASE PauseRequeues
    <2>0. /\ pausing.pc = "pick"
          /\ UNCHANGED <<wpc, got, jcancelled, wcancelled, paused, stopped, pool, resizing, replaced>>
      BY <1>3 DEF PauseRequeues, wvars
    <2>1. PICK e \in pausing.todo :
              /\ OrIgnored(Requeue(e.job), status[e.job] = "running")
              /\ pausing' = [pausing EXCEPT
                      !.todo = @ \ {e},
                      !.pc = IF status[e.job] = "running" THEN "cancel" ELSE "pick",
                      !.target = IF status[e.job] = "running" THEN e ELSE NoTarget,
                      !.moved = IF status[e.job] = "running" THEN @ \cup {e.job} ELSE @]
      BY <1>3 DEF PauseRequeues, Newest
    <2>2. e.job \in JobId /\ e.worker = Sole
      BY <1>0, <1>p DEF CalmProps, PauseIsFine
    <2>3. Alone'
      BY <1>a, <1>0, <2>0 DEF Alone
    <2>4. CASE status[e.job] = "running"
      <3>1. status' = [status EXCEPT ![e.job] = "pending"]
        BY <2>1, <2>4 DEF OrIgnored, Requeue, SetStatus
      <3>2. pausing' = [pc |-> "cancel", todo |-> pausing.todo \ {e}, target |-> e,
                        moved |-> pausing'.moved]
        BY <1>p, <2>1, <2>4
      <3>3. wpc[Sole] \notin {"next", "claim", "prepare"}
        BY <1>0, <2>2, <2>4 DEF CalmProps, RunningIsHeld, AtWork
      <3>4. \A j \in JobId : status'[j] = IF j = e.job THEN "pending" ELSE status[j]
        BY <1>0, <2>2, <3>1 DEF CalmTypes
      <3>5. PauseIsFine'
        BY <1>0, <2>0, <2>2, <3>2, <3>3, <3>4 DEF CalmProps, PauseIsFine, Sole
      <3>6. WorkerIsFine'
        BY <1>0, <2>0, <3>3, <3>4
        DEF CalmProps, WorkerIsFine, CalmTypes, Sole, AtWork, InJob, Processing
      <3>7. RunningIsHeld' /\ OutputIsFinal' /\ NeverCancelled'
        BY <1>0, <2>0, <2>4, <3>4 DEF CalmProps, RunningIsHeld, OutputIsFinal, NeverCancelled, Sole
      <3> QED BY <2>3, <3>5, <3>6, <3>7 DEF CalmProps
    <2>5. CASE status[e.job] # "running"
      <3>1. status' = status
        BY <2>1, <2>5 DEF OrIgnored, qvars
      <3>2. pausing' = [pc |-> "pick", todo |-> pausing.todo \ {e}, target |-> NoTarget,
                        moved |-> pausing'.moved]
        BY <1>p, <2>1, <2>5
      <3>3. PauseIsFine'
        BY <1>0, <2>0, <3>1, <3>2 DEF CalmProps, PauseIsFine, Sole
      <3> QED BY <1>0, <2>0, <2>3, <3>1, <3>3
              DEF CalmProps, WorkerIsFine, RunningIsHeld, OutputIsFinal, NeverCancelled, Sole
    <2> QED BY <2>4, <2>5
  <1>4. CASE PauseCancels
    <2>1. /\ pausing.pc = "cancel" /\ pausing.target.worker = Sole
          /\ UNCHANGED <<status, wpc, got, wcancelled, paused, stopped, pool, resizing, replaced>>
      BY <1>0, <1>4 DEF PauseCancels, CalmProps, PauseIsFine, qvars
    <2>2. CASE wpc[Sole] \in InJob /\ got[Sole] = pausing.target.job
      <3>1. /\ jcancelled' = [jcancelled EXCEPT ![Sole] = TRUE]
            /\ pausing' = [pc |-> "wait", todo |-> pausing.todo, target |-> pausing.target,
                        moved |-> pausing'.moved]
        BY <1>4, <1>p, <2>1, <2>2 DEF PauseCancels
      <3>2. Alone'
        BY <1>a, <1>0, <2>1, <3>1 DEF Alone
      <3>3. PauseIsFine'
        BY <1>0, <2>1, <3>1 DEF CalmProps, PauseIsFine, Sole
      <3>4. wpc[Sole] \in AtWork \cup {"release"} /\ status[got[Sole]] # "running"
        BY <1>0, <2>1, <2>2 DEF CalmProps, PauseIsFine, WorkerIsFine, AtWork, InJob, Processing
      <3>5. WorkerIsFine'
        BY <1>0, <2>1, <3>4 DEF CalmProps, WorkerIsFine, Sole
      <3> QED BY <1>0, <2>1, <3>2, <3>3, <3>5
              DEF CalmProps, RunningIsHeld, OutputIsFinal, NeverCancelled, Sole
    <2>3. CASE ~(wpc[Sole] \in InJob /\ got[Sole] = pausing.target.job)
      <3>1. /\ jcancelled' = jcancelled
            /\ pausing' = [pc |-> "pick", todo |-> pausing.todo, target |-> NoTarget,
                        moved |-> pausing'.moved]
        BY <1>4, <1>p, <2>1, <2>3 DEF PauseCancels
      <3>2. Alone'
        BY <1>a, <1>0, <2>1, <3>1 DEF Alone
      <3>3. PauseIsFine'
        BY <1>0, <2>1, <3>1 DEF CalmProps, PauseIsFine, Sole
      <3> QED BY <1>0, <2>1, <3>1, <3>2, <3>3
              DEF CalmProps, WorkerIsFine, RunningIsHeld, OutputIsFinal, NeverCancelled, Sole
    <2> QED BY <2>2, <2>3
  <1>5. CASE PauseReturns
    <2>1. /\ pausing' = [pc |-> "idle", todo |-> pausing.todo, target |-> pausing.target,
                        moved |-> pausing'.moved]
          /\ UNCHANGED <<status, wpc, got, jcancelled, wcancelled, stopped, pool, resizing, replaced>>
      BY <1>5, <1>p DEF PauseReturns, qvars, wvars
    <2>2. Alone'
      BY <1>a, <2>1, <1>0 DEF Alone
    <2>3. PauseIsFine'
      BY <1>0, <2>1 DEF CalmProps, PauseIsFine, Sole
    <2> QED BY <1>0, <2>1, <2>2, <2>3
            DEF CalmProps, WorkerIsFine, RunningIsHeld, OutputIsFinal, NeverCancelled, Sole
  <1>6. CASE pausing.pc = "idle" /\ Unpause
    <2>1. /\ pausing' = pausing /\ pausing.pc = "idle"
          /\ UNCHANGED <<status, wpc, got, jcancelled, wcancelled, stopped, pool, resizing, replaced>>
      BY <1>6 DEF Unpause, qvars, wvars
    <2>2. Alone'
      BY <1>a, <2>1, <1>0 DEF Alone
    <2>3. PauseIsFine'
      BY <1>0, <2>1 DEF CalmProps, PauseIsFine, Sole
    <2> QED BY <1>0, <2>1, <2>2, <2>3
            DEF CalmProps, WorkerIsFine, RunningIsHeld, OutputIsFinal, NeverCancelled, Sole
  <1> QED BY <1>1, <1>2, <1>3, <1>4, <1>5, <1>6 DEF CalmPauseNext, PauseStep

\* New jobs.
LEMMA CreateCalm ==
    ASSUME CalmIInv, CreateNext
    PROVE  Alone' /\ CalmProps'
  <1> PICK n \in 1 .. MaxJobs : \E skipped \in SUBSET NewIds(n) : Create(n, skipped)
    BY DEF CreateNext
  <1>1. PICK skipped \in SUBSET NewIds(n) : Create(n, skipped)
    OBVIOUS
  <1>2. NewIds(n) \subseteq JobId \ Present
    BY <1>1, NewIdsAreNew, MaxJobsAssumption DEF CalmIInv, QueueIInv, Create, AddJobs
  <1>3. /\ \A j \in JobId : \/ status'[j] = status[j]
                            \/ status[j] = Absent /\ status'[j] \in {"pending", "skipped"}
        /\ UNCHANGED <<wvars, cvars, replaced>>
    BY <1>1, <1>2 DEF Create, AddJobs, Present
  <1>4. CalmTypes /\ CalmProps /\ Alone
    BY CalmIsTyped DEF CalmIInv
  <1>5. Alone'
    BY <1>3, <1>4 DEF Alone, PoolMembers, wvars, cvars
  <1>6. WorkerIsFine' /\ RunningIsHeld'
    BY <1>3, <1>4
    DEF CalmTypes, CalmProps, WorkerIsFine, RunningIsHeld, AtWork, InJob, Processing, Absent, wvars, cvars
  <1>7. PauseIsFine' /\ OutputIsFinal' /\ NeverCancelled'
    BY <1>3, <1>4
    DEF CalmTypes, CalmProps, PauseIsFine, OutputIsFinal, NeverCancelled, Absent, wvars, cvars
  <1> QED BY <1>5, <1>6, <1>7 DEF CalmProps

\* Every step.
LEMMA CalmNextIInv == CalmIInv /\ [ServeNext \/ CalmPauseNext]_vars => CalmIInv'
  <1> SUFFICES ASSUME CalmIInv, [ServeNext \/ CalmPauseNext]_vars PROVE CalmIInv'
    OBVIOUS
  <1>1. [Next]_vars
    BY DEF Next, CalmPauseNext, PauseNext
  <1>2. QueueIInv' /\ HoldsJobs'
    BY <1>1, NextIsQueueNext, QueueNextIInv, NextHoldsJobs DEF CalmIInv
  <1>3. Alone' /\ CalmProps'
    <2>1. CASE \E w \in Worker : WorkerStep(w)
      BY <2>1, SoleSteps, SoleLoops, SoleWorks
    <2>2. CASE CreateNext
      BY <2>2, CreateCalm
    <2>3. CASE CalmPauseNext
      BY <2>3, PauseCalm
    <2>4. CASE Stop \/ UNCHANGED vars \/ \E n \in 1 .. MaxAnalyses : SetAnalysisLimit(n)
      <3>1. /\ UNCHANGED <<status, wpc, got, jcancelled, wcancelled, paused, pool, pausing, resizing,
                           replaced>>
            /\ stopped => stopped'
        BY <2>4 DEF Stop, SetAnalysisLimit, vars, qvars, wvars, cvars
      <3>2. Alone'
        BY <3>1 DEF CalmIInv, Alone, PoolMembers, Sole
      <3>3. WorkerIsFine' /\ RunningIsHeld'
        BY <3>1 DEF CalmIInv, CalmProps, WorkerIsFine, RunningIsHeld, Sole
      <3>4. PauseIsFine' /\ OutputIsFinal' /\ NeverCancelled'
        BY <3>1 DEF CalmIInv, CalmProps, PauseIsFine, OutputIsFinal, NeverCancelled, Sole
      <3> QED BY <3>2, <3>3, <3>4 DEF CalmProps
    <2> QED BY <2>1, <2>2, <2>3, <2>4 DEF ServeNext, WorkNext
  <1> QED BY <1>2, <1>3 DEF CalmIInv, OneByOne

\* With one worker and no SmartShrink job Pause, Unpause and Stop lose no job, cancel
\* none and have no file replaced twice, whatever the worker is doing meanwhile.
THEOREM PauseCorrect ==
    OneByOne => (CalmPauseSpec => [](RunningHasWorker /\ NeverCancelled /\ ReplacedOnce))
  <1>1. CalmIInv => RunningHasWorker /\ NeverCancelled /\ ReplacedOnce
    <2> SUFFICES ASSUME CalmIInv PROVE RunningHasWorker /\ NeverCancelled /\ ReplacedOnce
      OBVIOUS
    <2>1. RunningHasWorker
      BY DEF CalmIInv, CalmProps, Alone, RunningIsHeld, RunningHasWorker, WorksOn, AtWork, Processing
    <2>2. NeverCancelled /\ ReplacedOnce
      BY DEF CalmIInv, CalmProps, OutputIsFinal, ReplacedOnce
    <2> QED BY <2>1, <2>2
  <1> QED BY <1>1, PoolInitCalm, CalmNextIInv, PTL DEF CalmPauseSpec
=============================================================================
