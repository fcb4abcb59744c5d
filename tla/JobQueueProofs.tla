--------------------------- MODULE JobQueueProofs ---------------------------
(***************************************************************************)
(* Theorems about JobQueue, for every number of jobs.                      *)
(*                                                                         *)
(* The inductive invariant is the conjunction of the three invariants and  *)
(* of Unissued, which says that an id above lastId has not been used: with *)
(* it an added job is new, so it is related to no job before AddJobs and   *)
(* has no phase.                                                           *)
(***************************************************************************)
EXTENDS JobQueue, TLAPS

\* No job has an id that generateID has not returned yet.
Unissued == \A j \in JobId : j > lastId => status[j] = Absent

QueueIInv == QueueTypeOK /\ Unissued /\ OrderMatchesJobs /\ NoStalePhase

-----------------------------------------------------------------------------
\* The statuses, as a fact the provers can use without expanding the sets.
LEMMA StatusFacts ==
    /\ Terminal \subseteq Status
    /\ "pending" \in Status \ Terminal
    /\ "running" \in Status \ Terminal
    /\ "complete" \in Terminal /\ "failed" \in Terminal
    /\ "cancelled" \in Terminal /\ "skipped" \in Terminal
    /\ Absent \notin Status
    /\ NoPhase \in Phase
  BY DEF Terminal, Status, Absent, NoPhase, Phase

\* Setting the status of a job that is present to one that is not Absent
\* leaves the set of present jobs, and so the order, alone.
LEMMA SetStatusKeepsPresent ==
    ASSUME QueueTypeOK, NEW j \in Present, NEW s \in Status, SetStatus(j, s)
    PROVE  Present' = Present
  BY StatusFacts DEF QueueTypeOK, Present, SetStatus

\* The new ids of AddJobs are job ids, and none of them is present.
LEMMA NewIdsAreNew ==
    ASSUME QueueTypeOK, Unissued, NEW n \in Nat, lastId + n <= MaxJobs
    PROVE  NewIds(n) \subseteq JobId \ Present
  BY MaxJobsAssumption DEF QueueTypeOK, Unissued, NewIds, JobId, Present

\* The empty queue satisfies the inductive invariant.
LEMMA QueueInitIInv == QueueInit => QueueIInv
  BY StatusFacts, MaxJobsAssumption
  DEF QueueInit, QueueIInv, QueueTypeOK, Unissued, OrderMatchesJobs, NoStalePhase, Present, JobId

-----------------------------------------------------------------------------
\* A step that changes the status of one present job, neither to Absent nor
\* to a state that must have no phase, and nothing else.
LEMMA SetStatusStep ==
    ASSUME QueueIInv, NEW j \in Present, NEW s \in Status \ {"pending", "skipped"},
           SetStatus(j, s), UNCHANGED <<phase, order, lastId>>
    PROVE  QueueIInv'
  <1>1. Present' = Present
    BY SetStatusKeepsPresent DEF QueueIInv
  <1>2. j \in JobId /\ status[j] # Absent
    BY DEF Present
  <1>3. QueueTypeOK'
    BY <1>2 DEF QueueIInv, QueueTypeOK, SetStatus
  <1>4. Unissued'
    BY <1>2 DEF QueueIInv, Unissued, QueueTypeOK, SetStatus
  <1>5. OrderMatchesJobs'
    BY <1>1 DEF QueueIInv, OrderMatchesJobs
  <1>6. NoStalePhase'
    BY <1>2, StatusFacts DEF QueueIInv, NoStalePhase, QueueTypeOK, SetStatus
  <1> QED BY <1>3, <1>4, <1>5, <1>6 DEF QueueIInv

\* Deleting any set of jobs, as Remove and Clear do, keeps the inductive invariant.
LEMMA DeleteStep ==
    ASSUME QueueIInv, NEW S \in SUBSET JobId, Delete(S)
    PROVE  QueueIInv'
  <1>1. Present' = Present \ S
    BY DEF Delete, Present, QueueIInv, QueueTypeOK
  <1>2. QueueTypeOK'
    BY StatusFacts DEF QueueIInv, QueueTypeOK, Delete, Without
  <1>3. Unissued'
    BY DEF QueueIInv, Unissued, Delete
  <1>4. OrderMatchesJobs'
    <2>1. \A a, b \in JobId : <<a, b>> \in order' <=> <<a, b>> \in order /\ a \notin S /\ b \notin S
      BY DEF Delete, Without
    <2>2. Present \subseteq JobId
      BY DEF Present
    <2> QED BY <1>1, <2>1, <2>2 DEF QueueIInv, OrderMatchesJobs
  <1>5. NoStalePhase'
    BY DEF QueueIInv, NoStalePhase, Delete
  <1> QED BY <1>2, <1>3, <1>4, <1>5 DEF QueueIInv

\* Add and AddMultiple keep the inductive invariant: the new jobs go behind all others.
LEMMA AddJobsStep ==
    ASSUME QueueIInv, NEW n \in Nat, NEW skipped \in SUBSET NewIds(n), AddJobs(n, skipped)
    PROVE  QueueIInv'
  <1> DEFINE New == NewIds(n)
  <1>1. New \subseteq JobId \ Present
    BY NewIdsAreNew DEF QueueIInv, AddJobs
  <1>2. QueueTypeOK'
    BY <1>1, StatusFacts, MaxJobsAssumption
    DEF QueueIInv, QueueTypeOK, AddJobs, Appended, NewIds, Present
  <1>3. Unissued'
    BY <1>1 DEF QueueIInv, QueueTypeOK, Unissued, AddJobs, NewIds, JobId
  <1>4. Present' = Present \cup New
    BY <1>1, StatusFacts DEF AddJobs, Present
  <1>5. OrderMatchesJobs'
    <2>1. \A a, b \in JobId :
             <<a, b>> \in order' <=> \/ <<a, b>> \in order
                                     \/ a \in Present /\ b \in New
                                     \/ a \in New /\ b \in New /\ a < b
      BY DEF AddJobs, Appended
    <2>2. Present \subseteq JobId /\ New \subseteq JobId /\ Present \cap New = {}
      BY <1>1 DEF Present
    <2>3. \A a, b \in JobId : <<a, b>> \in order => a \in Present /\ b \in Present /\ a # b
      BY DEF QueueIInv, OrderMatchesJobs
    <2>4. \A a, b \in New : a # b => (a < b) # (b < a)
      BY <2>2 DEF JobId
    <2>5. \A a, b \in JobId : <<a, b>> \in order' => a \in Present' /\ b \in Present' /\ a # b
      BY <1>4, <2>1, <2>2, <2>3 DEF JobId
    <2>6. \A a, b \in Present' : a # b => (<<a, b>> \in order') # (<<b, a>> \in order')
      <3> SUFFICES ASSUME NEW a \in Present', NEW b \in Present', a # b
                   PROVE  (<<a, b>> \in order') # (<<b, a>> \in order')
        OBVIOUS
      <3>1. CASE a \in Present /\ b \in Present
        <4>1. (<<a, b>> \in order) # (<<b, a>> \in order)
          BY <3>1 DEF QueueIInv, OrderMatchesJobs
        <4> QED BY <3>1, <4>1, <2>1, <2>2
      <3>2. CASE a \in New /\ b \in New
        BY <3>2, <2>1, <2>2, <2>3, <2>4
      <3>3. CASE a \in Present /\ b \in New
        BY <3>3, <2>1, <2>2, <2>3
      <3>4. CASE a \in New /\ b \in Present
        BY <3>4, <2>1, <2>2, <2>3
      <3> QED BY <1>4, <3>1, <3>2, <3>3, <3>4
    <2>7. \A a, b, c \in Present' :
             <<a, b>> \in order' /\ <<b, c>> \in order' => <<a, c>> \in order'
      BY <1>4, <2>1, <2>2, <2>3 DEF QueueIInv, OrderMatchesJobs, JobId
    <2> QED BY <2>5, <2>6, <2>7 DEF OrderMatchesJobs
  <1>6. NoStalePhase'
    BY <1>1 DEF QueueIInv, NoStalePhase, AddJobs, Present
  <1> QED BY <1>2, <1>3, <1>5, <1>6 DEF QueueIInv

\* Requeue keeps the inductive invariant: the job goes before all others.
LEMMA RequeueStep ==
    ASSUME QueueIInv, NEW j \in JobId, Requeue(j)
    PROVE  QueueIInv'
  <1>1. j \in Present
    BY StatusFacts DEF Requeue, Present
  <1>2. Present' = Present
    BY <1>1, SetStatusKeepsPresent, StatusFacts DEF QueueIInv, Requeue
  <1>3. QueueTypeOK'
    BY StatusFacts DEF QueueIInv, QueueTypeOK, Requeue, SetStatus, MovedToFront, Without, Present
  <1>4. Unissued'
    BY <1>1 DEF QueueIInv, QueueTypeOK, Unissued, Requeue, SetStatus, Present
  <1>5. OrderMatchesJobs'
    <2>1. \A a, b \in JobId :
             <<a, b>> \in order' <=> \/ <<a, b>> \in order /\ a # j /\ b # j
                                     \/ a = j /\ b \in Present /\ b # j
      BY DEF Requeue, MovedToFront, Without
    <2>2. Present \subseteq JobId
      BY DEF Present
    <2> QED BY <1>1, <1>2, <2>1, <2>2 DEF QueueIInv, OrderMatchesJobs
  <1>6. NoStalePhase'
    BY DEF QueueIInv, QueueTypeOK, NoStalePhase, Requeue, SetStatus
  <1> QED BY <1>3, <1>4, <1>5, <1>6 DEF QueueIInv

-----------------------------------------------------------------------------
\* Every step of the queue keeps the inductive invariant: one case per method.
LEMMA QueueNextIInv == QueueIInv /\ [QueueNext]_qvars => QueueIInv'
  <1> SUFFICES ASSUME QueueIInv, [QueueNext]_qvars PROVE QueueIInv'
    OBVIOUS
  <1>0. MaxJobs \in Nat /\ \A j \in JobId : status[j] \in Status => j \in Present
    BY MaxJobsAssumption, StatusFacts DEF Present
  <1>1. CASE \E n \in 1 .. MaxJobs : \E skipped \in SUBSET NewIds(n) : AddJobs(n, skipped)
    BY <1>0, <1>1, AddJobsStep
  <1>2. CASE \E j \in JobId : StartJob(j)
    BY <1>0, <1>2, SetStatusStep, StatusFacts DEF StartJob
  <1>3. CASE \E j \in JobId : CompleteJob(j)
    BY <1>3, SetStatusStep, StatusFacts DEF CompleteJob
  <1>4. CASE \E j \in JobId : FailJob(j)
    BY <1>4, SetStatusStep, StatusFacts DEF FailJob
  <1>5. CASE \E j \in JobId : SkipJob(j)
    <2> SUFFICES ASSUME NEW j \in JobId, SkipJob(j) PROVE QueueIInv'
      BY <1>5
    <2>1. j \in Present
      BY StatusFacts DEF SkipJob, Present
    <2>2. Present' = Present
      BY <2>1, SetStatusKeepsPresent, StatusFacts DEF QueueIInv, SkipJob
    <2>3. QueueTypeOK' /\ Unissued' /\ NoStalePhase'
      BY <2>1, StatusFacts
      DEF QueueIInv, QueueTypeOK, Unissued, NoStalePhase, SkipJob, SetStatus, Present
    <2> QED BY <2>2, <2>3 DEF QueueIInv, OrderMatchesJobs, SkipJob
  <1>6. CASE \E j \in JobId, ph \in Phase \ {NoPhase} : UpdateJobPhase(j, ph)
    BY <1>6, StatusFacts
    DEF QueueIInv, QueueTypeOK, Unissued, OrderMatchesJobs, NoStalePhase, UpdateJobPhase, Present, Absent
  <1>7. CASE \E j \in JobId : CancelJob(j)
    BY <1>7, SetStatusStep, StatusFacts DEF CancelJob
  <1>8. CASE \E j \in JobId : Requeue(j)
    BY <1>8, RequeueStep
  <1>9. CASE \E f \in ClearFilters : Clear(f)
    <2> SUFFICES ASSUME NEW f, Clear(f) PROVE QueueIInv'
      BY <1>9
    <2>1. Cleared(f) \in SUBSET JobId
      BY DEF Cleared, Present
    <2> QED BY <2>1, DeleteStep DEF Clear
  <1>10. CASE \E j \in JobId : Remove(j)
    <2> SUFFICES ASSUME NEW j \in JobId, Remove(j) PROVE QueueIInv'
      BY <1>10
    <2>1. {j} \in SUBSET JobId
      OBVIOUS
    <2> QED BY <2>1, DeleteStep DEF Remove
  <1>11. CASE UNCHANGED qvars
    BY <1>11
    DEF qvars, QueueIInv, QueueTypeOK, Unissued, OrderMatchesJobs, NoStalePhase, Present
  <1> QED BY <1>1, <1>2, <1>3, <1>4, <1>5, <1>6, <1>7, <1>8, <1>9, <1>10, <1>11
          DEF QueueNext

\* Types, order and phases are right after any sequence of the methods of Queue.
THEOREM QueueInductiveInvariant == QueueSpec => []QueueIInv
  BY QueueInitIInv, QueueNextIInv, PTL DEF QueueSpec

\* The types of the queue's state hold in every reachable state.
THEOREM QueueTypeCorrect == QueueSpec => []QueueTypeOK
  BY QueueInductiveInvariant, PTL DEF QueueIInv

\* However jobs are added, requeued, cleared and removed, q.order and q.jobs
\* describe the same jobs and the order is total.
THEOREM OrderCorrect == QueueSpec => []OrderMatchesJobs
  BY QueueInductiveInvariant, PTL DEF QueueIInv

\* No waiting or skipped job shows a phase of an earlier run.
THEOREM PhaseCorrect == QueueSpec => []NoStalePhase
  BY QueueInductiveInvariant, PTL DEF QueueIInv

-----------------------------------------------------------------------------
\* What a step of the queue never does, whoever calls it.
LEMMA TerminalStep ==
    ASSUME QueueIInv, [QueueNext]_qvars, NEW k \in JobId, status[k] \in Terminal
    PROVE  status'[k] \in Terminal \cup {Absent}
  <1>1. status \in [JobId -> Status \cup {Absent}]
    BY DEF QueueIInv, QueueTypeOK
  <1>2. ASSUME NEW n \in 1 .. MaxJobs, NEW skipped \in SUBSET NewIds(n), AddJobs(n, skipped)
        PROVE  status'[k] = status[k]
    <2>1. k \in Present
      BY StatusFacts DEF Present
    <2>2. NewIds(n) \subseteq JobId \ Present
      BY <1>2, NewIdsAreNew, MaxJobsAssumption DEF QueueIInv, AddJobs
    <2> QED BY <1>2, <2>1, <2>2 DEF AddJobs
  <1>3. \A S : Delete(S) => status'[k] \in {status[k], Absent}
    BY DEF Delete
  <1> QED BY <1>1, <1>2, <1>3, StatusFacts
          DEF QueueNext, qvars, StartJob, CompleteJob, FailJob, SkipJob, UpdateJobPhase,
              CancelJob, Requeue, Clear, Remove, SetStatus

\* No sequence of calls makes a finished job pending or running again.
THEOREM TerminalIsForGood == QueueSpec => TerminalNeverReactivated
  <1>1. QueueIInv /\ [QueueNext]_qvars =>
          [\A j \in JobId : status[j] \in Terminal => status'[j] \in Terminal \cup {Absent}]_qvars
    BY TerminalStep
  <1> QED BY <1>1, QueueInductiveInvariant, PTL DEF QueueSpec, TerminalNeverReactivated

\* No single method but Requeue lets a job pass another.
LEMMA OvertakingStep ==
    ASSUME QueueIInv, [QueueNext]_qvars, NEW a \in JobId, NEW b \in JobId,
           status'[a] # Absent, status'[b] # Absent,
           <<a, b>> \in order \/ (a \in Present /\ b \notin Present)
    PROVE  <<a, b>> \in order' \/ Requeued(b)
  <1>1. CASE \E n \in 1 .. MaxJobs : \E skipped \in SUBSET NewIds(n) : AddJobs(n, skipped)
    <2> SUFFICES ASSUME NEW n \in 1 .. MaxJobs, NEW skipped \in SUBSET NewIds(n),
                        AddJobs(n, skipped)
                 PROVE  <<a, b>> \in order'
      BY <1>1
    <2>1. b \notin Present => b \in NewIds(n)
      BY DEF AddJobs, Present
    <2> QED BY <2>1 DEF AddJobs, Appended
  <1>2. CASE \E j \in JobId : Requeue(j)
    <2> SUFFICES ASSUME NEW j \in JobId, Requeue(j)
                 PROVE  <<a, b>> \in order' \/ Requeued(b)
      BY <1>2
    <2>1. status \in [JobId -> Status \cup {Absent}] /\ j \in Present
      BY StatusFacts DEF QueueIInv, QueueTypeOK, Requeue, Present
    <2>2. <<a, b>> \in order /\ a # b
      BY <2>1 DEF QueueIInv, OrderMatchesJobs, Requeue, SetStatus, Present
    <2>3. CASE b = j
      BY <2>1, <2>3 DEF Requeue, SetStatus, Requeued
    <2>4. CASE b # j /\ a = j
      BY <2>2, <2>4 DEF Requeue, MovedToFront, QueueIInv, OrderMatchesJobs
    <2>5. CASE b # j /\ a # j
      BY <2>2, <2>5 DEF Requeue, MovedToFront, Without
    <2> QED BY <2>3, <2>4, <2>5
  <1>3. ASSUME NEW S, Delete(S) PROVE <<a, b>> \in order'
    <2>1. a \notin S /\ b \notin S /\ b \in Present
      BY <1>3 DEF Delete, Present
    <2> QED BY <1>3, <2>1 DEF Delete, Without
  <1>4. (b \notin Present) => status[b] = Absent
    BY DEF Present
  <1>5. CASE UNCHANGED order /\ (status[b] = Absent => status'[b] = Absent)
    BY <1>4, <1>5
  <1>6. status \in [JobId -> Status \cup {Absent}]
    BY DEF QueueIInv, QueueTypeOK
  <1> QED BY <1>1, <1>2, <1>3, <1>5, <1>6, StatusFacts
          DEF QueueNext, qvars, StartJob, CompleteJob, FailJob, SkipJob, UpdateJobPhase,
              CancelJob, Clear, Remove, SetStatus, Present

\* A job passes another only in the step that requeues it.
THEOREM FirstInFirstOut == QueueSpec => NoOvertaking
  <1>1. QueueIInv /\ [QueueNext]_qvars =>
          [\A a, b \in JobId :
              /\ status'[a] # Absent
              /\ status'[b] # Absent
              /\ <<a, b>> \in order \/ (a \in Present /\ b \notin Present)
              => <<a, b>> \in order' \/ Requeued(b)]_qvars
    BY OvertakingStep
  <1> QED BY <1>1, QueueInductiveInvariant, PTL DEF QueueSpec, NoOvertaking
=============================================================================
