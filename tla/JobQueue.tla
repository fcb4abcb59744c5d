------------------------------ MODULE JobQueue ------------------------------
(***************************************************************************)
(* The in-memory job queue of internal/jobs/queue.go.                      *)
(*                                                                         *)
(* Every method of Queue takes q.mu for its whole body, so each one is a   *)
(* single action here.  A method that returns an error changes nothing:    *)
(* its error path is the action being disabled, and a caller that goes on  *)
(* after the error says so itself (see WorkerPool).                        *)
(*                                                                         *)
(* Data.  A job is its id; ids grow with creation time, as generateID      *)
(* makes them.  q.jobs is the function status, with Absent for an id that  *)
(* is not a key of the map.  q.order, a slice that holds each job once, is *)
(* the strict order of the jobs in it: <<a, b>> \in order when a comes     *)
(* before b.  Sizes, progress, paths and timestamps are left out; the      *)
(* store writes of the same methods are in DurableQueue.                   *)
(***************************************************************************)
EXTENDS Naturals

CONSTANT MaxJobs    \* how many ids generateID may hand out in a behaviour

ASSUME MaxJobsAssumption == MaxJobs \in Nat

JobId    == 1 .. MaxJobs
Terminal == {"complete", "failed", "cancelled", "skipped"}
Status   == {"pending", "running"} \cup Terminal
Absent   == "absent"
NoPhase  == ""
Phase    == {NoPhase, "waiting_analysis", "analyzing", "encoding"}

VARIABLES
    status,     \* [JobId -> Status or Absent]: Job.Status of the jobs in q.jobs
    phase,      \* [JobId -> Phase]: Job.Phase
    order,      \* q.order, as the set of pairs <<earlier, later>>
    lastId      \* the largest id generateID has returned

qvars == <<status, phase, order, lastId>>

Present == {j \in JobId : status[j] # Absent}

-----------------------------------------------------------------------------
(* Operations on the order.                                                *)

\* The order without the jobs of S.
Without(S) == {p \in order : p[1] \notin S /\ p[2] \notin S}

\* Mutant: a job that is put back waits behind all others.
MovedToBack(j) == Without({j}) \cup {<<k, j>> : k \in Present \ {j}}

\* The order with job j moved to the front.
MovedToFront(j) == Without({j}) \cup {<<j, k>> : k \in Present \ {j}}

\* The order with the jobs of S, which are new, appended by increasing id.
Appended(S) ==
    order \cup (Present \X S) \cup {p \in S \X S : p[1] < p[2]}

\* Mutant: GetNext looks at the head of the order only.
IsNextAtHead(j) ==
    /\ status[j] = "pending"
    /\ \A k \in Present \ {j} : <<j, k>> \in order

\* j is the first pending job in the order: what GetNext returns.
IsNext(j) ==
    /\ status[j] = "pending"
    /\ \A k \in JobId \ {j} : status[k] = "pending" => <<j, k>> \in order

\* GetNext returns nil.
NoNext == \A j \in JobId : status[j] # "pending"

-----------------------------------------------------------------------------
QueueInit ==
    /\ status = [j \in JobId |-> Absent]
    /\ phase = [j \in JobId |-> NoPhase]
    /\ order = {}
    /\ lastId = 0

\* Mutant: the counter is read before it is incremented.
NewIdsTooLow(n) == lastId .. lastId + n

\* The ids of the next n jobs.
NewIds(n) == lastId + 1 .. lastId + n

\* AddMultiple creates n jobs at once, Add is the case n = 1.  The jobs of
\* skipped failed the codec or resolution test and are born terminal.
AddJobs(n, skipped) ==
    /\ lastId + n <= MaxJobs
    /\ skipped \subseteq NewIds(n)
    /\ status' = [j \in JobId |-> IF j \in skipped THEN "skipped"
                                  ELSE IF j \in NewIds(n) THEN "pending"
                                  ELSE status[j]]
    /\ order' = Appended(NewIds(n))
    /\ lastId' = lastId + n
    /\ UNCHANGED phase

SetStatus(j, s) == status' = [status EXCEPT ![j] = s]

StartJob(j) ==
    /\ status[j] = "pending"
    /\ SetStatus(j, "running")
    /\ UNCHANGED <<phase, order, lastId>>

\* CompleteJob and FailJob only ask that the job exists.
CompleteJob(j) ==
    /\ j \in Present
    /\ SetStatus(j, "complete")
    /\ UNCHANGED <<phase, order, lastId>>

FailJob(j) ==
    /\ j \in Present
    /\ SetStatus(j, "failed")
    /\ UNCHANGED <<phase, order, lastId>>

SkipJob(j) ==
    /\ status[j] = "running"
    /\ SetStatus(j, "skipped")
    /\ phase' = [phase EXCEPT ![j] = NoPhase]
    /\ UNCHANGED <<order, lastId>>

UpdateJobPhase(j, ph) ==
    /\ status[j] = "running"
    /\ phase' = [phase EXCEPT ![j] = ph]
    /\ UNCHANGED <<status, order, lastId>>

CancelJob(j) ==
    /\ j \in Present
    /\ status[j] \notin Terminal
    /\ SetStatus(j, "cancelled")
    /\ UNCHANGED <<phase, order, lastId>>

Requeue(j) ==
    /\ status[j] = "running"
    /\ SetStatus(j, "pending")
    /\ phase' = [phase EXCEPT ![j] = NoPhase]
    /\ order' = MovedToFront(j)
    /\ UNCHANGED lastId

\* Deleting jobs: from the map, with their fields, and from the order.
Delete(S) ==
    /\ status' = [j \in JobId |-> IF j \in S THEN Absent ELSE status[j]]
    /\ phase' = [j \in JobId |-> IF j \in S THEN NoPhase ELSE phase[j]]
    /\ order' = Without(S)
    /\ UNCHANGED lastId

\* Clear with the status filter given; the empty filter stands for every
\* status.  Running jobs stay whatever the filter is.
Cleared(filter) ==
    {j \in Present : status[j] # "running" /\ status[j] \in filter}

Clear(filter) == Delete(Cleared(filter))

\* Remove deletes whatever the status is.
Remove(j) == Delete({j})

ClearFilters == {{s} : s \in Status} \cup {Status}

QueueNext ==
    \/ \E n \in 1 .. MaxJobs : \E skipped \in SUBSET NewIds(n) : AddJobs(n, skipped)
    \/ \E j \in JobId : StartJob(j)
    \/ \E j \in JobId : CompleteJob(j)
    \/ \E j \in JobId : FailJob(j)
    \/ \E j \in JobId : SkipJob(j)
    \/ \E j \in JobId, ph \in Phase \ {NoPhase} : UpdateJobPhase(j, ph)
    \/ \E j \in JobId : CancelJob(j)
    \/ \E j \in JobId : Requeue(j)
    \/ \E f \in ClearFilters : Clear(f)
    \/ \E j \in JobId : Remove(j)

QueueSpec == QueueInit /\ [][QueueNext]_qvars

-----------------------------------------------------------------------------
(* Properties.                                                             *)

\* Types of the queue's state.
QueueTypeOK ==
    /\ status \in [JobId -> Status \cup {Absent}]
    /\ phase \in [JobId -> Phase]
    /\ order \subseteq JobId \X JobId
    /\ lastId \in 0 .. MaxJobs

\* The order and the job map describe the same jobs, whatever the sequence of
\* additions, requeues, clears and removals: the order relates exactly the
\* jobs of the map, never a job to itself, any two of them one way, and
\* transitively.  It is why GetNext, Clear and GetAll, which walk q.order and
\* look ids up in q.jobs, miss no job and see none twice.
OrderMatchesJobs ==
    /\ \A a, b \in JobId : <<a, b>> \in order => a \in Present /\ b \in Present /\ a # b
    /\ \A a, b \in Present : a # b => (<<a, b>> \in order) # (<<b, a>> \in order)
    /\ \A a, b, c \in Present :
          <<a, b>> \in order /\ <<b, c>> \in order => <<a, c>> \in order

\* A job waiting in the queue, or skipped, shows no SmartShrink phase left by
\* an earlier run: Requeue and SkipJob clear it, and UpdateJobPhase refuses a
\* job that is not running, however late the call of an interrupted worker is.
NoStalePhase ==
    \A j \in JobId : status[j] \in {"pending", "skipped", Absent} => phase[j] = NoPhase

\* Once a job is in a terminal state nothing makes it pending or running again.
\* CompleteJob and FailJob may still replace one terminal state by another.
TerminalNeverReactivated ==
    [][\A j \in JobId : status[j] \in Terminal => status'[j] \in Terminal \cup {Absent}]_qvars

\* j goes back to the queue in this step.
Requeued(j) == status[j] = "running" /\ status'[j] = "pending"

\* The queue is first in first out but for requeues: a job passes another only
\* in the step that requeues it, and a new job goes behind all that are there.
NoOvertaking ==
    [][\A a, b \in JobId :
          /\ status'[a] # Absent
          /\ status'[b] # Absent
          /\ <<a, b>> \in order \/ (a \in Present /\ b \notin Present)
          => <<a, b>> \in order' \/ Requeued(b)]_qvars
=============================================================================
