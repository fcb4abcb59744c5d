---------------------------- MODULE DurableQueue ----------------------------
(***************************************************************************)
(* The queue of internal/jobs/queue.go with its database behind it         *)
(* (internal/store/sqlite.go), through failed writes, crashes and the      *)
(* recovery of store.InitStore and NewQueueWithStore.                      *)
(*                                                                         *)
(* A method of Queue changes memory and then, still under q.mu, makes one  *)
(* or more calls of the store (Clear and Remove make theirs first, which   *)
(* no one can tell: a crash takes the memory with it).  Each call is one   *)
(* transaction: it happens, or fails, or the program dies first.  An error *)
(* is logged and the method goes on.  writes is the list of calls the      *)
(* method has still to make, and no other method runs before it is empty.  *)
(*                                                                         *)
(* The lifetime and session counters of bytes saved are sums; what the     *)
(* properties ask is whose saving is in a sum and how often, so a counter  *)
(* is kept as the number of times each job was added to it.                *)
(*                                                                         *)
(* How the program starts, and the initial states, are in Startup.         *)
(*                                                                         *)
(* PRAGMA foreign_keys is set on one connection of the pool and is off on  *)
(* every other one database/sql may open, so each statement that depends   *)
(* on it may run with or without it.                                       *)
(***************************************************************************)
EXTENDS JobQueue, Sequences, FiniteSets

CONSTANTS
    MaxFailures,    \* bound on the writes that fail in a behaviour
    MaxCounted,     \* beyond it a counter does not tell how often a job was added
    Shrinking       \* the jobs whose output is smaller than their input

ASSUME DurableAssumptions ==
    /\ MaxFailures \in Nat
    /\ MaxCounted \in Nat \ {0}
    /\ Shrinking \subseteq JobId

VARIABLES
    row,        \* [JobId -> Status or Absent]: the status column of table jobs
    rowPhase,   \* [JobId -> Phase]: its phase column
    placed,     \* the jobs in table job_order
    place,      \* their order by position, as a set of pairs
    counters,   \* whether the rows of the two counters exist in stats_metadata
    lifetime,   \* [Shrinking -> 0 .. MaxCounted]: savings in lifetime_saved
    session,    \* the same for session_saved
    writes,     \* the store calls the running method has still to make
    program,    \* "up", "down", or "reset": the rows are reset but not loaded
    failures,   \* how many writes have failed
    missed      \* jobs whose saving no counter got (history variable)

jobvars == <<row, rowPhase, placed, place>>
sumvars == <<counters, lifetime, session, missed>>
dbvars  == <<jobvars, sumvars>>
runvars == <<writes, program, failures>>
dqvars  == <<qvars, dbvars, runvars>>

\* The calls persist, persistOrder and persistDelete make, and that of SetOrder.
Save(S)  == [call |-> "save", jobs |-> S]
Place(j) == [call |-> "place", jobs |-> {j}]
Erase(j) == [call |-> "erase", jobs |-> {j}]
SetOrder == [call |-> "order", jobs |-> {}]
Count(j) == [call |-> "count", jobs |-> {j}]

\* The jobs of S as a sequence, in the order of the queue.
InOrder(S) ==
    CHOOSE s \in [1 .. Cardinality(S) -> S] :
        \A i, k \in 1 .. Cardinality(S) : i < k => <<s[i], s[k]>> \in order

-----------------------------------------------------------------------------
(* The methods of Queue: memory first, then the calls to make.             *)

Method(Body, calls) ==
    /\ program = "up"
    /\ writes = <<>>
    /\ Body
    /\ writes' = calls
    /\ UNCHANGED <<dbvars, program, failures>>

\* Add (n = 1) and AddMultiple: the rows in one transaction, then each place.
Adds(n, skipped) ==
    Method(AddJobs(n, skipped),
           <<Save(NewIds(n))>> \o [i \in 1 .. n |-> Place(lastId + i)])

\* Mutant: the counters come first.
CountsThenCompletes(j) ==
    /\ status[j] \notin {"complete", "failed", "skipped"}
    /\ Method(CompleteJob(j),
              IF j \in Shrinking THEN <<Count(j), Save({j})>> ELSE <<Save({j})>>)

\* CompleteJob: the row, then the counters if there is something to count.  The code does
\* not ask for the status: that a start has one end is an assumption on the workers, which
\* two of them may break after a Pause (see the README).
Completes(j) ==
    /\ status[j] \notin {"complete", "failed", "skipped"}
    /\ Method(CompleteJob(j),
              IF j \in Shrinking THEN <<Save({j}), Count(j)>> ELSE <<Save({j})>>)

Fails(j) ==
    /\ status[j] \notin {"complete", "skipped"}
    /\ Method(FailJob(j), <<Save({j})>>)

Changes(j) ==
    \/ Method(StartJob(j), <<Save({j})>>)
    \/ Completes(j) \/ Fails(j)
    \/ Method(SkipJob(j), <<Save({j})>>)
    \/ \E ph \in Phase \ {NoPhase} : Method(UpdateJobPhase(j, ph), <<Save({j})>>)
    \/ Method(CancelJob(j), <<Save({j})>>)

Requeues(j) == Method(Requeue(j), <<Save({j}), SetOrder>>)

Clears(filter) ==
    /\ Cleared(filter) # {}
    /\ LET s == InOrder(Cleared(filter))
       IN  Method(Clear(filter), [i \in DOMAIN s |-> Erase(s[i])])

Removes(j) == Method(Remove(j), <<Erase(j)>>)

-----------------------------------------------------------------------------
(* The store.                                                              *)

\* Mutant: INSERT OR REPLACE, which deletes the old row and with it its place.
SaveRowsAnew(S) ==
    /\ row' = [j \in JobId |-> IF j \in S THEN status[j] ELSE row[j]]
    /\ rowPhase' = [j \in JobId |-> IF j \in S THEN phase[j] ELSE rowPhase[j]]
    /\ placed' = placed \ S
    /\ place' = {p \in place : p[1] \notin S /\ p[2] \notin S}

\* SaveJob, SaveJobs: an upsert, which keeps the job's place.
SaveRows(S) ==
    /\ row' = [j \in JobId |-> IF j \in S THEN status[j] ELSE row[j]]
    /\ rowPhase' = [j \in JobId |-> IF j \in S THEN phase[j] ELSE rowPhase[j]]
    /\ UNCHANGED <<placed, place>>

\* AppendToOrder.  A job with no row is refused where foreign keys are on; a job
\* that has its place keeps it.
AppendToOrder(j) ==
    /\ \/ /\ j \notin placed
          /\ placed' = placed \cup {j}
          /\ place' = place \cup (placed \X {j})
       \/ (row[j] = Absent \/ j \in placed) /\ UNCHANGED <<placed, place>>
    /\ UNCHANGED <<row, rowPhase>>

\* AddToLifetimeSaved: one UPDATE adds to both counters, if their rows are there.
AddToLifetimeSaved(j) ==
    LET OneMore(n) == IF n < MaxCounted THEN n + 1 ELSE n IN
    /\ \/ /\ counters
          /\ lifetime' = [lifetime EXCEPT ![j] = OneMore(@)]
          /\ session' = [session EXCEPT ![j] = OneMore(@)]
          /\ UNCHANGED missed
       \/ ~counters /\ missed' = missed \cup {j} /\ UNCHANGED <<lifetime, session>>
    /\ UNCHANGED counters

\* ResetSession, a request of its own that does not touch the queue.
ResetSession ==
    /\ program = "up"
    /\ counters
    /\ session' = [j \in Shrinking |-> 0]
    /\ UNCHANGED <<qvars, jobvars, counters, lifetime, missed, runvars>>

\* DeleteJob; the cascade to job_order comes with foreign keys.
DeleteJob(j) ==
    /\ row' = [row EXCEPT ![j] = Absent]
    /\ rowPhase' = [rowPhase EXCEPT ![j] = NoPhase]
    /\ \/ placed' = placed \ {j} /\ place' = {p \in place : j \notin {p[1], p[2]}}
       \/ UNCHANGED <<placed, place>>

\* SetOrder: all places anew.  With foreign keys one job without a row rolls the
\* transaction back.
ReplaceOrder ==
    /\ \/ placed' = Present /\ place' = order
       \/ (\E j \in Present : row[j] = Absent) /\ UNCHANGED <<placed, place>>
    /\ UNCHANGED <<row, rowPhase>>

WriteSucceeds ==
    /\ writes # <<>>
    /\ LET w == Head(writes) IN
          \/ w.call = "save" /\ SaveRows(w.jobs) /\ UNCHANGED sumvars
          \/ w.call = "place" /\ (\E j \in w.jobs : AppendToOrder(j)) /\ UNCHANGED sumvars
          \/ w.call = "erase" /\ (\E j \in w.jobs : DeleteJob(j)) /\ UNCHANGED sumvars
          \/ w.call = "order" /\ ReplaceOrder /\ UNCHANGED sumvars
          \/ w.call = "count" /\ (\E j \in w.jobs : AddToLifetimeSaved(j))
                               /\ UNCHANGED jobvars
    /\ writes' = Tail(writes)
    /\ UNCHANGED <<qvars, program, failures>>

WriteFails ==
    /\ writes # <<>>
    /\ failures < MaxFailures
    /\ failures' = failures + 1
    /\ writes' = Tail(writes)
    /\ UNCHANGED <<qvars, dbvars, program>>

-----------------------------------------------------------------------------
(* Crash and restart.                                                      *)

\* The calls the running method has still to make.
Calls == {writes[i] : i \in DOMAIN writes}

\* The program dies, at any moment; memory is lost.  Ids go on growing, since they
\* begin with the time.  A saving whose row is stored is not counted any more.
Crash ==
    /\ program' = "down"
    /\ writes' = <<>>
    /\ status' = [j \in JobId |-> Absent]
    /\ phase' = [j \in JobId |-> NoPhase]
    /\ order' = {}
    /\ missed' = missed \cup {j \in Shrinking : row[j] = "complete" /\ Count(j) \in Calls}
    /\ UNCHANGED <<lastId, jobvars, counters, lifetime, session, failures>>

\* The rows of jobs that were running when the program died.
Interrupted == {j \in JobId : row[j] = "running"}

\* Mutant: the phase column is not reset.
ResetRunningStatus ==
    /\ program = "down"
    /\ row' = [j \in JobId |-> IF j \in Interrupted THEN "pending" ELSE row[j]]
    /\ program' = "reset"
    /\ UNCHANGED <<qvars, rowPhase, placed, place, sumvars, writes, failures>>

\* ResetRunningJobs, which InitStore calls before anything reads the jobs.
ResetRunningJobs ==
    /\ program = "down"
    /\ row' = [j \in JobId |-> IF j \in Interrupted THEN "pending" ELSE row[j]]
    /\ rowPhase' = [j \in JobId |-> IF j \in Interrupted THEN NoPhase ELSE rowPhase[j]]
    /\ program' = "reset"
    /\ UNCHANGED <<qvars, placed, place, sumvars, writes, failures>>

\* Mutant: the order is read from job_order alone.
PlacedOrder == place

\* The order of GetAllJobs: rows without a place have a NULL position, which sorts
\* before every other; among themselves they come by time of creation, and if that
\* is the same second as they were inserted.
LoadedOrder ==
    {p \in JobId \X JobId :
        /\ p[1] # p[2] /\ row[p[1]] # Absent /\ row[p[2]] # Absent
        /\ \/ p \in place
           \/ p[1] \notin placed /\ (p[2] \in placed \/ p[1] < p[2])}

\* NewQueueWithStore.
Load ==
    /\ program = "reset"
    /\ program' = "up"
    /\ status' = row
    /\ phase' = rowPhase
    /\ order' = LoadedOrder
    /\ UNCHANGED <<lastId, dbvars, writes, failures>>

\* What the program does once it is up.
Operates ==
    \/ \E n \in 1 .. MaxJobs : \E skipped \in SUBSET NewIds(n) : Adds(n, skipped)
    \/ \E j \in JobId : Changes(j) \/ Requeues(j) \/ Removes(j)
    \/ \E f \in ClearFilters : Clears(f)
    \/ ResetSession
    \/ WriteSucceeds \/ WriteFails

-----------------------------------------------------------------------------
(* Properties.                                                             *)

\* The jobs that the writes still to come are about; SetOrder follows the save of
\* the one job it moves.
Unwritten == UNION {c.jobs : c \in Calls}

\* As long as no write has failed, the database says of every job what memory says,
\* but for the jobs of the method that is running: were the program to die now, the
\* restart would find each other job with its status (running ones pending), its
\* phase, and the same jobs before and behind it.
StoreInSync ==
    program = "up" /\ failures = 0 =>
        \A j \in JobId \ Unwritten :
            /\ row[j] = status[j]
            /\ rowPhase[j] = phase[j]
            /\ SetOrder \notin Calls =>
                  \A k \in JobId \ Unwritten :
                      (<<j, k>> \in LoadedOrder) <=> (<<j, k>> \in order)

\* The lifetime total is the sum over the jobs that were completed, whatever crashes,
\* restarts, clears and removals there are: without failed writes a job is in it once
\* at most, and only when its row says complete, so that no crash makes it run and
\* count again; and a complete job is missing only if the program died between its
\* row and the counters, or the counters do not exist.  Resetting the session never
\* leaves it above the lifetime total.
SavingsAreRight ==
    \A j \in Shrinking :
        /\ session[j] <= lifetime[j]
        /\ failures = 0 =>
              /\ lifetime[j] <= 1
              /\ lifetime[j] = 1 => row[j] \in {"complete", Absent}
              /\ row[j] = "complete" /\ Count(j) \notin Calls =>
                    lifetime[j] = 1 \/ j \in missed
=============================================================================
