---------------------------- MODULE JobLifecycle ----------------------------
(***************************************************************************)
(* What the server promises about one job and its file, whatever queue,    *)
(* workers and locks are behind it: the life of each job as the types of   *)
(* internal/jobs/job.go and the state diagram of                           *)
(* docs/architecture/job-lifecycle.md give it, independent of the others.  *)
(* A job that has ended is left alone, and the file is replaced by the     *)
(* output once, while the job runs, if and only if the job ends complete.  *)
(***************************************************************************)
CONSTANT Job

VARIABLES
    state,  \* [Job -> Job.Status, or "absent"]
    file    \* [Job -> "original" or "output"]: what the job's path holds

Init == \A j \in Job : state[j] = "absent" /\ file[j] = "original"

\* Add: waiting, or skipped at once.
Arrives(j) ==
    /\ state[j] = "absent"
    /\ state'[j] \in {"pending", "skipped"}
    /\ file'[j] = file[j]

Starts(j) == state[j] = "pending" /\ state'[j] = "running" /\ file'[j] = file[j]

Replaces(j) ==
    /\ state[j] = "running" /\ state'[j] = "running"
    /\ file[j] = "original" /\ file'[j] = "output"

Completes(j) ==
    /\ state[j] = "running" /\ state'[j] = "complete"
    /\ file[j] = "output" /\ file'[j] = "output"

\* Failed, skipped or cancelled: the original stays.  A waiting job ends so when
\* its preset is gone or the user cancels it.
GivesUp(j) ==
    /\ \/ state[j] = "running" /\ state'[j] \in {"failed", "skipped", "cancelled"}
       \/ state[j] = "pending" /\ state'[j] \in {"failed", "cancelled"}
    /\ file[j] = "original" /\ file'[j] = "original"

JobNext(j) == Arrives(j) \/ Starts(j) \/ Replaces(j) \/ Completes(j) \/ GivesUp(j)

Next == \A j \in Job : JobNext(j) \/ UNCHANGED <<state[j], file[j]>>

Spec == Init /\ [][Next]_<<state, file>>
=============================================================================
